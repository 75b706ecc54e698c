--------------------------- MODULE IdentityProofs ---------------------------
(***************************************************************************)
(* That a phone keeps one identity (DeviceIdentity): its requests and      *)
(* calls, the credentials they carry, the family of the phone, then that   *)
(* one of its credentials is in force and that it loses them with a cause. *)
(***************************************************************************)
EXTENDS DeviceIdentity, TLAPS

\* What a request carries at each of its points.
LEMMA RequestCarries ==
    ASSUME IdentityTypeOK, NEW q \in Requests
    PROVE  LET r == request[q] IN
           /\ r # Quiet <=> r.pc # "idle"
           /\ r # Quiet => r \in Handling /\ r.by \in Askers
           /\ r.pc \in {"check", "enrol"} =>
                  r \in [pc : {"check", "enrol"}, by : Askers, ticket : Tickets]
           /\ r.pc \in {"read", "revoke", "use"} =>
                  r \in [pc : {"read", "revoke", "use"}, by : Askers, cred : Creds]
           /\ r.pc = "issue" => r \in [pc : {"issue"}, by : Askers, family : Creds \cup {None}]
           /\ r.pc = "answer" => r \in [pc : {"answer"}, by : Askers, result : Creds \cup {None}]
<1>1. request[q] \in {Quiet} \cup Handling
  BY DEF IdentityTypeOK
<1>2. CASE request[q] = Quiet
  BY <1>2 DEF Quiet
<1>3. CASE request[q] \in [pc : {"check", "enrol"}, by : Askers, ticket : Tickets]
  BY <1>3 DEF Handling, Quiet
<1>4. CASE request[q] \in [pc : {"read", "revoke", "use"}, by : Askers, cred : Creds]
  BY <1>4 DEF Handling, Quiet
<1>5. CASE request[q] \in [pc : {"issue"}, by : Askers, family : Creds \cup {None}]
  BY <1>5 DEF Handling, Quiet
<1>6. CASE request[q] \in [pc : {"answer"}, by : Askers, result : Creds \cup {None}]
  BY <1>6 DEF Handling, Quiet
<1> QED
  BY <1>1, <1>2, <1>3, <1>4, <1>5, <1>6 DEF Handling

\* What a call carries.
LEMMA CallHolds ==
    ASSUME IdentityTypeOK, NEW k \in Calls
    PROVE  /\ call[k] # Quiet <=> call[k].pc # "idle"
           /\ call[k].pc \in {"idle", "sent", "denied", "refreshing", "storing"}
           /\ call[k].pc \in {"sent", "denied", "refreshing"} =>
                  call[k] \in [pc : {"sent", "denied", "refreshing"}, token : Creds]
           /\ call[k].pc = "storing" => call[k] \in [pc : {"storing"}, token : Creds, fresh : Creds]
BY DEF IdentityTypeOK, Quiet

\* The next point of a request, and of a call.
LEMMA RequestTyped ==
    ASSUME IdentityTypeOK, NEW q \in Requests, NEW r \in {Quiet} \cup Handling, Request(q, r)
    PROVE  /\ request' \in [Requests -> {Quiet} \cup Handling]
           /\ request'[q] = r /\ \A p \in Requests \ {q} : request'[p] = request[p]
BY DEF IdentityTypeOK, Request

\* The same of a call.
LEMMA CallTyped ==
    ASSUME IdentityTypeOK, NEW k \in Calls, NEW c, Calling(k, c),
           c \in {Quiet} \cup [pc : {"sent", "denied", "refreshing"}, token : Creds]
                 \cup [pc : {"storing"}, token : Creds, fresh : Creds]
    PROVE  /\ call' \in [Calls -> {Quiet} \cup [pc : {"sent", "denied", "refreshing"}, token : Creds]
                             \cup [pc : {"storing"}, token : Creds, fresh : Creds]]
           /\ call'[k] = c /\ \A j \in Calls \ {k} : call'[j] = call[j]
BY DEF IdentityTypeOK, Calling

\* A credential that exists is a row.
LEMMA CredsTyped ==
    ASSUME IdentityTypeOK, NEW c \in Creds, cred[c] # NoCred
    PROVE  cred[c] \in CredRow
BY DEF IdentityTypeOK

\* Every variable keeps its type.
LEMMA IdentityTypesHold ==
    ASSUME IdentityInv, [IdentityNext]_identityVars
    PROVE  IdentityTypeOK'
<1> USE IdentityAssumption DEF IdentityInv
<1>t. /\ enrolment \in {"PENDING", "ENROLLED", "REVOKED"}
      /\ ticket \in [Tickets -> {None, "unused", "used", "expired"}]
      /\ cred \in [Creds -> {NoCred} \cup CredRow]
      /\ outdated \subseteq Creds
      /\ unit \in [access : Creds \cup {None}, refresh : Creds \cup {None}]
      /\ excuse \subseteq {"new", "revoked", "unanswered", "killed", "aged", "gateway"}
      /\ enrolled \in [Tickets -> [times : Nat, overlap : BOOLEAN]]
  BY DEF IdentityTypeOK
<1>1. ASSUME NEW t \in Tickets, CreateTicket(t) \/ TicketExpires(t)
      PROVE  IdentityTypeOK'
  BY <1>1 DEF CreateTicket, TicketExpires, IdentityTypeOK
<1>2. CASE RevokeDevice
  <2>1. cred' \in [Creds -> {NoCred} \cup CredRow]
    <3>1. ASSUME NEW c \in Creds, cred[c] # NoCred
          PROVE  [cred[c] EXCEPT !.revoked = TRUE] \in CredRow
      <4>1. cred[c] \in CredRow
        BY <1>t, <3>1
      <4> QED
        BY <4>1 DEF CredRow
    <3> QED
      BY <1>2, <1>t, <3>1 DEF RevokeDevice
  <2> QED
    BY <1>2, <2>1 DEF RevokeDevice, IdentityTypeOK
<1>3. ASSUME NEW q \in Requests, CheckTicket(q)
      PROVE  IdentityTypeOK'
  <2>1. request[q] \in [pc : {"check", "enrol"}, by : Askers, ticket : Tickets]
    BY <1>3, RequestCarries DEF CheckTicket
  <2>2. PICK r \in Handling : Request(q, r)
    BY <1>3, <2>1 DEF CheckTicket, Handling
  <2> QED
    BY <1>3, <2>2, RequestTyped DEF CheckTicket, IdentityTypeOK
<1>4. ASSUME NEW q \in Requests, Enrol(q)
      PROVE  IdentityTypeOK'
  <2>1. request[q] \in [pc : {"check", "enrol"}, by : Askers, ticket : Tickets]
    BY <1>4, RequestCarries DEF Enrol
  <2>2. PICK r \in Handling : Request(q, r)
    BY <1>4, <2>1 DEF Enrol, Handling
  <2>3. enrolled' \in [Tickets -> [times : Nat, overlap : BOOLEAN]]
    BY <1>4, <1>t, <2>1 DEF Enrol
  <2>4. ticket' \in [Tickets -> {None, "unused", "used", "expired"}]
    BY <1>4, <1>t DEF Enrol
  <2> QED
    BY <1>4, <2>2, <2>3, <2>4, RequestTyped DEF Enrol, IdentityTypeOK
<1>5. ASSUME NEW q \in Requests, ReadCred(q)
      PROVE  IdentityTypeOK'
  <2>1. request[q] \in [pc : {"read", "revoke", "use"}, by : Askers, cred : Creds]
    BY <1>5, RequestCarries DEF ReadCred
  <2>2. PICK r \in Handling : Request(q, r)
    BY <1>5, <2>1 DEF ReadCred, Handling
  <2> QED
    BY <1>5, <2>2, RequestTyped DEF ReadCred, IdentityTypeOK
<1>6. ASSUME NEW q \in Requests, RevokeFamily(q)
      PROVE  IdentityTypeOK'
  <2>1. request[q] \in [pc : {"read", "revoke", "use"}, by : Askers, cred : Creds]
    BY <1>6, RequestCarries DEF RevokeFamily
  <2>2. PICK r \in Handling : Request(q, r)
    BY <1>6, <2>1 DEF RevokeFamily, Handling
  <2>3. cred' \in [Creds -> {NoCred} \cup CredRow]
    <3>1. cred[request[q].cred] # NoCred
      BY <1>6, <2>1 DEF CredsAgree, RevokeFamily
    <3>2. ASSUME NEW c \in InFamily(cred[request[q].cred].family)
          PROVE  [cred[c] EXCEPT !.revoked = TRUE] \in CredRow
      <4>1. cred[c] \in CredRow
        BY <1>t, <2>1, <3>1, <3>2 DEF InFamily, NoCred, CredRow
      <4> QED
        BY <4>1 DEF CredRow
    <3> QED
      BY <1>6, <1>t, <3>2 DEF RevokeFamily
  <2> QED
    BY <1>6, <2>2, <2>3, RequestTyped DEF RevokeFamily, IdentityTypeOK
<1>7. ASSUME NEW q \in Requests, UseCred(q)
      PROVE  IdentityTypeOK'
  <2>1. request[q] \in [pc : {"read", "revoke", "use"}, by : Askers, cred : Creds]
    BY <1>7, RequestCarries DEF UseCred
  <2>2. cred[request[q].cred] \in CredRow
    BY <1>7, <1>t, <2>1 DEF UseCred, CredsAgree
  <2>3. PICK r \in Handling : Request(q, r)
    BY <1>7, <2>1, <2>2 DEF UseCred, Handling, CredRow
  <2>4. cred' \in [Creds -> {NoCred} \cup CredRow]
    BY <1>7, <1>t, <2>2 DEF UseCred, CredRow
  <2> QED
    BY <1>7, <2>3, <2>4, RequestTyped DEF UseCred, IdentityTypeOK
<1>8. ASSUME NEW q \in Requests, Issue(q)
      PROVE  IdentityTypeOK'
  <2>1. request[q] \in [pc : {"issue"}, by : Askers, family : Creds \cup {None}]
    BY <1>8, RequestCarries DEF Issue
  <2>2. PICK c \in Creds :
            /\ cred' = [cred EXCEPT ![c] =
                   [family |-> IF request[q].family = None THEN c ELSE request[q].family,
                    used |-> FALSE, revoked |-> FALSE, aged |-> FALSE]]
            /\ Request(q, [pc |-> "answer", by |-> request[q].by, result |-> c])
    BY <1>8 DEF Issue, Fresh
  <2>3. PICK r \in Handling : Request(q, r)
    BY <2>1, <2>2 DEF Handling
  <2>4. cred' \in [Creds -> {NoCred} \cup CredRow]
    BY <1>t, <2>1, <2>2 DEF CredRow
  <2> QED
    BY <1>8, <2>3, <2>4, RequestTyped DEF Issue, IdentityTypeOK
<1>9. ASSUME NEW q \in Requests, NEW t \in Tickets, StartEnrolment(t, q)
      PROVE  IdentityTypeOK'
  <2>1. PICK r \in Handling : Request(q, r)
    BY <1>9 DEF StartEnrolment, Handling, Askers
  <2>2. enrolled' \in [Tickets -> [times : Nat, overlap : BOOLEAN]]
    <3> DEFINE b == enrolled[t].overlap \/ UnderWay(t)
    <3>1. b \in BOOLEAN
      OBVIOUS
    <3>2. enrolled' = [enrolled EXCEPT ![t].overlap = b]
      BY <1>9 DEF StartEnrolment
    <3> HIDE DEF b
    <3> QED
      BY <1>t, <3>1, <3>2
  <2> QED
    BY <1>9, <2>1, <2>2, RequestTyped DEF StartEnrolment, IdentityTypeOK
<1>10. ASSUME NEW q \in Requests, EndEnrolment(q)
       PROVE  IdentityTypeOK'
  <2>1. request[q] \in [pc : {"answer"}, by : Askers, result : Creds \cup {None}]
    BY <1>10, RequestCarries DEF EndEnrolment
  <2>2. /\ unit' \in [access : Creds \cup {None}, refresh : Creds \cup {None}]
        /\ excuse' \subseteq {"new", "revoked", "unanswered", "killed", "aged", "gateway"}
    <3>1. CASE request[q].result = None
      BY <1>10, <1>t, <3>1 DEF EndEnrolment
    <3>2. CASE request[q].result # None
      <4>1. /\ unit' = [access |-> request[q].result, refresh |-> request[q].result]
            /\ excuse' \subseteq {"revoked", "aged"}
        BY <1>10, <3>2 DEF EndEnrolment
      <4> QED
        BY <2>1, <3>2, <4>1
    <3> QED
      BY <3>1, <3>2
  <2> QED
    BY <1>10, <2>2, RequestTyped DEF EndEnrolment, IdentityTypeOK
<1>11. ASSUME NEW k \in Calls, StartCall(k)
       PROVE  IdentityTypeOK'
  <2>1. unit.access \in Creds
    BY <1>11, <1>t DEF StartCall
  <2> QED
    BY <1>11, <2>1, CallTyped DEF StartCall, IdentityTypeOK
<1>12. ASSUME NEW k \in Calls, Guard(k)
       PROVE  IdentityTypeOK'
  <2>1. call[k] \in [pc : {"sent", "denied", "refreshing"}, token : Creds]
    BY <1>12, CallHolds DEF Guard
  <2>2. PICK c \in {Quiet} \cup [pc : {"sent", "denied", "refreshing"}, token : Creds] : Calling(k, c)
    BY <1>12, <2>1 DEF Guard
  <2> QED
    BY <1>12, <2>2, CallTyped DEF Guard, IdentityTypeOK
<1>13. ASSUME NEW q \in Requests, NEW k \in Calls, Refresh(k, q)
       PROVE  IdentityTypeOK'
  <2>1. call[k] \in [pc : {"sent", "denied", "refreshing"}, token : Creds]
    BY <1>13, CallHolds DEF Refresh
  <2>2. PICK c \in {Quiet} \cup [pc : {"sent", "denied", "refreshing"}, token : Creds] : Calling(k, c)
    BY <1>13, <2>1 DEF Refresh
  <2>3. request' \in [Requests -> {Quiet} \cup Handling]
    <3>1. CASE unit.refresh = None \/ unit.access \notin {None, call[k].token}
      BY <1>13, <3>1 DEF Refresh, IdentityTypeOK
    <3>2. CASE ~(unit.refresh = None \/ unit.access \notin {None, call[k].token})
      <4>1. [pc |-> "read", by |-> k, cred |-> unit.refresh] \in Handling
        BY <1>t, <3>2 DEF Handling, Askers
      <4> QED
        BY <1>13, <3>2, <4>1, RequestTyped DEF Refresh
    <3> QED
      BY <3>1, <3>2
  <2> QED
    BY <1>13, <2>2, <2>3, CallTyped DEF Refresh, IdentityTypeOK
<1>14. ASSUME NEW q \in Requests, NEW k \in Calls, Refused(k, q)
       PROVE  IdentityTypeOK'
  <2>1. Stranger \in [access : Creds \cup {None}, refresh : Creds \cup {None}]
    BY DEF Stranger
  <2> QED
    BY <1>14, <2>1, CallTyped, RequestTyped DEF Refused, IdentityTypeOK
<1>15. ASSUME NEW q \in Requests, NEW k \in Calls, StoreAccess(k, q)
       PROVE  IdentityTypeOK'
  <2>1. /\ request[q] \in [pc : {"answer"}, by : Askers, result : Creds \cup {None}]
        /\ request[q] # Quiet
    BY <1>15, RequestCarries DEF StoreAccess
  <2>2. call[k] \in [pc : {"sent", "denied", "refreshing"}, token : Creds]
    BY <1>15, <2>1, CallHolds DEF StoreAccess, RotationsAgree
  <2>3. PICK c \in [pc : {"storing"}, token : Creds, fresh : Creds] : Calling(k, c)
    BY <1>15, <2>1, <2>2 DEF StoreAccess
  <2>4. unit' \in [access : Creds \cup {None}, refresh : Creds \cup {None}]
    BY <1>15, <1>t, <2>1 DEF StoreAccess
  <2> QED
    BY <1>15, <2>3, <2>4, CallTyped, RequestTyped DEF StoreAccess, IdentityTypeOK
<1>16. ASSUME NEW k \in Calls, StoreRefresh(k)
       PROVE  IdentityTypeOK'
  <2>1. call[k] \in [pc : {"storing"}, token : Creds, fresh : Creds]
    BY <1>16, CallHolds DEF StoreRefresh
  <2>2. unit' \in [access : Creds \cup {None}, refresh : Creds \cup {None}]
    BY <1>16, <1>t, <2>1 DEF StoreRefresh
  <2> QED
    BY <1>16, <2>2, CallTyped DEF StoreRefresh, IdentityTypeOK
<1>17. ASSUME NEW q \in Requests, GiveUp(q)
       PROVE  IdentityTypeOK'
  <2>1. request[q] \in Handling /\ request[q].by \in Askers
    BY <1>17, RequestCarries DEF GiveUp
  <2>2. PICK r \in Handling : Request(q, r)
    BY <1>17, <2>1 DEF GiveUp, Handling, Askers
  <2>3. /\ request' \in [Requests -> {Quiet} \cup Handling]
        /\ excuse' \subseteq {"new", "revoked", "unanswered", "killed", "aged", "gateway"}
    BY <1>17, <1>t, <2>2, RequestTyped DEF GiveUp
  <2> QED
    BY <1>17, <2>3, CallTyped DEF GiveUp, IdentityTypeOK
<1>18. ASSUME NEW q \in Requests, DropAnswer(q)
       PROVE  IdentityTypeOK'
  BY <1>18, RequestTyped DEF DropAnswer, IdentityTypeOK
<1>19. ASSUME NEW q \in Requests, LoseRequest(q)
       PROVE  IdentityTypeOK'
  BY <1>19, RequestTyped, CallTyped DEF LoseRequest, IdentityTypeOK
<1>20. ASSUME NEW q \in Requests, GatewayAnswers(q)
       PROVE  IdentityTypeOK'
  <2>1. request[q].by \in Askers
    BY <1>20, RequestCarries DEF GatewayAnswers, Quiet
  <2>2. PICK r \in Handling : Request(q, r)
    BY <1>20, <2>1 DEF GatewayAnswers, Handling
  <2>3. excuse' \subseteq {"new", "revoked", "unanswered", "killed", "aged", "gateway"}
    BY <1>20, <1>t DEF GatewayAnswers
  <2> QED
    BY <1>20, <2>2, <2>3, RequestTyped DEF GatewayAnswers, IdentityTypeOK
<1>21. CASE KillUnit
  <2>1. request' \in [Requests -> {Quiet} \cup Handling]
    <3>1. ASSUME NEW q \in Requests, request[q] # Quiet
          PROVE  [request[q] EXCEPT !.by = None] \in Handling
      <4>1. request[q] \in Handling
        BY <3>1, RequestCarries
      <4> QED
        BY <4>1 DEF Handling, Askers
    <3> QED
      BY <1>21, <3>1 DEF KillUnit
  <2>2. call' \in [Calls -> {Quiet}]
    BY <1>21 DEF KillUnit
  <2>3. excuse' \subseteq {"new", "revoked", "unanswered", "killed", "aged", "gateway"}
    BY <1>21, <1>t DEF KillUnit
  <2> QED
    BY <1>21, <2>1, <2>2, <2>3 DEF KillUnit, IdentityTypeOK
<1>22. ASSUME NEW c \in Creds, AccessExpires(c)
       PROVE  IdentityTypeOK'
  BY <1>22, <1>t DEF AccessExpires, IdentityTypeOK
<1>23. ASSUME NEW c \in Creds, CredExpires(c)
       PROVE  IdentityTypeOK'
  <2>1. cred[c] \in CredRow
    BY <1>23, <1>t DEF CredExpires, CredsAgree
  <2>2. cred' \in [Creds -> {NoCred} \cup CredRow]
    BY <1>23, <1>t, <2>1 DEF CredExpires, CredRow
  <2>3. excuse' \subseteq {"new", "revoked", "unanswered", "killed", "aged", "gateway"}
    BY <1>23, <1>t DEF CredExpires
  <2> QED
    BY <1>23, <2>2, <2>3 DEF CredExpires, IdentityTypeOK
<1>24. CASE UNCHANGED identityVars
  BY <1>24 DEF identityVars, IdentityTypeOK
<1> QED
  BY <1>1, <1>2, <1>3, <1>4, <1>5, <1>6, <1>7, <1>8, <1>9, <1>10, <1>11, <1>12, <1>13, <1>14,
     <1>15, <1>16, <1>17, <1>18, <1>19, <1>20, <1>21, <1>22, <1>23, <1>24 DEF IdentityNext

\* An enrolment that no other overlaps uses its token up: nobody else enrols with it.
LEMMA TicketsStay ==
    ASSUME IdentityInv, [IdentityNext]_identityVars
    PROVE  TicketsAgree'
<1> USE DEF IdentityInv
<1>t. /\ ticket \in [Tickets -> {None, "unused", "used", "expired"}]
      /\ enrolled \in [Tickets -> [times : Nat, overlap : BOOLEAN]]
  BY DEF IdentityTypeOK
\* Nothing becomes an enrolment, and the tokens and their history stay.
<1>a. ASSUME UNCHANGED <<ticket, enrolled>>,
             \A q \in Requests, t \in Tickets :
                 Enrolling(q, t)' => Enrolling(q, t) /\ request'[q].pc = request[q].pc
      PROVE  TicketsAgree'
  <2> SUFFICES ASSUME NEW t \in Tickets, ~enrolled[t].overlap
               PROVE  /\ enrolled[t].times <= 1
                      /\ \A p, q \in Requests : Enrolling(p, t)' /\ Enrolling(q, t)' => p = q
                      /\ enrolled[t].times = 1 =>
                            /\ ticket[t] = "used"
                            /\ \A q \in Requests : Enrolling(q, t)' => request'[q].pc = "check"
    BY <1>a DEF TicketsAgree
  <2> QED
    BY <1>a DEF TicketsAgree
<1>b. ASSUME UNCHANGED request
      PROVE  \A q \in Requests, t \in Tickets :
                 Enrolling(q, t)' => Enrolling(q, t) /\ request'[q].pc = request[q].pc
  BY <1>b DEF Enrolling
<1>c. ASSUME NEW q \in Requests, NEW r \in {Quiet} \cup Handling, Request(q, r),
             r.pc \notin {"check", "enrol"}
      PROVE  \A p \in Requests, t \in Tickets :
                 Enrolling(p, t)' => Enrolling(p, t) /\ request'[p].pc = request[p].pc
  <2>1. request'[q] = r /\ \A p \in Requests \ {q} : request'[p] = request[p]
    BY <1>c, RequestTyped
  <2> QED
    BY <1>c, <2>1 DEF Enrolling
<1>1. ASSUME NEW t \in Tickets, CreateTicket(t) \/ TicketExpires(t)
      PROVE  TicketsAgree'
  <2>1. /\ ticket[t] \in {None, "unused"} /\ ticket' \in [Tickets -> {None, "unused", "used", "expired"}]
        /\ \A u \in Tickets : ticket[u] = "used" => ticket'[u] = "used"
        /\ UNCHANGED <<request, enrolled>>
    BY <1>1, <1>t DEF CreateTicket, TicketExpires, None
  <2> QED
    BY <2>1 DEF TicketsAgree, Enrolling
<1>2. CASE RevokeDevice
  BY <1>2, <1>a, <1>b DEF RevokeDevice
<1>3. ASSUME NEW q \in Requests, CheckTicket(q)
      PROVE  TicketsAgree'
  <2>1. request[q] \in [pc : {"check", "enrol"}, by : Askers, ticket : Tickets]
    BY <1>3, RequestCarries DEF CheckTicket
  <2>2. CASE ticket[request[q].ticket] # "unused"
    <3> DEFINE r == [pc |-> "answer", by |-> request[q].by, result |-> None]
    <3>1. r \in Handling /\ r.pc = "answer" /\ Request(q, r)
      BY <1>3, <2>1, <2>2 DEF CheckTicket, Handling
    <3> HIDE DEF r
    <3> QED
      BY <1>3, <1>a, <1>c, <3>1 DEF CheckTicket
  <2>3. CASE ticket[request[q].ticket] = "unused"
    <3> DEFINE r == [request[q] EXCEPT !.pc = "enrol"]
    <3>1. r \in Handling /\ r.pc = "enrol" /\ r.ticket = request[q].ticket /\ Request(q, r)
      BY <1>3, <2>1, <2>3 DEF CheckTicket, Handling
    <3> HIDE DEF r
    <3>2. request'[q] = r /\ \A p \in Requests \ {q} : request'[p] = request[p]
      BY <3>1, RequestTyped
    <3>3. \A p \in Requests, t \in Tickets :
              Enrolling(p, t)' => /\ Enrolling(p, t)
                                  /\ ticket[t] = "used" => request'[p].pc = request[p].pc
      BY <1>3, <2>3, <3>1, <3>2 DEF Enrolling, CheckTicket
    <3> QED
      BY <1>3, <3>3 DEF TicketsAgree, CheckTicket
  <2> QED
    BY <2>2, <2>3
<1>4. ASSUME NEW q \in Requests, Enrol(q)
      PROVE  TicketsAgree'
  <2>1. request[q] \in [pc : {"check", "enrol"}, by : Askers, ticket : Tickets]
    BY <1>4, RequestCarries DEF Enrol
  <2> DEFINE u == request[q].ticket
             r == [pc |-> "issue", by |-> request[q].by, family |-> None]
  <2>2. r \in Handling /\ r.pc = "issue" /\ Request(q, r) /\ Enrolling(q, u) /\ u \in Tickets
    BY <1>4, <2>1 DEF Enrol, Handling, Enrolling
  <2>3. /\ ticket'[u] = "used" /\ \A t \in Tickets \ {u} : ticket'[t] = ticket[t]
        /\ enrolled'[u].times = enrolled[u].times + 1 /\ enrolled'[u].overlap = enrolled[u].overlap
        /\ \A t \in Tickets \ {u} : enrolled'[t] = enrolled[t]
    BY <1>4, <1>t, <2>2 DEF Enrol
  <2>4. request[q].pc = "enrol"
    BY <1>4 DEF Enrol
  <2> HIDE DEF u, r
  <2>5. request'[q] = r /\ \A p \in Requests \ {q} : request'[p] = request[p]
    BY <2>2, RequestTyped
  <2>6. \A p \in Requests, t \in Tickets :
            Enrolling(p, t)' => p # q /\ Enrolling(p, t) /\ request'[p].pc = request[p].pc
    BY <2>2, <2>5 DEF Enrolling
  <2>7. ASSUME NEW t \in Tickets, ~enrolled'[t].overlap
        PROVE  /\ enrolled'[t].times <= 1
               /\ \A p1, p2 \in Requests : Enrolling(p1, t)' /\ Enrolling(p2, t)' => p1 = p2
               /\ enrolled'[t].times = 1 =>
                     /\ ticket'[t] = "used"
                     /\ \A p \in Requests : Enrolling(p, t)' => request'[p].pc = "check"
    <3>1. CASE t # u
      BY <2>3, <2>6, <2>7, <3>1 DEF TicketsAgree
    <3>2. CASE t = u
      <4>1. ~enrolled[u].overlap
        BY <2>3, <2>7, <3>2
      <4>2. /\ enrolled[u].times <= 1 /\ enrolled[u].times # 1
            /\ \A p \in Requests : Enrolling(p, u) => p = q
        BY <2>2, <2>4, <4>1 DEF TicketsAgree
      <4>3. enrolled[u].times = 0
        BY <1>t, <2>2, <4>2
      <4> QED
        BY <2>3, <2>6, <3>2, <4>2, <4>3
    <3> QED
      BY <3>1, <3>2
  <2> QED
    BY <2>7 DEF TicketsAgree
<1>5. ASSUME NEW q \in Requests, NEW t \in Tickets, StartEnrolment(t, q)
      PROVE  TicketsAgree'
  <2> DEFINE r == [pc |-> "check", by |-> Screen, ticket |-> t]
  <2>1. r \in Handling /\ r.pc = "check" /\ r.ticket = t /\ Request(q, r)
    BY <1>5 DEF StartEnrolment, Handling, Askers
  <2> HIDE DEF r
  <2>2. request'[q] = r /\ \A p \in Requests \ {q} : request'[p] = request[p]
    BY <2>1, RequestTyped
  <2>3. /\ \A u \in Tickets : enrolled'[u].times = enrolled[u].times
        /\ \A u \in Tickets : ~enrolled'[u].overlap => ~enrolled[u].overlap
        /\ ~enrolled'[t].overlap => ~UnderWay(t)
        /\ ticket' = ticket
    BY <1>5, <1>t DEF StartEnrolment
  <2>4. \A p \in Requests, u \in Tickets : Enrolling(p, u)' /\ (p # q \/ u # t) =>
            Enrolling(p, u) /\ request'[p].pc = request[p].pc
    BY <2>1, <2>2 DEF Enrolling
  <2>5. \A p1, p2 \in Requests : ~enrolled'[t].overlap /\ Enrolling(p1, t)' /\ Enrolling(p2, t)' => p1 = p2
    BY <2>3, <2>4 DEF UnderWay
  <2> QED
    BY <2>1, <2>2, <2>3, <2>4, <2>5 DEF TicketsAgree
<1>6. ASSUME NEW q \in Requests,
             ReadCred(q) \/ RevokeFamily(q) \/ UseCred(q) \/ Issue(q) \/ EndEnrolment(q)
             \/ DropAnswer(q) \/ LoseRequest(q) \/ GatewayAnswers(q)
             \/ \E k \in Calls : Refused(k, q) \/ StoreAccess(k, q)
      PROVE  TicketsAgree'
  <2>1. \E r : Request(q, r) /\ r.pc \notin {"check", "enrol"}
    <3>1. ASSUME ReadCred(q) \/ RevokeFamily(q) \/ UseCred(q) \/ Issue(q) \/ GatewayAnswers(q)
          PROVE  \E r : Request(q, r) /\ r.pc \notin {"check", "enrol"}
      BY <3>1, RequestCarries DEF ReadCred, RevokeFamily, UseCred, Issue, GatewayAnswers
    <3>2. ASSUME EndEnrolment(q) \/ DropAnswer(q) \/ LoseRequest(q)
                 \/ \E k \in Calls : Refused(k, q) \/ StoreAccess(k, q)
          PROVE  Request(q, Quiet)
      BY <3>2 DEF EndEnrolment, DropAnswer, LoseRequest, Refused, StoreAccess
    <3> QED
      BY <1>6, <3>1, <3>2 DEF Quiet
  <2>2. UNCHANGED <<ticket, enrolled>>
    BY <1>6 DEF ReadCred, RevokeFamily, UseCred, Issue, EndEnrolment, DropAnswer, LoseRequest,
                GatewayAnswers, Refused, StoreAccess
  <2>3. \A p \in Requests, t \in Tickets :
            Enrolling(p, t)' => Enrolling(p, t) /\ request'[p].pc = request[p].pc
    BY <2>1 DEF Enrolling, Request, IdentityTypeOK
  <2> QED
    BY <1>a, <2>2, <2>3
<1>7. ASSUME NEW q \in Requests, NEW k \in Calls, Refresh(k, q)
      PROVE  TicketsAgree'
  <2>1. \A p \in Requests, t \in Tickets :
            Enrolling(p, t)' => Enrolling(p, t) /\ request'[p].pc = request[p].pc
    BY <1>7 DEF Enrolling, Request, IdentityTypeOK, Refresh
  <2> QED
    BY <1>7, <1>a, <2>1 DEF Refresh
<1>8. ASSUME NEW k \in Calls, StartCall(k) \/ Guard(k) \/ StoreRefresh(k)
      PROVE  TicketsAgree'
  BY <1>8, <1>a, <1>b DEF StartCall, Guard, StoreRefresh
<1>9. ASSUME NEW q \in Requests, GiveUp(q)
      PROVE  TicketsAgree'
  <2>1. request[q] \in Handling
    BY <1>9, RequestCarries DEF GiveUp
  <2>2. \A p \in Requests, t \in Tickets :
            Enrolling(p, t)' => Enrolling(p, t) /\ request'[p].pc = request[p].pc
    BY <1>9, <2>1 DEF Enrolling, Request, IdentityTypeOK, GiveUp, Handling
  <2> QED
    BY <1>9, <1>a, <2>2 DEF GiveUp
<1>10. CASE KillUnit
  <2>1. ASSUME NEW p \in Requests, NEW t \in Tickets, Enrolling(p, t)'
        PROVE  Enrolling(p, t) /\ request'[p].pc = request[p].pc
    <3>1. request'[p] = IF request[p] = Quiet THEN Quiet ELSE [request[p] EXCEPT !.by = None]
      BY <1>10 DEF KillUnit
    <3>2. request[p] # Quiet
      BY <2>1, <3>1 DEF Enrolling, Quiet
    <3>3. request[p] \in Handling
      BY <3>2, RequestCarries
    <3>4. request'[p].pc = request[p].pc
      BY <3>1, <3>2, <3>3 DEF Handling
    <3>5. request[p] \in [pc : {"check", "enrol"}, by : Askers, ticket : Tickets]
      BY <2>1, <3>4, RequestCarries DEF Enrolling
    <3> QED
      BY <2>1, <3>1, <3>2, <3>5 DEF Enrolling
  <2> QED
    BY <1>10, <1>a, <2>1 DEF KillUnit
<1>11. ASSUME NEW c \in Creds, AccessExpires(c) \/ CredExpires(c)
       PROVE  TicketsAgree'
  BY <1>11, <1>a, <1>b DEF AccessExpires, CredExpires
<1>12. CASE UNCHANGED identityVars
  BY <1>12, <1>a, <1>b DEF identityVars
<1> QED
  BY <1>1, <1>2, <1>3, <1>4, <1>5, <1>6, <1>7, <1>8, <1>9, <1>10, <1>11, <1>12 DEF IdentityNext

\* A statement of a request leaves it to its caller, with something to do.
LEMMA ServerAnswers ==
    ASSUME IdentityInv, NEW q \in Requests,
           CheckTicket(q) \/ Enrol(q) \/ ReadCred(q) \/ RevokeFamily(q) \/ UseCred(q) \/ Issue(q)
           \/ GatewayAnswers(q)
    PROVE  /\ request[q] # Quiet /\ request'[q] # Quiet
           /\ request'[q].by = request[q].by
           /\ request[q].pc \in {"check", "enrol"} =>
                  request'[q].pc \in {"enrol", "issue", "answer"}
           /\ request[q].pc \notin {"check", "enrol"} =>
                  request'[q].pc \in {"revoke", "use", "issue", "answer"}
           /\ request[q].pc = "issue" => request'[q].pc = "answer"
           /\ \A p \in Requests \ {q} : request'[p] = request[p]
           /\ UNCHANGED <<call, unit>>
<1> USE DEF IdentityInv
<1>0. /\ request[q].pc # "idle" => request[q] # Quiet
      /\ request \in [Requests -> {Quiet} \cup Handling]
  BY DEF Quiet, IdentityTypeOK
<1>1. CASE CheckTicket(q)
  BY <1>0, <1>1, RequestCarries DEF CheckTicket, Request, Quiet
<1>2. CASE Enrol(q)
  BY <1>0, <1>2, RequestCarries DEF Enrol, Request, Quiet
<1>3. CASE ReadCred(q)
  BY <1>0, <1>3, RequestCarries DEF ReadCred, Request, Quiet
<1>4. CASE RevokeFamily(q)
  BY <1>0, <1>4, RequestCarries DEF RevokeFamily, Request, Quiet
<1>5. CASE UseCred(q)
  BY <1>0, <1>5, RequestCarries DEF UseCred, Request, Quiet
<1>6. CASE Issue(q)
  BY <1>0, <1>6, RequestCarries DEF Issue, Request, Quiet
<1>7. CASE GatewayAnswers(q)
  BY <1>0, <1>7, RequestCarries DEF GatewayAnswers, Request, Quiet
<1> QED
  BY <1>1, <1>2, <1>3, <1>4, <1>5, <1>6, <1>7

\* The parts of RotationsAgree, for one request and for the calls.
CallerAgrees(q) ==
    request[q] # Quiet =>
        /\ request[q].by \in Calls =>
              /\ request[q].pc \notin {"check", "enrol"}
              /\ call[request[q].by].pc = "refreshing"
        /\ request[q].by = Screen => /\ request[q].pc \notin {"read", "revoke", "use"}
                                    /\ unit.refresh = None
AlikeAgree(p, q) ==
    request[p] # Quiet /\ request[q] # Quiet /\ request[p].by = request[q].by /\ request[q].by # None
    => p = q

\* What RotationsAgree says of each request, and of two of them.
LEMMA RotationParts ==
    RotationsAgree <=>
        /\ unit.access = None <=> unit.refresh = None
        /\ \A j, k \in Calls :
               call[j].pc \in Rotation /\ call[k].pc \in Rotation => j = k /\ unit.refresh # None
        /\ \A q \in Requests : CallerAgrees(q)
        /\ \A p, q \in Requests : AlikeAgree(p, q)
BY DEF RotationsAgree, CallerAgrees, AlikeAgree

\* A caller waits for one request, and the phone rotates with one call.
LEMMA RotationsStay ==
    ASSUME IdentityInv, [IdentityNext]_identityVars
    PROVE  RotationsAgree'
<1> USE IdentityAssumption DEF IdentityInv
<1>t. /\ request \in [Requests -> {Quiet} \cup Handling]
      /\ unit \in [access : Creds \cup {None}, refresh : Creds \cup {None}]
      /\ DOMAIN call = Calls
  BY DEF IdentityTypeOK
<1>p. /\ unit.access = None <=> unit.refresh = None
      /\ \A j, k \in Calls :
             call[j].pc \in Rotation /\ call[k].pc \in Rotation => j = k /\ unit.refresh # None
      /\ \A q \in Requests : CallerAgrees(q)
      /\ \A p, q \in Requests : AlikeAgree(p, q)
  BY RotationParts
<1>q. (/\ unit.access = None <=> unit.refresh = None
       /\ \A j, k \in Calls :
              call[j].pc \in Rotation /\ call[k].pc \in Rotation => j = k /\ unit.refresh # None
       /\ \A q \in Requests : CallerAgrees(q)
       /\ \A p, q \in Requests : AlikeAgree(p, q))' => RotationsAgree'
  BY DEF RotationsAgree, CallerAgrees, AlikeAgree
<1>1. ASSUME NEW q \in Requests,
             CheckTicket(q) \/ Enrol(q) \/ ReadCred(q) \/ RevokeFamily(q) \/ UseCred(q) \/ Issue(q)
             \/ GatewayAnswers(q)
      PROVE  RotationsAgree'
  <2>1. /\ request[q] # Quiet /\ request'[q] # Quiet
        /\ request'[q].by = request[q].by
        /\ request[q].pc \in {"check", "enrol"} =>
               request'[q].pc \in {"enrol", "issue", "answer"}
        /\ request[q].pc \notin {"check", "enrol"} =>
               request'[q].pc \in {"revoke", "use", "issue", "answer"}
        /\ request[q].pc = "issue" => request'[q].pc = "answer"
        /\ \A p \in Requests \ {q} : request'[p] = request[p]
        /\ UNCHANGED <<call, unit>>
    BY <1>1, ServerAnswers
  <2>2. request[q].pc \in {"check", "enrol", "read", "revoke", "use", "issue", "answer"}
    BY <2>1, RequestCarries DEF Handling
  <2>3. request[q].pc # "answer"
    BY <1>1 DEF CheckTicket, Enrol, ReadCred, RevokeFamily, UseCred, Issue, GatewayAnswers
  <2>4. ASSUME NEW p \in Requests
        PROVE  CallerAgrees(p)'
    <3>1. CASE p # q
      BY <1>p, <2>1, <3>1 DEF CallerAgrees
    <3>2. CASE p = q
      BY <1>p, <2>1, <2>2, <2>3, <3>2 DEF CallerAgrees
    <3> QED
      BY <3>1, <3>2
  <2>5. \A p, r \in Requests : AlikeAgree(p, r)'
    BY <1>p, <2>1 DEF AlikeAgree
  <2> QED
    BY <1>p, <1>q, <2>1, <2>4, <2>5
\* Requests that end, and nothing else.
<1>e. ASSUME NEW q \in Requests, Request(q, Quiet), UNCHANGED <<call, unit>>
      PROVE  RotationsAgree'
  <2>1. request'[q] = Quiet /\ \A p \in Requests \ {q} : request'[p] = request[p]
    BY <1>t, <1>e DEF Request
  <2> QED
    BY <1>e, <1>p, <1>q, <2>1 DEF CallerAgrees, AlikeAgree
\* A call that has no request any more, and ends.
<1>f. ASSUME NEW q \in Requests, NEW k \in Calls, request'[q] = Quiet \/ request'[q].by = None,
             \A p \in Requests \ {q} : request'[p] = request[p],
             Calling(k, Quiet), request[q] # Quiet, request[q].by = k, UNCHANGED unit
      PROVE  RotationsAgree'
  <2>1. call'[k].pc = "idle" /\ \A j \in Calls \ {k} : call'[j] = call[j]
    BY <1>f, <1>t DEF Calling, Quiet
  <2>2. \A p \in Requests \ {q} : request[p] # Quiet => request[p].by # k
    BY <1>p, <1>f DEF AlikeAgree
  <2>3. ASSUME NEW p \in Requests
        PROVE  CallerAgrees(p)'
    <3>1. CASE p # q
      BY <1>p, <1>f, <2>1, <2>2, <3>1 DEF CallerAgrees
    <3>2. CASE p = q
      BY <1>f, <3>2 DEF CallerAgrees, None, Screen
    <3> QED
      BY <3>1, <3>2
  <2>4. \A p, r \in Requests : AlikeAgree(p, r)'
    BY <1>p, <1>f DEF AlikeAgree
  <2>5. \A j, i \in Calls :
            call'[j].pc \in Rotation /\ call'[i].pc \in Rotation => j = i /\ unit.refresh # None
    BY <1>p, <2>1 DEF Rotation
  <2> QED
    BY <1>f, <1>p, <1>q, <2>3, <2>4, <2>5
<1>2. ASSUME NEW q \in Requests, DropAnswer(q)
      PROVE  RotationsAgree'
  BY <1>2, <1>e DEF DropAnswer
<1>3. ASSUME NEW q \in Requests, EndEnrolment(q)
      PROVE  RotationsAgree'
  <2>1. request[q] # Quiet /\ request[q] \in [pc : {"answer"}, by : Askers, result : Creds \cup {None}]
    BY <1>3, RequestCarries DEF EndEnrolment, Quiet
  <2>2. CASE request[q].result = None
    BY <1>3, <1>e, <2>2 DEF EndEnrolment
  <2>3. CASE request[q].result # None
    <3>1. unit'.access # None /\ unit'.refresh # None /\ call' = call
      BY <1>3, <2>3 DEF EndEnrolment
    <3>2. request'[q] = Quiet /\ \A p \in Requests \ {q} : request'[p] = request[p]
      BY <1>3, <1>t DEF Request, EndEnrolment
    <3>3. \A p \in Requests \ {q} : request[p] # Quiet => request[p].by # Screen
      BY <1>3, <1>p, <2>1 DEF AlikeAgree, EndEnrolment, Screen, None
    <3>4. \A p \in Requests : CallerAgrees(p)'
      BY <1>p, <3>1, <3>2, <3>3 DEF CallerAgrees
    <3>5. \A p, r \in Requests : AlikeAgree(p, r)'
      BY <1>p, <3>2 DEF AlikeAgree
    <3> QED
      BY <1>p, <1>q, <3>1, <3>4, <3>5
  <2> QED
    BY <2>2, <2>3
<1>4. ASSUME NEW q \in Requests, LoseRequest(q)
      PROVE  RotationsAgree'
  <2>1. request[q] # Quiet /\ Request(q, Quiet) /\ UNCHANGED unit
    BY <1>4 DEF LoseRequest, Quiet
  <2>2. request'[q] = Quiet /\ \A p \in Requests \ {q} : request'[p] = request[p]
    BY <1>t, <2>1 DEF Request
  <2>3. CASE request[q].by \in Calls
    BY <1>4, <1>f, <2>1, <2>2, <2>3 DEF LoseRequest
  <2>4. CASE request[q].by \notin Calls
    BY <1>4, <1>e, <2>1, <2>4 DEF LoseRequest
  <2> QED
    BY <2>3, <2>4
<1>5. ASSUME NEW q \in Requests, GiveUp(q)
      PROVE  RotationsAgree'
  <2>1. request[q] # Quiet /\ request[q] \in Handling /\ UNCHANGED unit
    BY <1>5, RequestCarries DEF GiveUp
  <2>2. request'[q].by = None /\ \A p \in Requests \ {q} : request'[p] = request[p]
    BY <1>5, <1>t, <2>1 DEF Request, GiveUp, Handling
  <2>3. CASE request[q].by \in Calls
    BY <1>5, <1>f, <2>1, <2>2, <2>3 DEF GiveUp
  <2>4. CASE request[q].by \notin Calls
    <3>1. UNCHANGED <<call, unit>>
      BY <1>5, <2>4 DEF GiveUp
    <3>2. \A p \in Requests : CallerAgrees(p)'
      BY <1>p, <2>2, <3>1 DEF CallerAgrees, None, Screen
    <3>3. \A p, r \in Requests : AlikeAgree(p, r)'
      BY <1>p, <2>2 DEF AlikeAgree
    <3> QED
      BY <1>p, <1>q, <3>1, <3>2, <3>3
  <2> QED
    BY <2>3, <2>4
<1>6. ASSUME NEW q \in Requests, NEW t \in Tickets, StartEnrolment(t, q)
      PROVE  RotationsAgree'
  <2>1. /\ request'[q] = [pc |-> "check", by |-> Screen, ticket |-> t]
        /\ \A p \in Requests \ {q} : request'[p] = request[p]
        /\ \A p \in Requests : request[p] # Quiet => request[p].by # Screen
        /\ unit.access = None /\ UNCHANGED <<call, unit>>
    BY <1>6, <1>t DEF StartEnrolment, Request
  <2>2. \A p \in Requests : CallerAgrees(p)'
    BY <1>p, <2>1 DEF CallerAgrees
  <2>3. \A p, r \in Requests : AlikeAgree(p, r)'
    BY <1>p, <2>1 DEF AlikeAgree
  <2> QED
    BY <1>p, <1>q, <2>1, <2>2, <2>3
<1>7. ASSUME NEW k \in Calls, StartCall(k) \/ Guard(k)
      PROVE  RotationsAgree'
  <2>1. /\ call[k].pc \notin Rotation /\ call'[k].pc \notin Rotation
        /\ \A j \in Calls \ {k} : call'[j] = call[j]
        /\ UNCHANGED <<request, unit>>
    BY <1>7, CallHolds DEF StartCall, Guard, Calling, Rotation, Quiet, IdentityTypeOK
  <2>2. \A p \in Requests : CallerAgrees(p)'
    BY <1>p, <2>1 DEF CallerAgrees, Rotation
  <2>3. \A p, r \in Requests : AlikeAgree(p, r)'
    BY <1>p, <2>1 DEF AlikeAgree
  <2> QED
    BY <1>p, <1>q, <2>1, <2>2, <2>3
<1>8. ASSUME NEW q \in Requests, NEW k \in Calls, Refresh(k, q)
      PROVE  RotationsAgree'
  <2>1. /\ call[k].pc = "denied" /\ request[q] = Quiet
        /\ \A j \in Calls : call[j].pc \notin Rotation
        /\ \A j \in Calls \ {k} : call'[j] = call[j]
        /\ UNCHANGED unit
    BY <1>8, <1>t DEF Refresh, Rotating, Spare, Calling
  <2>2. \A p \in Requests : request[p] # Quiet => request[p].by # k
    BY <1>p, <2>1 DEF CallerAgrees
  <2>3. CASE unit.refresh = None \/ unit.access \notin {None, call[k].token}
    <3>1. call'[k].pc = "idle" /\ UNCHANGED request
      BY <1>8, <1>t, <2>3 DEF Refresh, Calling, Quiet
    <3>2. \A p \in Requests : CallerAgrees(p)'
      BY <1>p, <2>1, <2>2, <3>1 DEF CallerAgrees
    <3>3. \A p, r \in Requests : AlikeAgree(p, r)'
      BY <1>p, <3>1 DEF AlikeAgree
    <3> QED
      BY <1>p, <1>q, <2>1, <3>1, <3>2, <3>3 DEF Rotation
  <2>4. CASE ~(unit.refresh = None \/ unit.access \notin {None, call[k].token})
    <3>1. /\ request'[q] = [pc |-> "read", by |-> k, cred |-> unit.refresh]
          /\ \A p \in Requests \ {q} : request'[p] = request[p]
      BY <1>8, <1>t, <2>4 DEF Refresh, Request
    <3>2. call'[k].pc = "refreshing"
      <4>1. call[k] \in [pc : {"sent", "denied", "refreshing"}, token : Creds]
        BY <2>1, CallHolds
      <4> QED
        BY <1>8, <1>t, <2>4, <4>1 DEF Refresh, Calling
    <3>3. \A p \in Requests : CallerAgrees(p)'
      BY <1>p, <2>1, <2>2, <3>1, <3>2 DEF CallerAgrees, Screen
    <3>4. \A p, r \in Requests : AlikeAgree(p, r)'
      BY <1>p, <2>2, <3>1 DEF AlikeAgree
    <3> QED
      BY <1>p, <1>q, <2>1, <2>4, <3>2, <3>3, <3>4
  <2> QED
    BY <2>3, <2>4
<1>9. ASSUME NEW q \in Requests, NEW k \in Calls, Refused(k, q) \/ StoreAccess(k, q)
      PROVE  RotationsAgree'
  <2>1. /\ request[q] # Quiet /\ request[q].by = k
        /\ request[q] \in [pc : {"answer"}, by : Askers, result : Creds \cup {None}]
        /\ request'[q] = Quiet /\ \A p \in Requests \ {q} : request'[p] = request[p]
    BY <1>9, <1>t, RequestCarries DEF Refused, StoreAccess, Request, Quiet
  <2>2. call[k].pc = "refreshing"
    BY <1>p, <2>1 DEF CallerAgrees
  <2>3. /\ \A j \in Calls \ {k} : call[j].pc \notin Rotation /\ call'[j] = call[j]
        /\ unit.refresh # None
    BY <1>9, <1>p, <1>t, <2>2 DEF Refused, StoreAccess, Calling, Rotation
  <2>4. \A p \in Requests \ {q} : request[p] # Quiet => request[p].by \notin Calls \cup {Screen}
    BY <1>p, <2>1, <2>2, <2>3 DEF CallerAgrees, AlikeAgree, Rotation
  <2>5. /\ unit'.access = None <=> unit'.refresh = None
        /\ call'[k].pc \in Rotation => unit'.refresh # None
    <3>1. CASE Refused(k, q)
      BY <3>1, <1>t DEF Refused, Stranger, Calling, Quiet, Rotation
    <3>2. CASE StoreAccess(k, q)
      BY <3>2, <1>t, <2>1, <2>3 DEF StoreAccess
    <3> QED
      BY <1>9, <3>1, <3>2
  <2>6. \A p \in Requests : CallerAgrees(p)'
    BY <2>1, <2>4 DEF CallerAgrees
  <2>7. \A p, r \in Requests : AlikeAgree(p, r)'
    BY <1>p, <2>1 DEF AlikeAgree
  <2>8. \A j, i \in Calls :
            call'[j].pc \in Rotation /\ call'[i].pc \in Rotation => j = i /\ unit'.refresh # None
    BY <2>3, <2>5
  <2> QED
    BY <1>q, <2>5, <2>6, <2>7, <2>8
<1>10. ASSUME NEW k \in Calls, StoreRefresh(k)
       PROVE  RotationsAgree'
  <2>1. /\ call[k].pc = "storing" /\ unit'.refresh \in Creds /\ unit'.access = unit.access
        /\ call'[k].pc = "idle" /\ \A j \in Calls \ {k} : call'[j] = call[j]
        /\ UNCHANGED request
    BY <1>10, <1>t, CallHolds DEF StoreRefresh, Calling, Quiet
  <2>2. \A j \in Calls \ {k} : call[j].pc \notin Rotation
    BY <1>p, <2>1 DEF Rotation
  <2>3. unit.refresh # None
    BY <1>p, <2>1 DEF Rotation
  <2>4. \A p \in Requests : CallerAgrees(p)'
    BY <1>p, <2>1, <2>2, <2>3 DEF CallerAgrees, Rotation
  <2>5. \A p, r \in Requests : AlikeAgree(p, r)'
    BY <1>p, <2>1 DEF AlikeAgree
  <2>6. \A j, i \in Calls :
            call'[j].pc \in Rotation /\ call'[i].pc \in Rotation => j = i /\ unit'.refresh # None
    BY <2>1, <2>2 DEF Rotation
  <2> QED
    BY <1>p, <1>q, <2>1, <2>3, <2>4, <2>5, <2>6
<1>11. CASE KillUnit
  <2>1. /\ \A p \in Requests : request'[p] # Quiet => request'[p].by = None
        /\ \A j \in Calls : call'[j].pc = "idle"
        /\ UNCHANGED unit
    <3>1. ASSUME NEW p \in Requests, request'[p] # Quiet
          PROVE  request'[p].by = None
      <4>1. request[p] # Quiet /\ request'[p] = [request[p] EXCEPT !.by = None]
        BY <1>11, <3>1 DEF KillUnit
      <4>2. request[p] \in Handling
        BY <4>1, RequestCarries
      <4> QED
        BY <4>1, <4>2 DEF Handling
    <3> QED
      BY <1>11, <3>1 DEF KillUnit, Quiet
  <2>2. \A p \in Requests : CallerAgrees(p)'
    BY <2>1 DEF CallerAgrees, None, Screen
  <2>3. \A p, r \in Requests : AlikeAgree(p, r)'
    BY <2>1 DEF AlikeAgree
  <2> QED
    BY <1>p, <1>q, <2>1, <2>2, <2>3 DEF Rotation
<1>12. CASE UNCHANGED <<request, call, unit>>
  BY <1>12, <1>p, <1>q DEF CallerAgrees, AlikeAgree
<1> QED
  BY <1>1, <1>2, <1>3, <1>4, <1>5, <1>6, <1>7, <1>8, <1>9, <1>10, <1>11, <1>12
     DEF IdentityNext, CreateTicket, TicketExpires, RevokeDevice, AccessExpires, CredExpires, identityVars

\* The credential a statement has made: in its own family, or in that of the request.
LEMMA Issued ==
    ASSUME IdentityInv, NEW q \in Requests, Issue(q)
    PROVE  /\ request[q].pc = "issue" /\ request[q].family \in Creds \cup {None}
           /\ \E c \in Creds :
                  /\ cred[c] = NoCred /\ cred'[c] \in CredRow
                  /\ cred'[c].family = IF request[q].family = None THEN c ELSE request[q].family
                  /\ ~cred'[c].used /\ ~cred'[c].revoked /\ ~cred'[c].aged
                  /\ \A d \in Creds \ {c} : cred'[d] = cred[d]
                  /\ request'[q].pc = "answer" /\ request'[q].result = c
                  /\ request'[q].by = request[q].by
<1> USE DEF IdentityInv
<1>1. request[q] \in [pc : {"issue"}, by : Askers, family : Creds \cup {None}]
  BY RequestCarries DEF Issue
<1>2. PICK c \in Creds :
          /\ cred[c] = NoCred
          /\ cred' = [cred EXCEPT ![c] =
                 [family |-> IF request[q].family = None THEN c ELSE request[q].family,
                  used |-> FALSE, revoked |-> FALSE, aged |-> FALSE]]
          /\ Request(q, [pc |-> "answer", by |-> request[q].by, result |-> c])
  BY DEF Issue, Fresh
<1>3. /\ cred'[c] = [family |-> IF request[q].family = None THEN c ELSE request[q].family,
                     used |-> FALSE, revoked |-> FALSE, aged |-> FALSE]
      /\ \A d \in Creds \ {c} : cred'[d] = cred[d]
  BY <1>2 DEF IdentityTypeOK
<1>4. request'[q] = [pc |-> "answer", by |-> request[q].by, result |-> c]
  BY <1>2 DEF Request, IdentityTypeOK
<1>5. cred'[c] \in CredRow
  BY <1>1, <1>3 DEF CredRow
<1> QED
  BY <1>1, <1>2, <1>3, <1>4, <1>5

\* What a step may do to the credentials.
LEMMA CredMoves ==
    ASSUME [IdentityNext]_identityVars
    PROVE  \/ UNCHANGED cred \/ RevokeDevice
           \/ \E q \in Requests : Issue(q) \/ RevokeFamily(q) \/ UseCred(q)
           \/ \E c \in Creds : CredExpires(c)
BY DEF IdentityNext, identityVars, CreateTicket, TicketExpires, CheckTicket, Enrol, ReadCred,
       EndEnrolment, GiveUp, DropAnswer, LoseRequest, GatewayAnswers, StartEnrolment, Refresh,
       Refused, StoreAccess, StartCall, Guard, StoreRefresh, KillUnit, AccessExpires

\* Credentials are never erased; their families stay, and what is used or revoked is for
\* ever.
LEMMA CredsGrow ==
    ASSUME IdentityInv, [IdentityNext]_identityVars, NEW c \in Creds, cred[c] # NoCred
    PROVE  /\ cred'[c] # NoCred /\ cred'[c].family = cred[c].family
           /\ cred[c].used => cred'[c].used
           /\ cred[c].revoked => cred'[c].revoked
           /\ cred[c].family \in Creds /\ cred[c].family # None
<1> USE IdentityAssumption DEF IdentityInv
<1>t. cred \in [Creds -> {NoCred} \cup CredRow]
  BY DEF IdentityTypeOK
<1>0. cred[c] \in CredRow /\ cred[c].family \in Creds
  BY <1>t DEF CredRow
<1>n. \A r \in CredRow : r # NoCred
  BY DEF CredRow, NoCred
<1>1. ASSUME NEW q \in Requests, Issue(q)
      PROVE  cred'[c] = cred[c]
  BY <1>1, Issued
<1>2. ASSUME cred'[c] \in {cred[c], [cred[c] EXCEPT !.used = TRUE], [cred[c] EXCEPT !.revoked = TRUE],
                           [cred[c] EXCEPT !.aged = TRUE]}
      PROVE  /\ cred'[c] # NoCred /\ cred'[c].family = cred[c].family
             /\ cred[c].used => cred'[c].used
             /\ cred[c].revoked => cred'[c].revoked
  <2>1. cred'[c] \in CredRow
    BY <1>0, <1>2 DEF CredRow
  <2> QED
    BY <1>0, <1>2, <1>n, <2>1 DEF CredRow
<1>3. ASSUME RevokeDevice
      PROVE  cred'[c] \in {cred[c], [cred[c] EXCEPT !.revoked = TRUE]}
  BY <1>3 DEF RevokeDevice
<1>4. ASSUME NEW q \in Requests, RevokeFamily(q)
      PROVE  cred'[c] \in {cred[c], [cred[c] EXCEPT !.revoked = TRUE]}
  BY <1>4 DEF RevokeFamily
<1>5. ASSUME NEW q \in Requests, UseCred(q)
      PROVE  cred'[c] \in {cred[c], [cred[c] EXCEPT !.used = TRUE]}
  BY <1>5, <1>t DEF UseCred
<1>6. ASSUME NEW d \in Creds, CredExpires(d)
      PROVE  cred'[c] \in {cred[c], [cred[c] EXCEPT !.aged = TRUE]}
  BY <1>6, <1>t DEF CredExpires
<1> QED
  BY <1>0, <1>1, <1>2, <1>3, <1>4, <1>5, <1>6, CredMoves

\* A request that keeps its place keeps its family.
LEMMA FamilyKept ==
    ASSUME IdentityInv, [IdentityNext]_identityVars, NEW q \in Requests,
           \/ request'[q] = request[q]
           \/ request[q] # Quiet /\ request'[q] = [request[q] EXCEPT !.by = None]
    PROVE  FamilyOf(q)' = FamilyOf(q)
<1> USE DEF IdentityInv
<1>1. request'[q].pc = request[q].pc
  BY RequestCarries DEF Handling
<1>2. CASE request[q].pc \in {"read", "revoke", "use"}
  <2>1. request[q] \in [pc : {"read", "revoke", "use"}, by : Askers, cred : Creds]
    BY <1>2, RequestCarries
  <2>2. request'[q].cred = request[q].cred /\ cred[request[q].cred] # NoCred
    BY <1>2, <2>1 DEF CredsAgree
  <2> QED
    BY <1>1, <1>2, <2>1, <2>2, CredsGrow DEF FamilyOf
<1>3. CASE request[q].pc = "issue"
  <2>1. request[q] \in [pc : {"issue"}, by : Askers, family : Creds \cup {None}]
    BY <1>3, RequestCarries
  <2>2. request'[q].family = request[q].family
    BY <2>1
  <2> QED
    BY <1>1, <1>3, <2>2 DEF FamilyOf
<1>4. CASE request[q].pc = "answer"
  <2>1. request[q] \in [pc : {"answer"}, by : Askers, result : Creds \cup {None}]
    BY <1>4, RequestCarries
  <2>2. /\ request'[q].result = request[q].result
        /\ request[q].result # None => cred[request[q].result] # NoCred
    BY <1>4, <2>1 DEF CredsAgree
  <2> QED
    BY <1>1, <1>4, <2>1, <2>2, CredsGrow DEF FamilyOf
<1>5. CASE request[q].pc \notin {"read", "revoke", "use", "issue", "answer"}
  BY <1>1, <1>5 DEF FamilyOf
<1> QED
  BY <1>2, <1>3, <1>4, <1>5

\* A step moves one request, unless the process dies,
LEMMA OneRequestMoves ==
    ASSUME IdentityInv, [IdentityNext]_identityVars, NEW q \in Requests
    PROVE  \/ request'[q] = request[q] \/ KillUnit
           \/ CheckTicket(q) \/ Enrol(q) \/ GatewayAnswers(q) \/ ReadCred(q) \/ RevokeFamily(q)
           \/ UseCred(q) \/ Issue(q) \/ EndEnrolment(q) \/ DropAnswer(q) \/ LoseRequest(q) \/ GiveUp(q)
           \/ \E t \in Tickets : StartEnrolment(t, q)
           \/ \E k \in Calls : Refresh(k, q) \/ Refused(k, q) \/ StoreAccess(k, q)
<1> USE DEF IdentityInv
<1>t. request \in [Requests -> {Quiet} \cup Handling]
  BY DEF IdentityTypeOK
<1>1. ASSUME NEW p \in Requests, p # q,
             \/ CheckTicket(p) \/ Enrol(p) \/ GatewayAnswers(p) \/ ReadCred(p) \/ RevokeFamily(p)
             \/ UseCred(p) \/ Issue(p) \/ EndEnrolment(p) \/ DropAnswer(p) \/ LoseRequest(p) \/ GiveUp(p)
             \/ \E t \in Tickets : StartEnrolment(t, p)
             \/ \E k \in Calls : Refresh(k, p) \/ Refused(k, p) \/ StoreAccess(k, p)
      PROVE  request'[q] = request[q]
  BY <1>1, <1>t DEF CheckTicket, Enrol, GatewayAnswers, ReadCred, RevokeFamily, UseCred, Issue,
                    EndEnrolment, DropAnswer, LoseRequest, GiveUp, StartEnrolment, Refresh, Refused,
                    StoreAccess, Request
<1>2. ASSUME \/ UNCHANGED identityVars \/ RevokeDevice
             \/ \E t \in Tickets : CreateTicket(t) \/ TicketExpires(t)
             \/ \E k \in Calls : StartCall(k) \/ Guard(k) \/ StoreRefresh(k)
             \/ \E c \in Creds : AccessExpires(c) \/ CredExpires(c)
      PROVE  request'[q] = request[q]
  BY <1>2 DEF identityVars, RevokeDevice, CreateTicket, TicketExpires, StartCall, Guard, StoreRefresh,
              AccessExpires, CredExpires
<1> QED
  BY <1>1, <1>2 DEF IdentityNext

\* the tokens of the phone change with an answer,
LEMMA UnitMoves ==
    ASSUME [IdentityNext]_identityVars
    PROVE  \/ UNCHANGED unit
           \/ \E q \in Requests : EndEnrolment(q)
           \/ \E k \in Calls : StoreRefresh(k) \/ \E q \in Requests : Refused(k, q) \/ StoreAccess(k, q)
BY DEF IdentityNext, identityVars, CreateTicket, TicketExpires, CheckTicket, Enrol, ReadCred, GiveUp,
       DropAnswer, LoseRequest, GatewayAnswers, StartEnrolment, Refresh, RevokeDevice, Issue, StartCall,
       Guard, KillUnit, AccessExpires, CredExpires, RevokeFamily, UseCred

\* and a call is storing tokens once it has got them.
LEMMA OneCallMoves ==
    ASSUME IdentityInv, [IdentityNext]_identityVars, NEW k \in Calls, call'[k].pc = "storing"
    PROVE  call'[k] = call[k] \/ \E q \in Requests : StoreAccess(k, q)
<1> USE DEF IdentityInv
<1>t. call \in [Calls -> {Quiet} \cup [pc : {"sent", "denied", "refreshing"}, token : Creds]
                    \cup [pc : {"storing"}, token : Creds, fresh : Creds]]
  BY DEF IdentityTypeOK
<1>1. ASSUME NEW j \in Calls,
             \/ StartCall(j) \/ Guard(j) \/ StoreRefresh(j)
             \/ \E q \in Requests : Refresh(j, q) \/ Refused(j, q) \/ StoreAccess(j, q)
      PROVE  j # k => call'[k] = call[k]
  BY <1>1, <1>t DEF StartCall, Guard, StoreRefresh, Refresh, Refused, StoreAccess, Calling
<1>2. ASSUME \/ StartCall(k) \/ Guard(k) \/ StoreRefresh(k)
             \/ \E q \in Requests : Refresh(k, q) \/ Refused(k, q)
      PROVE  FALSE
  <2>1. call'[k].pc \in {"sent", "idle", "denied", "refreshing"}
    BY <1>2, <1>t, CallHolds DEF StartCall, Guard, StoreRefresh, Refresh, Refused, Calling, Quiet
  <2> QED
    BY <2>1
<1>3. ASSUME NEW q \in Requests, GiveUp(q) \/ LoseRequest(q)
      PROVE  call'[k] = call[k]
  <2>1. \/ UNCHANGED call
        \/ \E j \in Calls : Calling(j, Quiet)
    BY <1>3 DEF GiveUp, LoseRequest
  <2> QED
    BY <1>t, <2>1 DEF Calling, Quiet
<1>4. ASSUME KillUnit
      PROVE  FALSE
  BY <1>4 DEF KillUnit, Quiet
<1>5. \/ UNCHANGED call \/ KillUnit
      \/ \E q \in Requests : GiveUp(q) \/ LoseRequest(q)
      \/ \E j \in Calls : \/ StartCall(j) \/ Guard(j) \/ StoreRefresh(j)
                          \/ \E q \in Requests : Refresh(j, q) \/ Refused(j, q) \/ StoreAccess(j, q)
  BY DEF IdentityNext, identityVars, CreateTicket, TicketExpires, CheckTicket, Enrol, ReadCred,
         RevokeDevice, RevokeFamily, UseCred, Issue, EndEnrolment, DropAnswer, GatewayAnswers,
         StartEnrolment, AccessExpires, CredExpires
<1> QED
  BY <1>1, <1>2, <1>3, <1>4, <1>5

\* What a request is about from one statement to the next: the same family, or none any
\* more; a rotation begins in the family of the phone, and an enrolment founds a new one.
LEMMA FamiliesDescend ==
    ASSUME IdentityInv, [IdentityNext]_identityVars, NEW q \in Requests
    PROVE  \/ FamilyOf(q)' \in {FamilyOf(q), None}
           \/ /\ request[q] = Quiet /\ request'[q].by \in Calls /\ request'[q].pc = "read"
              /\ unit.refresh # None /\ FamilyOf(q)' = OwnFamily
           \/ /\ request[q].pc = "issue" /\ request[q].family = None
              /\ request'[q].pc = "answer" /\ request'[q].by = request[q].by
              /\ FamilyOf(q)' = request'[q].result /\ FamilyOf(q)' \in Creds
              /\ cred[FamilyOf(q)'] = NoCred /\ cred'[FamilyOf(q)'].family = FamilyOf(q)'
              /\ \A d \in Creds : cred'[d].family = FamilyOf(q)' => d = FamilyOf(q)'
              /\ ~cred'[FamilyOf(q)'].used /\ ~cred'[FamilyOf(q)'].aged
<1> USE IdentityAssumption DEF IdentityInv
<1>t. request \in [Requests -> {Quiet} \cup Handling] /\ cred \in [Creds -> {NoCred} \cup CredRow]
  BY DEF IdentityTypeOK
<1>n. \A p \in Requests : request'[p] = Quiet => FamilyOf(p)' = None
  BY DEF FamilyOf, Quiet
<1>k. ASSUME request'[q] = request[q]
      PROVE  FamilyOf(q)' = FamilyOf(q)
  BY <1>k, FamilyKept
<1>1. ASSUME CheckTicket(q) \/ Enrol(q) \/ GatewayAnswers(q)
      PROVE  FamilyOf(q)' = None
  <2>1. \/ request'[q].pc = "enrol"
        \/ request'[q].pc = "issue" /\ request'[q].family = None
        \/ request'[q].pc = "answer" /\ request'[q].result = None
    BY <1>1, <1>t, RequestCarries DEF CheckTicket, Enrol, GatewayAnswers, Request
  <2> QED
    BY <2>1 DEF FamilyOf
<1>2. ASSUME ReadCred(q) \/ RevokeFamily(q) \/ UseCred(q)
      PROVE  FamilyOf(q)' \in {FamilyOf(q), None}
  <2>1. /\ request[q] \in [pc : {"read", "revoke", "use"}, by : Askers, cred : Creds]
        /\ request[q].pc \in {"read", "revoke", "use"}
    BY <1>2, RequestCarries DEF ReadCred, RevokeFamily, UseCred
  <2>2. cred[request[q].cred] # NoCred /\ FamilyOf(q) = cred[request[q].cred].family
    BY <2>1 DEF CredsAgree, FamilyOf
  <2>3. cred'[request[q].cred].family = cred[request[q].cred].family
    BY <2>1, <2>2, CredsGrow
  <2>4. \/ request'[q].pc \in {"revoke", "use"} /\ request'[q].cred = request[q].cred
        \/ request'[q].pc = "issue" /\ request'[q].family = cred[request[q].cred].family
        \/ request'[q].pc = "answer" /\ request'[q].result = None
    BY <1>2, <1>t, <2>1 DEF ReadCred, RevokeFamily, UseCred, Request
  <2> QED
    BY <2>2, <2>3, <2>4 DEF FamilyOf
<1>3. ASSUME Issue(q), request[q].family # None
      PROVE  FamilyOf(q)' = FamilyOf(q)
  BY <1>3, Issued DEF FamilyOf
<1>4. ASSUME Issue(q), request[q].family = None
      PROVE  /\ request[q].pc = "issue"
             /\ request'[q].pc = "answer" /\ request'[q].by = request[q].by
             /\ FamilyOf(q)' = request'[q].result /\ FamilyOf(q)' \in Creds
             /\ cred[FamilyOf(q)'] = NoCred /\ cred'[FamilyOf(q)'].family = FamilyOf(q)'
             /\ \A d \in Creds : cred'[d].family = FamilyOf(q)' => d = FamilyOf(q)'
             /\ ~cred'[FamilyOf(q)'].used /\ ~cred'[FamilyOf(q)'].aged
  <2>1. PICK c \in Creds :
            /\ cred[c] = NoCred /\ cred'[c] \in CredRow /\ cred'[c].family = c
            /\ ~cred'[c].used /\ ~cred'[c].revoked /\ ~cred'[c].aged
            /\ \A d \in Creds \ {c} : cred'[d] = cred[d]
            /\ request[q].pc = "issue" /\ request'[q].pc = "answer" /\ request'[q].result = c
            /\ request'[q].by = request[q].by
    BY <1>4, Issued
  <2>2. c # None
    OBVIOUS
  <2>3. FamilyOf(q)' = c
    BY <2>1, <2>2 DEF FamilyOf
  <2>4. \A d \in Creds \ {c} : cred[d].family # c
    BY <2>1, <2>2 DEF CredsAgree, NoCred
  <2>5. \A d \in Creds : cred'[d].family = c => d = c
    BY <2>1, <2>4
  <2> HIDE DEF FamilyOf
  <2> QED
    BY <2>1, <2>3, <2>5
<1>5. ASSUME NEW k \in Calls, Refresh(k, q)
      PROVE  \/ request'[q] = request[q]
             \/ /\ request[q] = Quiet /\ request'[q].by \in Calls /\ request'[q].pc = "read"
                /\ unit.refresh # None /\ FamilyOf(q)' = OwnFamily
  BY <1>5, <1>t DEF Refresh, Spare, Request, FamilyOf, OwnFamily
<1>6. ASSUME NEW t \in Tickets, StartEnrolment(t, q)
      PROVE  FamilyOf(q)' = None
  BY <1>6, <1>t DEF StartEnrolment, Request, FamilyOf
<1>7. ASSUME EndEnrolment(q) \/ DropAnswer(q) \/ LoseRequest(q)
             \/ \E k \in Calls : Refused(k, q) \/ StoreAccess(k, q)
      PROVE  request'[q] = Quiet
  BY <1>7, <1>t DEF EndEnrolment, DropAnswer, LoseRequest, Refused, StoreAccess, Request
<1>8. ASSUME GiveUp(q)
      PROVE  FamilyOf(q)' = FamilyOf(q)
  BY <1>8, <1>t, FamilyKept DEF GiveUp, Request
<1>9. ASSUME KillUnit
      PROVE  FamilyOf(q)' = FamilyOf(q)
  BY <1>9, <1>t, FamilyKept DEF KillUnit
<1>10. ASSUME \/ CheckTicket(q) \/ Enrol(q) \/ GatewayAnswers(q) \/ ReadCred(q) \/ RevokeFamily(q)
              \/ UseCred(q) \/ Issue(q) \/ EndEnrolment(q) \/ DropAnswer(q) \/ LoseRequest(q) \/ GiveUp(q)
              \/ \E t \in Tickets : StartEnrolment(t, q)
              \/ \E k \in Calls : Refresh(k, q) \/ Refused(k, q) \/ StoreAccess(k, q)
       PROVE  \/ FamilyOf(q)' \in {FamilyOf(q), None}
              \/ /\ request[q] = Quiet /\ request'[q].by \in Calls /\ request'[q].pc = "read"
                 /\ unit.refresh # None /\ FamilyOf(q)' = OwnFamily
              \/ Issue(q) /\ request[q].family = None
  BY <1>10, <1>1, <1>2, <1>3, <1>5, <1>6, <1>7, <1>8, <1>n, <1>k
<1> QED
  BY <1>4, <1>9, <1>10, <1>k, OneRequestMoves

\* A credential comes into being by being issued only,
LEMMA NotIssued ==
    ASSUME IdentityInv, [IdentityNext]_identityVars, \A q \in Requests : ~Issue(q),
           NEW c \in Creds, cred[c] = NoCred
    PROVE  cred'[c] = cred[c]
<1> USE IdentityAssumption DEF IdentityInv
<1>t. cred \in [Creds -> {NoCred} \cup CredRow]
  BY DEF IdentityTypeOK
<1>n. NoCred.family = None
  BY DEF NoCred
<1>1. ASSUME RevokeDevice
      PROVE  cred'[c] = cred[c]
  BY <1>1 DEF RevokeDevice
<1>2. ASSUME NEW q \in Requests, RevokeFamily(q)
      PROVE  cred'[c] = cred[c]
  <2>1. /\ request[q] \in [pc : {"read", "revoke", "use"}, by : Askers, cred : Creds]
        /\ cred[request[q].cred] # NoCred
    BY <1>2, RequestCarries DEF RevokeFamily, CredsAgree
  <2>2. c \notin InFamily(cred[request[q].cred].family)
    BY <1>n, <2>1, CredsGrow DEF InFamily
  <2> QED
    BY <1>2, <2>2 DEF RevokeFamily
<1>3. ASSUME NEW q \in Requests, UseCred(q)
      PROVE  cred'[c] = cred[c]
  <2>1. /\ request[q] \in [pc : {"read", "revoke", "use"}, by : Askers, cred : Creds]
        /\ cred[request[q].cred] # NoCred
    BY <1>3, RequestCarries DEF UseCred, CredsAgree
  <2> QED
    BY <1>t, <1>3, <2>1 DEF UseCred
<1>4. ASSUME NEW d \in Creds, CredExpires(d)
      PROVE  cred'[c] = cred[c]
  <2>1. cred[d] # NoCred
    BY <1>4 DEF CredExpires, CredsAgree
  <2> QED
    BY <1>t, <1>4, <2>1 DEF CredExpires
<1> QED
  BY <1>1, <1>2, <1>3, <1>4, CredMoves

\* and each flag of a credential is set by one operation.
LEMMA FlagsMove ==
    ASSUME IdentityInv, [IdentityNext]_identityVars, NEW c \in Creds, cred[c] # NoCred
    PROVE  /\ cred'[c].used /\ ~cred[c].used =>
                  \E q \in Requests : UseCred(q) /\ request[q].cred = c
           /\ cred'[c].aged /\ ~cred[c].aged => CredExpires(c)
           /\ cred'[c].revoked /\ ~cred[c].revoked =>
                  \/ RevokeDevice
                  \/ \E q \in Requests : RevokeFamily(q) /\ FamilyOf(q) = cred[c].family
<1> USE IdentityAssumption DEF IdentityInv
<1>t. cred \in [Creds -> {NoCred} \cup CredRow]
  BY DEF IdentityTypeOK
<1>0. cred[c] \in CredRow
  BY <1>t
<1>1. ASSUME RevokeDevice
      PROVE  cred'[c].used = cred[c].used /\ cred'[c].aged = cred[c].aged
  BY <1>0, <1>1 DEF RevokeDevice, CredRow
<1>2. ASSUME NEW q \in Requests, Issue(q)
      PROVE  cred'[c] = cred[c]
  BY <1>2, Issued
<1>3. ASSUME NEW q \in Requests, RevokeFamily(q)
      PROVE  /\ cred'[c].used = cred[c].used /\ cred'[c].aged = cred[c].aged
             /\ FamilyOf(q) # cred[c].family => cred'[c] = cred[c]
  <2>1. FamilyOf(q) = cred[request[q].cred].family
    BY <1>3 DEF RevokeFamily, FamilyOf
  <2>2. cred'[c] = IF c \in InFamily(cred[request[q].cred].family)
                   THEN [cred[c] EXCEPT !.revoked = TRUE] ELSE cred[c]
    BY <1>3 DEF RevokeFamily
  <2>3. c \in InFamily(cred[request[q].cred].family) => cred[c].family = FamilyOf(q)
    BY <2>1 DEF InFamily
  <2> QED
    BY <1>0, <2>2, <2>3 DEF CredRow
<1>4. ASSUME NEW q \in Requests, UseCred(q)
      PROVE  /\ cred'[c].revoked = cred[c].revoked /\ cred'[c].aged = cred[c].aged
             /\ request[q].cred # c => cred'[c] = cred[c]
  BY <1>0, <1>t, <1>4 DEF UseCred, CredRow
<1>5. ASSUME NEW d \in Creds, CredExpires(d)
      PROVE  /\ cred'[c].revoked = cred[c].revoked /\ cred'[c].used = cred[c].used
             /\ d # c => cred'[c] = cred[c]
  BY <1>0, <1>t, <1>5 DEF CredExpires, CredRow
<1> QED
  BY <1>1, <1>2, <1>3, <1>4, <1>5, CredMoves

\* What is carried exists, each credential in the family of one.
LEMMA CredsStay ==
    ASSUME IdentityInv, [IdentityNext]_identityVars, IdentityTypeOK'
    PROVE  CredsAgree'
<1> USE IdentityAssumption DEF IdentityInv
<1>t. /\ cred \in [Creds -> {NoCred} \cup CredRow] /\ cred' \in [Creds -> {NoCred} \cup CredRow]
      /\ request \in [Requests -> {Quiet} \cup Handling]
      /\ unit \in [access : Creds \cup {None}, refresh : Creds \cup {None}]
      /\ DOMAIN call = Calls
  BY DEF IdentityTypeOK
<1>n. NoCred.family = None /\ \A c \in Creds : cred[c].family # None => cred[c] # NoCred
  BY DEF NoCred
<1>1. ASSUME NEW c \in Creds, cred'[c] # NoCred
      PROVE  cred'[cred'[c].family].family = cred'[c].family
  <2>1. ASSUME NEW f \in Creds, cred[f].family = f
        PROVE  cred'[f].family = f
    BY <1>n, <2>1, CredsGrow
  <2>2. CASE cred[c] # NoCred
    BY <2>1, <2>2, CredsGrow DEF CredsAgree
  <2>3. CASE cred[c] = NoCred
    <3>1. PICK q \in Requests : Issue(q)
      BY <1>1, <2>3, NotIssued
    <3>2. \/ cred'[c].family = c
          \/ cred'[c].family = request[q].family /\ request[q].family \in Creds
             /\ request[q].family # None /\ request[q].pc = "issue"
      BY <1>1, <2>3, <3>1, Issued
    <3>3. CASE cred'[c].family = c
      BY <3>3
    <3>4. CASE /\ cred'[c].family = request[q].family /\ request[q].family \in Creds
               /\ request[q].family # None /\ request[q].pc = "issue"
      <4>1. FamilyOf(q) = request[q].family
        BY <3>4 DEF FamilyOf
      <4>2. cred[request[q].family].family = request[q].family
        BY <3>4, <4>1 DEF CredsAgree
      <4> QED
        BY <2>1, <3>4, <4>2
    <3> QED
      BY <3>2, <3>3, <3>4
  <2> QED
    BY <2>2, <2>3
<1>2. ASSUME NEW q \in Requests, FamilyOf(q)' # None
      PROVE  cred'[FamilyOf(q)'].family = FamilyOf(q)'
  <2>1. FamilyOf(q) \in Creds \cup {None}
    <3>1. \A c \in Creds : cred[c].family \in Creds \cup {None}
      BY <1>t DEF CredRow, NoCred
    <3> QED
      BY <3>1, RequestCarries DEF FamilyOf
  <2>2. ASSUME NEW f \in Creds, cred[f].family = f
        PROVE  cred'[f].family = f
    BY <1>n, <2>2, CredsGrow
  <2>3. CASE FamilyOf(q)' = FamilyOf(q)
    BY <1>2, <2>1, <2>2, <2>3 DEF CredsAgree
  <2>4. CASE FamilyOf(q)' = OwnFamily /\ unit.refresh # None
    <3>1. unit.refresh \in Creds /\ cred[unit.refresh] # NoCred
      BY <1>t, <2>4 DEF CredsAgree
    <3>2. OwnFamily \in Creds /\ cred[OwnFamily].family = OwnFamily
      BY <3>1, CredsGrow DEF CredsAgree, OwnFamily
    <3> QED
      BY <2>2, <2>4, <3>2
  <2>5. CASE cred'[FamilyOf(q)'].family = FamilyOf(q)'
    BY <2>5
  <2> QED
    BY <1>2, <2>3, <2>4, <2>5, FamiliesDescend
<1>3. ASSUME NEW q \in Requests
      PROVE  /\ request'[q].pc \in {"read", "revoke", "use"} => cred'[request'[q].cred] # NoCred
             /\ request'[q].pc = "answer" /\ request'[q].result # None =>
                    cred'[request'[q].result] # NoCred
  <2>1. /\ request'[q].pc \in {"read", "revoke", "use"} => request'[q].cred \in Creds
        /\ request'[q].pc = "answer" /\ request'[q].result # None => request'[q].result \in Creds
    <3>1. request'[q] \in {Quiet} \cup Handling
      BY DEF IdentityTypeOK
    <3> QED
      BY <3>1 DEF Handling, Quiet
  <2>2. /\ request'[q].pc \in {"read", "revoke", "use"} => FamilyOf(q)' = cred'[request'[q].cred].family
        /\ request'[q].pc = "answer" /\ request'[q].result # None =>
               FamilyOf(q)' = cred'[request'[q].result].family
    BY DEF FamilyOf
  <2>3. ASSUME NEW p \in Requests, \/ CheckTicket(p) \/ Enrol(p) \/ GatewayAnswers(p)
        PROVE  p = q => request'[q].pc \in {"enrol", "issue", "answer"}
                        /\ (request'[q].pc = "answer" => request'[q].result = None)
    BY <1>t, <2>3, RequestCarries DEF CheckTicket, Enrol, GatewayAnswers, Request
  <2>4. ASSUME ReadCred(q) \/ RevokeFamily(q) \/ UseCred(q)
        PROVE  \/ request'[q].pc \in {"revoke", "use"} /\ request'[q].cred = request[q].cred
                  /\ request[q].cred \in Creds /\ cred[request[q].cred] # NoCred
               \/ request'[q].pc = "issue"
               \/ request'[q].pc = "answer" /\ request'[q].result = None
    <3>1. /\ request[q] \in [pc : {"read", "revoke", "use"}, by : Askers, cred : Creds]
          /\ request[q].pc \in {"read", "revoke", "use"}
      BY <2>4, RequestCarries DEF ReadCred, RevokeFamily, UseCred
    <3> QED
      BY <1>t, <2>4, <3>1 DEF ReadCred, RevokeFamily, UseCred, Request, CredsAgree
  <2>5. ASSUME Issue(q)
        PROVE  request'[q].pc = "answer" /\ cred'[request'[q].result] # NoCred
    <3>1. \A r \in CredRow : r # NoCred
      BY DEF CredRow, NoCred
    <3> QED
      BY <2>5, <3>1, Issued
  <2>6. ASSUME NEW k \in Calls, Refresh(k, q)
        PROVE  \/ request'[q] = request[q]
               \/ request'[q].pc = "read" /\ request'[q].cred = unit.refresh /\ unit.refresh # None
    BY <1>t, <2>6 DEF Refresh, Request
  <2>7. ASSUME \/ request'[q] = request[q]
               \/ request[q] # Quiet /\ request'[q] = [request[q] EXCEPT !.by = None]
        PROVE  /\ request'[q].pc \in {"read", "revoke", "use"} => cred'[request'[q].cred] # NoCred
               /\ request'[q].pc = "answer" /\ request'[q].result # None =>
                      cred'[request'[q].result] # NoCred
    <3>1. /\ request'[q].pc = request[q].pc
          /\ request[q].pc \in {"read", "revoke", "use"} =>
                 request'[q].cred = request[q].cred /\ request[q].cred \in Creds
          /\ request[q].pc = "answer" => request'[q].result = request[q].result
                                         /\ request[q].result \in Creds \cup {None}
      BY <2>7, RequestCarries DEF Handling
    <3> QED
      BY <3>1, CredsGrow DEF CredsAgree
  <2>8. ASSUME \/ EndEnrolment(q) \/ DropAnswer(q) \/ LoseRequest(q)
               \/ \E k \in Calls : Refused(k, q) \/ StoreAccess(k, q)
        PROVE  request'[q].pc = "idle"
    <3>1. Request(q, Quiet)
      BY <2>8 DEF EndEnrolment, DropAnswer, LoseRequest, Refused, StoreAccess
    <3> QED
      BY <1>t, <3>1 DEF Request, Quiet
  <2>9. ASSUME NEW t \in Tickets, StartEnrolment(t, q)
        PROVE  request'[q].pc = "check"
    BY <1>t, <2>9 DEF StartEnrolment, Request
  <2>10. GiveUp(q) \/ KillUnit =>
             request'[q] = request[q]
             \/ (request[q] # Quiet /\ request'[q] = [request[q] EXCEPT !.by = None])
    BY <1>t DEF GiveUp, KillUnit, Request
  <2>11. unit.refresh # None => unit.refresh \in Creds /\ cred'[unit.refresh] # NoCred
    BY <1>t, CredsGrow DEF CredsAgree
  <2>12. \/ request'[q] = request[q] \/ KillUnit
         \/ CheckTicket(q) \/ Enrol(q) \/ GatewayAnswers(q) \/ ReadCred(q) \/ RevokeFamily(q)
         \/ UseCred(q) \/ Issue(q) \/ EndEnrolment(q) \/ DropAnswer(q) \/ LoseRequest(q) \/ GiveUp(q)
         \/ \E t \in Tickets : StartEnrolment(t, q)
         \/ \E k \in Calls : Refresh(k, q) \/ Refused(k, q) \/ StoreAccess(k, q)
    BY OneRequestMoves
  <2> QED
    BY <2>3, <2>4, <2>5, <2>6, <2>7, <2>8, <2>9, <2>10, <2>11, <2>12, CredsGrow
<1>4. unit'.refresh # None => cred'[unit'.refresh] # NoCred
  <2>1. ASSUME NEW q \in Requests, EndEnrolment(q)
        PROVE  unit'.refresh \in {unit.refresh, request[q].result} /\ cred' = cred
               /\ (unit'.refresh # unit.refresh => unit'.refresh # None /\ request[q].pc = "answer")
    BY <1>t, <2>1, RequestCarries DEF EndEnrolment
  <2>2. ASSUME NEW k \in Calls, StoreRefresh(k)
        PROVE  unit'.refresh = call[k].fresh /\ cred' = cred /\ cred[call[k].fresh] # NoCred
    BY <1>t, <2>2 DEF StoreRefresh, CredsAgree
  <2>3. \/ unit'.refresh \in {unit.refresh, None}
        \/ \E q \in Requests : EndEnrolment(q)
        \/ \E k \in Calls : StoreRefresh(k)
    <3>1. ASSUME NEW k \in Calls, NEW q \in Requests, Refused(k, q) \/ StoreAccess(k, q)
          PROVE  unit'.refresh \in {unit.refresh, None}
      BY <1>t, <3>1 DEF Refused, StoreAccess, Stranger
    <3> QED
      BY <3>1, UnitMoves
  <2>4. unit.refresh # None => unit.refresh \in Creds /\ cred'[unit.refresh] # NoCred
    BY <1>t, CredsGrow DEF CredsAgree
  <2> QED
    BY <2>1, <2>2, <2>3, <2>4 DEF CredsAgree
<1>5. ASSUME NEW k \in Calls, call'[k].pc = "storing"
      PROVE  cred'[call'[k].fresh] # NoCred
  <2>1. ASSUME NEW q \in Requests, StoreAccess(k, q)
        PROVE  cred'[call'[k].fresh] # NoCred
    <3>1. /\ call'[k].fresh = request[q].result /\ cred' = cred
          /\ request[q].pc = "answer" /\ request[q].result # None
      BY <1>t, <2>1 DEF StoreAccess, Calling
    <3> QED
      BY <3>1 DEF CredsAgree
  <2>2. CASE call'[k] = call[k]
    <3>1. call[k].fresh \in Creds /\ cred[call[k].fresh] # NoCred
      BY <1>5, <2>2, CallHolds DEF CredsAgree
    <3> QED
      BY <2>2, <3>1, CredsGrow
  <2>3. call'[k] = call[k] \/ \E q \in Requests : StoreAccess(k, q)
    BY <1>5, OneCallMoves
  <2> QED
    BY <2>1, <2>2, <2>3
<1> QED
  BY <1>1, <1>2, <1>3, <1>4, <1>5 DEF CredsAgree

\* The family of the phone stays, as long as it holds tokens; it gets tokens again by an
\* enrolment only.
LEMMA OwnStays ==
    ASSUME IdentityInv, [IdentityNext]_identityVars
    PROVE  /\ unit.refresh # None =>
                  /\ unit.refresh \in Creds /\ cred[unit.refresh] # NoCred
                  /\ OwnFamily \in Creds /\ OwnFamily # None /\ cred[OwnFamily] # NoCred
           /\ unit.refresh # None /\ unit'.refresh # None => OwnFamily' = OwnFamily
           /\ unit.refresh # None /\ unit'.refresh # None =>
                  unit'.refresh = unit.refresh \/ \E k \in Calls : StoreRefresh(k)
           /\ unit.refresh = None /\ unit'.refresh # None =>
                  \E p \in Requests :
                      /\ EndEnrolment(p) /\ request[p] # Quiet /\ request[p].pc = "answer"
                      /\ request[p].result = unit'.refresh /\ unit'.refresh \in Creds
           /\ (\A p \in Requests : EndEnrolment(p) => request[p].result = None) => excuse \subseteq excuse'
           /\ unit.refresh # None => excuse \subseteq excuse'
<1> USE IdentityAssumption DEF IdentityInv
<1>t. unit \in [access : Creds \cup {None}, refresh : Creds \cup {None}]
  BY DEF IdentityTypeOK
<1>1. unit.refresh # None =>
          /\ unit.refresh \in Creds /\ cred[unit.refresh] # NoCred
          /\ OwnFamily \in Creds /\ OwnFamily # None /\ cred[OwnFamily] # NoCred
  <2>1. NoCred.family = None
    BY DEF NoCred
  <2> QED
    BY <1>t, <2>1, CredsGrow DEF CredsAgree, OwnFamily
<1>2. ASSUME NEW p \in Requests, EndEnrolment(p)
      PROVE  /\ unit.refresh = None /\ request[p] # Quiet /\ request[p].pc = "answer"
             /\ request[p].result \in Creds \cup {None}
             /\ request[p].result # None => unit'.refresh = request[p].result
             /\ request[p].result = None => UNCHANGED <<unit, excuse>>
  <2>1. request[p] # Quiet
    BY <1>2 DEF EndEnrolment, Quiet
  <2> QED
    BY <1>2, <2>1, RequestCarries DEF EndEnrolment, RotationsAgree
<1>3. ASSUME NEW k \in Calls, StoreRefresh(k)
      PROVE  /\ unit'.refresh = call[k].fresh /\ cred' = cred
             /\ cred[call[k].fresh].family = OwnFamily
             /\ unit.refresh # None
  BY <1>3, <1>t DEF StoreRefresh, FamiliesAgree, RotationsAgree, Rotation
<1>4. ASSUME NEW k \in Calls, NEW q \in Requests, Refused(k, q)
      PROVE  unit'.refresh = None
  BY <1>4 DEF Refused, Stranger
<1>5. ASSUME NEW k \in Calls, NEW q \in Requests, StoreAccess(k, q)
      PROVE  unit'.refresh = unit.refresh
  BY <1>5, <1>t DEF StoreAccess
<1>6. unit.refresh # None /\ unit'.refresh # None =>
          unit'.refresh = unit.refresh \/ \E k \in Calls : StoreRefresh(k)
  BY <1>2, <1>3, <1>4, <1>5, UnitMoves
<1>7. unit.refresh # None /\ unit'.refresh # None => OwnFamily' = OwnFamily
  <2>1. unit.refresh # None /\ unit'.refresh = unit.refresh => OwnFamily' = OwnFamily
    BY <1>1, CredsGrow DEF OwnFamily
  <2>2. ASSUME NEW k \in Calls, StoreRefresh(k)
        PROVE  OwnFamily' = OwnFamily
    BY <1>3, <2>2 DEF OwnFamily
  <2> QED
    BY <1>6, <2>1, <2>2
<1>8. unit.refresh = None /\ unit'.refresh # None =>
          \E p \in Requests :
              /\ EndEnrolment(p) /\ request[p] # Quiet /\ request[p].pc = "answer"
              /\ request[p].result = unit'.refresh /\ unit'.refresh \in Creds
  BY <1>2, <1>3, <1>4, <1>5, UnitMoves
<1>9. (\A p \in Requests : ~EndEnrolment(p)) => excuse \subseteq excuse'
  BY DEF IdentityNext, identityVars, CreateTicket, TicketExpires, CheckTicket, Enrol, ReadCred, GiveUp,
         DropAnswer, LoseRequest, GatewayAnswers, StartEnrolment, Refresh, RevokeDevice, Issue, StartCall,
         Guard, KillUnit, AccessExpires, CredExpires, RevokeFamily, UseCred, StoreRefresh, Refused,
         StoreAccess
<1>10. ASSUME NEW p \in Requests, EndEnrolment(p), request[p].result = None
       PROVE  excuse \subseteq excuse'
  BY <1>10 DEF EndEnrolment
<1>11. (\A p \in Requests : EndEnrolment(p) => request[p].result = None) => excuse \subseteq excuse'
  BY <1>9, <1>10
<1>12. ASSUME NEW p \in Requests, EndEnrolment(p), unit.refresh # None
       PROVE  FALSE
  BY <1>2, <1>12
<1> QED
  BY <1>1, <1>6, <1>7, <1>8, <1>9, <1>11, <1>12

\* Nobody changes the tokens a call rotates but this call.
LEMMA RotatorHolds ==
    ASSUME IdentityInv, [IdentityNext]_identityVars, RotationsAgree',
           NEW k \in Calls, call[k].pc \in Rotation, call'[k].pc \in Rotation
    PROVE  unit.refresh # None /\ unit'.refresh = unit.refresh
<1> USE DEF IdentityInv
<1>1. unit.refresh # None /\ unit'.refresh # None
  BY DEF RotationsAgree
<1>2. ASSUME NEW j \in Calls, StoreRefresh(j)
      PROVE  FALSE
  <2>1. j = k
    BY <1>2 DEF StoreRefresh, RotationsAgree, Rotation
  <2>2. call'[k] = Quiet
    BY <1>2, <2>1 DEF StoreRefresh, Calling, IdentityTypeOK
  <2> QED
    BY <2>2 DEF Quiet, Rotation
<1> QED
  BY <1>1, <1>2, OwnStays

\* While a call waits for its request, the phone keeps its refresh token.
LEMMA RequestHolds ==
    ASSUME IdentityInv, [IdentityNext]_identityVars, RotationsAgree', NEW q \in Requests,
           request[q] # Quiet, request[q].by \in Calls,
           request'[q] # Quiet, request'[q].by = request[q].by
    PROVE  unit.refresh # None /\ unit'.refresh = unit.refresh
<1> DEFINE k == request[q].by
<1>1. call[k].pc = "refreshing" /\ call'[k].pc = "refreshing"
  BY DEF IdentityInv, RotationsAgree
<1> QED
  BY <1>1, RotatorHolds DEF Rotation

\* A founder stays one until the phone has its tokens.
LEMMA FounderStays ==
    ASSUME IdentityInv, [IdentityNext]_identityVars, NEW q \in Requests, NEW c \in Creds,
           Founder(q, c), request[q].pc = "answer", unit.refresh = None
    PROVE  Founder(q, c)'
<1> USE IdentityAssumption DEF IdentityInv
<1>t. cred \in [Creds -> {NoCred} \cup CredRow]
  BY DEF IdentityTypeOK
<1>n. NoCred.family = None
  BY DEF NoCred
<1>1. /\ cred[c].family = c /\ cred[c] # NoCred /\ ~cred[c].used /\ ~cred[c].aged
      /\ \A d \in Creds : cred[d].family = c => d = c
      /\ \A p \in Requests \ {q} : FamilyOf(p) # c
  BY <1>n DEF Founder, InFamily
<1>2. cred'[c].family = c
  BY <1>1, CredsGrow
<1>3. ASSUME NEW p \in Requests, p # q
      PROVE  FamilyOf(p)' # c
  BY <1>1, <1>3, FamiliesDescend
<1>4. ASSUME NEW d \in Creds, d # c
      PROVE  cred'[d].family # c
  <2>1. CASE cred[d] # NoCred
    BY <1>1, <1>4, <2>1, CredsGrow
  <2>2. CASE cred[d] = NoCred /\ \E p \in Requests : Issue(p)
    <3>1. PICK p \in Requests : Issue(p)
      BY <2>2
    <3>2. p # q /\ request[p].pc = "issue"
      BY <3>1, Issued
    <3>3. FamilyOf(p) = request[p].family
      BY <3>2 DEF FamilyOf
    <3> QED
      BY <1>1, <1>4, <1>n, <2>2, <3>1, <3>2, <3>3, Issued
  <2>3. CASE cred[d] = NoCred /\ ~\E p \in Requests : Issue(p)
    BY <1>n, <2>3, NotIssued
  <2> QED
    BY <2>1, <2>2, <2>3
<1>5. ~cred'[c].used
  <2>1. ASSUME NEW p \in Requests, UseCred(p)
        PROVE  request[p].cred # c
    <3>1. FamilyOf(p) = cred[request[p].cred].family /\ p # q
      BY <2>1 DEF UseCred, FamilyOf
    <3> QED
      BY <1>1, <3>1
  <2> QED
    BY <1>1, <2>1, FlagsMove
<1>6. ~cred'[c].aged
  <2>1. ~CredExpires(c)
    BY DEF CredExpires
  <2> QED
    BY <1>1, <2>1, FlagsMove
<1>7. InFamily(c)' = {c}
  BY <1>2, <1>4 DEF InFamily
<1> QED
  BY <1>2, <1>3, <1>5, <1>6, <1>7 DEF Founder

\* A request ends with an answer, or goes on without its caller.
LEMMA RequestLeaves ==
    ASSUME IdentityInv, NEW q \in Requests
    PROVE  /\ \/ EndEnrolment(q) \/ DropAnswer(q) \/ LoseRequest(q)
              \/ \E k \in Calls : Refused(k, q) \/ StoreAccess(k, q)
              => request'[q] = Quiet
           /\ GiveUp(q) \/ KillUnit => /\ request'[q] = Quiet \/ request'[q].by = None
                                       /\ {"unanswered", "killed"} \cap excuse' # {}
           /\ \A t \in Tickets : StartEnrolment(t, q) =>
                  request'[q].pc = "check" /\ request'[q].by = Screen
<1> USE DEF IdentityInv
<1>t. request \in [Requests -> {Quiet} \cup Handling]
  BY DEF IdentityTypeOK
<1>1. \/ EndEnrolment(q) \/ DropAnswer(q) \/ LoseRequest(q)
      \/ \E k \in Calls : Refused(k, q) \/ StoreAccess(k, q)
      => request'[q] = Quiet
  BY <1>t DEF EndEnrolment, DropAnswer, LoseRequest, Refused, StoreAccess, Request
<1>2. request[q] # Quiet => [request[q] EXCEPT !.by = None].by = None
  BY RequestCarries DEF Handling
<1>3. GiveUp(q) => request[q] # Quiet /\ request'[q] = [request[q] EXCEPT !.by = None]
                   /\ "unanswered" \in excuse'
  BY <1>t DEF GiveUp, Request
<1>4. KillUnit => (request[q] # Quiet => request'[q] = [request[q] EXCEPT !.by = None])
                  /\ (request[q] = Quiet => request'[q] = Quiet) /\ "killed" \in excuse'
  BY <1>t DEF KillUnit
<1>5. \A t \in Tickets : StartEnrolment(t, q) =>
          request'[q].pc = "check" /\ request'[q].by = Screen
  BY <1>t DEF StartEnrolment, Request
<1> QED
  BY <1>1, <1>2, <1>3, <1>4, <1>5

\* What the request of a call rotates stays what the phone holds, and what it brings about
\* is of the family of the phone.
LEMMA CallersFamily ==
    ASSUME IdentityInv, [IdentityNext]_identityVars, RotationsAgree', NEW q \in Requests,
           request'[q] # Quiet, request'[q].by \in Calls
    PROVE  /\ request'[q].pc \in {"read", "revoke", "use"} => request'[q].cred = unit'.refresh
           /\ Renewing(q)' => FamilyOf(q)' = OwnFamily'
<1> USE IdentityAssumption DEF IdentityInv
<1>t. request \in [Requests -> {Quiet} \cup Handling] /\ cred \in [Creds -> {NoCred} \cup CredRow]
  BY DEF IdentityTypeOK
<1>0. unit.refresh # None => OwnFamily # None
  BY OwnStays
<1>h. ASSUME request[q] # Quiet, request'[q].by = request[q].by
      PROVE  /\ unit.refresh # None /\ unit'.refresh = unit.refresh
             /\ OwnFamily' = OwnFamily /\ OwnFamily # None
             /\ request[q].pc \notin {"check", "enrol"}
             /\ request[q].pc \in {"read", "revoke", "use"} => request[q].cred = unit.refresh
             /\ Renewing(q) => FamilyOf(q) = OwnFamily
  <2>1. unit.refresh # None /\ unit'.refresh = unit.refresh
    BY <1>h, RequestHolds
  <2>2. OwnFamily' = OwnFamily /\ OwnFamily # None
    BY <2>1, OwnStays
  <2> QED
    BY <1>h, <2>1, <2>2 DEF FamiliesAgree, RotationsAgree
<1>1. CASE request'[q] = request[q]
  <2>1. FamilyOf(q)' = FamilyOf(q)
    BY <1>1, FamilyKept
  <2>2. Renewing(q)' => Renewing(q)
    BY <1>1 DEF Renewing
  <2> QED
    BY <1>1, <1>h, <2>1, <2>2
<1>2. ASSUME CheckTicket(q) \/ Enrol(q)
      PROVE  FALSE
  <2>1. request[q] # Quiet /\ request'[q].by = request[q].by
    BY <1>2, ServerAnswers
  <2> QED
    BY <1>2, <1>h, <2>1 DEF CheckTicket, Enrol
<1>3. ASSUME ReadCred(q) \/ RevokeFamily(q) \/ GatewayAnswers(q)
      PROVE  /\ request'[q].pc \in {"read", "revoke", "use"} => request'[q].cred = unit'.refresh
             /\ ~Renewing(q)'
  <2>1. request[q] # Quiet /\ request'[q].by = request[q].by
    BY <1>3, ServerAnswers
  <2>2. \/ request'[q] \in {[request[q] EXCEPT !.pc = "revoke"], [request[q] EXCEPT !.pc = "use"]}
           /\ request[q].pc = "read"
        \/ request'[q] = [pc |-> "answer", by |-> request[q].by, result |-> None]
    BY <1>3, <1>t DEF ReadCred, RevokeFamily, GatewayAnswers, Request
  <2>3. request[q].pc = "read" =>
            request[q] \in [pc : {"read", "revoke", "use"}, by : Askers, cred : Creds]
    BY RequestCarries
  <2> QED
    BY <1>h, <2>1, <2>2, <2>3 DEF Renewing
<1>4. ASSUME UseCred(q)
      PROVE  request'[q].pc = "issue" /\ FamilyOf(q)' = OwnFamily'
  <2>1. request[q] # Quiet /\ request'[q].by = request[q].by
    BY <1>4, ServerAnswers
  <2>2. request[q].pc = "use" /\ request'[q].pc = "issue"
        /\ request'[q].family = cred[request[q].cred].family
    BY <1>4, <1>t DEF UseCred, Request
  <2> QED
    BY <1>h, <2>1, <2>2 DEF FamilyOf, OwnFamily
<1>5. ASSUME Issue(q)
      PROVE  request'[q].pc = "answer" /\ FamilyOf(q)' = OwnFamily'
  <2>1. request[q] # Quiet /\ request'[q].by = request[q].by
    BY <1>5, ServerAnswers
  <2>2. PICK c \in Creds :
            /\ cred'[c].family = IF request[q].family = None THEN c ELSE request[q].family
            /\ request[q].pc = "issue" /\ request'[q].pc = "answer" /\ request'[q].result = c
    BY <1>5, Issued
  <2>3. Renewing(q) /\ FamilyOf(q) = request[q].family
    BY <2>1, <2>2 DEF Renewing, FamilyOf
  <2> QED
    BY <1>h, <2>1, <2>2, <2>3 DEF FamilyOf
<1>6. ASSUME \/ EndEnrolment(q) \/ DropAnswer(q) \/ LoseRequest(q) \/ GiveUp(q) \/ KillUnit
             \/ \E t \in Tickets : StartEnrolment(t, q)
             \/ \E k \in Calls : Refused(k, q) \/ StoreAccess(k, q)
      PROVE  FALSE
  BY <1>6, RequestLeaves DEF None, Screen
<1>7. ASSUME NEW k \in Calls, Refresh(k, q)
      PROVE  /\ request'[q].pc \in {"read", "revoke", "use"} => request'[q].cred = unit'.refresh
             /\ ~Renewing(q)'
  BY <1>7, <1>t DEF Refresh, Request, Renewing, Quiet, Spare
<1> QED
  BY <1>1, <1>2, <1>3, <1>4, <1>5, <1>6, <1>7, OneRequestMoves

\* What the screen waits for founds a family.
LEMMA ScreenFounds ==
    ASSUME IdentityInv, [IdentityNext]_identityVars, NEW q \in Requests,
           request'[q] # Quiet, request'[q].by = Screen, RotationsAgree'
    PROVE  /\ request'[q].pc = "issue" => request'[q].family = None
           /\ request'[q].pc = "answer" /\ request'[q].result # None =>
                  Founder(q, request[q].result)'
<1> USE IdentityAssumption DEF IdentityInv
<1>t. request \in [Requests -> {Quiet} \cup Handling] /\ cred \in [Creds -> {NoCred} \cup CredRow]
  BY DEF IdentityTypeOK
<1>h. ASSUME request[q] # Quiet, request'[q].by = request[q].by
      PROVE  /\ unit.refresh = None /\ request[q].pc \notin {"read", "revoke", "use"}
             /\ request[q].pc = "issue" => request[q].family = None
             /\ request[q].pc = "answer" /\ request[q].result # None => Founder(q, request[q].result)
  BY <1>h DEF FamiliesAgree, RotationsAgree
<1>1. CASE request'[q] = request[q]
  <2>1. CASE request[q].pc = "answer" /\ request[q].result # None
    <3>1. PICK c \in Creds : c = request[q].result
      BY <2>1, RequestCarries
    <3>2. Founder(q, c)'
      BY <1>1, <1>h, <2>1, <3>1, FounderStays
    <3> QED
      BY <1>1, <2>1, <3>1, <3>2 DEF Founder, InFamily
  <2> QED
    BY <1>1, <1>h, <2>1
<1>2. ASSUME CheckTicket(q) \/ GatewayAnswers(q) \/ Enrol(q)
      PROVE  /\ request'[q].pc = "issue" => request'[q].family = None
             /\ request'[q].pc = "answer" => request'[q].result = None
  <2>1. \/ request'[q] = [request[q] EXCEPT !.pc = "enrol"] /\ request[q].pc = "check"
        \/ request'[q] = [pc |-> "answer", by |-> request[q].by, result |-> None]
        \/ request'[q] = [pc |-> "issue", by |-> request[q].by, family |-> None]
    BY <1>2, <1>t DEF CheckTicket, GatewayAnswers, Enrol, Request
  <2>2. request[q].pc = "check" =>
            request[q] \in [pc : {"check", "enrol"}, by : Askers, ticket : Tickets]
    BY RequestCarries
  <2> QED
    BY <2>1, <2>2
<1>3. ASSUME ReadCred(q) \/ RevokeFamily(q) \/ UseCred(q)
      PROVE  FALSE
  <2>1. request[q] # Quiet /\ request'[q].by = request[q].by
    BY <1>3, ServerAnswers
  <2> QED
    BY <1>3, <1>h, <2>1 DEF ReadCred, RevokeFamily, UseCred
<1>4. ASSUME Issue(q)
      PROVE  request'[q].pc = "answer" /\ Founder(q, request[q].result)'
  <2>1. request[q] # Quiet /\ request'[q].by = request[q].by
    BY <1>4, ServerAnswers
  <2>2. PICK c \in Creds :
            /\ cred[c] = NoCred /\ request[q].pc = "issue"
            /\ cred'[c].family = IF request[q].family = None THEN c ELSE request[q].family
            /\ ~cred'[c].used /\ ~cred'[c].revoked /\ ~cred'[c].aged
            /\ request'[q].pc = "answer" /\ request'[q].result = c
            /\ \A d \in Creds \ {c} : cred'[d] = cred[d]
            /\ \A p \in Requests \ {q} : request'[p] = request[p]
    BY <1>4, Issued, ServerAnswers
  <2>3. cred'[c].family = c
    BY <1>h, <2>1, <2>2
  <2>4. cred[c].family = None /\ c # None
    BY <2>2 DEF NoCred
  <2>5. ASSUME NEW d \in Creds, d # c
        PROVE  cred'[d].family # c
    <3>1. cred[d] # NoCred => cred[cred[d].family].family = cred[d].family
      BY DEF CredsAgree
    <3> QED
      BY <2>2, <2>4, <2>5, <3>1 DEF NoCred
  <2>6. ASSUME NEW p \in Requests \ {q}
        PROVE  FamilyOf(p)' # c
    <3>1. FamilyOf(p)' = FamilyOf(p)
      BY <2>2, FamilyKept
    <3>2. FamilyOf(p) # None => cred[FamilyOf(p)].family = FamilyOf(p)
      BY DEF CredsAgree
    <3> QED
      BY <2>4, <3>1, <3>2
  <2>7. InFamily(c)' = {c}
    BY <2>3, <2>5 DEF InFamily
  <2>8. Founder(q, c)'
    BY <2>2, <2>3, <2>6, <2>7 DEF Founder
  <2> QED
    BY <2>2, <2>8 DEF Founder, InFamily
<1>5. ASSUME \/ EndEnrolment(q) \/ DropAnswer(q) \/ LoseRequest(q) \/ GiveUp(q) \/ KillUnit
             \/ \E k \in Calls : Refused(k, q) \/ StoreAccess(k, q) 
      PROVE  FALSE
  BY <1>5, RequestLeaves DEF None, Screen
<1>6. ASSUME NEW t \in Tickets, StartEnrolment(t, q)
      PROVE  request'[q].pc = "check"
  BY <1>6, <1>t DEF StartEnrolment, Request
<1>7. ASSUME NEW k \in Calls, Refresh(k, q), request'[q] # request[q]
      PROVE  FALSE
  BY <1>7, <1>t DEF Refresh, Request
<1> QED
  BY <1>1, <1>2, <1>3, <1>4, <1>5, <1>6, <1>7, OneRequestMoves

\* What nobody waits for is of another family than that of the phone, as long as every
\* rotation is answered.
LEMMA OrphansElsewhere ==
    ASSUME IdentityInv, [IdentityNext]_identityVars, NEW q \in Requests,
           request'[q] # Quiet, request'[q].by = None,
           {"unanswered", "killed"} \cap excuse' = {}, unit'.refresh # None
    PROVE  FamilyOf(q)' # OwnFamily'
<1> USE IdentityAssumption DEF IdentityInv
<1>t. request \in [Requests -> {Quiet} \cup Handling]
  BY DEF IdentityTypeOK
<1>1. ASSUME \/ EndEnrolment(q) \/ DropAnswer(q) \/ LoseRequest(q) \/ GiveUp(q) \/ KillUnit
             \/ \E t \in Tickets : StartEnrolment(t, q)
             \/ \E k \in Calls : Refused(k, q) \/ StoreAccess(k, q)
      PROVE  FALSE
  BY <1>1, RequestLeaves DEF None, Screen
<1>2. ASSUME NEW k \in Calls, Refresh(k, q), request'[q] # request[q]
      PROVE  FALSE
  BY <1>2, <1>t DEF Refresh, Request
<1>3. request[q] # Quiet /\ request[q].by = None
  <2>1. CheckTicket(q) \/ Enrol(q) \/ GatewayAnswers(q) \/ ReadCred(q) \/ RevokeFamily(q)
        \/ UseCred(q) \/ Issue(q) => request[q] # Quiet /\ request[q].by = None
    BY ServerAnswers
  <2> QED
    BY <1>1, <1>2, <2>1, OneRequestMoves
<1>4. CASE unit.refresh # None
  <2>1. OwnFamily' = OwnFamily /\ OwnFamily \in Creds /\ OwnFamily # None /\ cred[OwnFamily] # NoCred
    BY <1>4, OwnStays
  <2>2. {"unanswered", "killed"} \cap excuse = {}
    BY <1>4, OwnStays
  <2>3. FamilyOf(q) # OwnFamily
    BY <1>3, <1>4, <2>2 DEF FamiliesAgree
  <2> QED
    BY <1>3, <2>1, <2>3, FamiliesDescend
<1>5. CASE unit.refresh = None
  <2>1. PICK p \in Requests :
            /\ EndEnrolment(p) /\ request[p] # Quiet /\ request[p].pc = "answer"
            /\ request[p].result = unit'.refresh /\ unit'.refresh \in Creds
    BY <1>5, OwnStays
  <2>2. request[p].by = Screen /\ p # q /\ cred' = cred /\ request'[q] = request[q]
    BY <1>3, <1>t, <2>1 DEF EndEnrolment, Request, None, Screen
  <2>3. Founder(p, unit'.refresh)
    BY <2>1, <2>2 DEF FamiliesAgree
  <2>4. OwnFamily' = unit'.refresh
    BY <2>2, <2>3 DEF OwnFamily, Founder
  <2>5. FamilyOf(q)' = FamilyOf(q)
    BY <2>2, FamilyKept
  <2> QED
    BY <2>2, <2>3, <2>4, <2>5 DEF Founder
<1> QED
  BY <1>4, <1>5

\* A rotation stays in the family of the phone, an enrolment founds one, and what is
\* left behind is of others.
LEMMA FamiliesStay ==
    ASSUME IdentityInv, [IdentityNext]_identityVars, RotationsAgree'
    PROVE  FamiliesAgree'
<1> USE IdentityAssumption DEF IdentityInv
<1>1. ASSUME NEW k \in Calls, call'[k].pc = "storing"
      PROVE  cred'[call'[k].fresh].family = OwnFamily'
  <2>1. ASSUME NEW q \in Requests, StoreAccess(k, q)
        PROVE  cred'[call'[k].fresh].family = OwnFamily'
    <3>1. /\ call'[k].fresh = request[q].result /\ cred' = cred /\ unit'.refresh = unit.refresh
          /\ request[q].pc = "answer" /\ request[q].result # None /\ request[q].by = k
      BY <2>1 DEF StoreAccess, Calling, IdentityTypeOK
    <3>2. request[q] # Quiet
      BY <3>1, RequestCarries
    <3>3. FamilyOf(q) = OwnFamily /\ FamilyOf(q) = cred[request[q].result].family
      BY <3>1, <3>2 DEF FamiliesAgree, Renewing, FamilyOf
    <3> QED
      BY <3>1, <3>3 DEF OwnFamily
  <2>2. CASE call'[k] = call[k]
    <3>1. call[k].fresh \in Creds /\ cred[call[k].fresh] # NoCred
          /\ cred[call[k].fresh].family = OwnFamily
      BY <1>1, <2>2, CallHolds DEF CredsAgree, FamiliesAgree
    <3>2. unit.refresh # None /\ unit'.refresh = unit.refresh
      BY <1>1, <2>2, RotatorHolds DEF Rotation
    <3>3. OwnFamily' = OwnFamily
      BY <3>2, OwnStays
    <3> QED
      BY <2>2, <3>1, <3>3, CredsGrow
  <2> QED
    BY <1>1, <2>1, <2>2, OneCallMoves
<1> QED
  BY <1>1, CallersFamily, ScreenFounds, OrphansElsewhere DEF FamiliesAgree

\* A renewal begins when the credential of the phone is used.
LEMMA RenewalBegins ==
    ASSUME IdentityInv, [IdentityNext]_identityVars, RotationsAgree', NEW q \in Requests,
           Renewing(q)'
    PROVE  /\ unit.refresh # None /\ unit'.refresh = unit.refresh
           /\ Renewing(q) \/ (UseCred(q) /\ request[q].cred = unit.refresh)
<1> USE IdentityAssumption DEF IdentityInv
<1>t. request \in [Requests -> {Quiet} \cup Handling]
  BY DEF IdentityTypeOK
<1>0. request'[q] # Quiet /\ request'[q].by \in Calls
      /\ (request'[q].pc = "issue" \/ (request'[q].pc = "answer" /\ request'[q].result # None))
  BY DEF Renewing
<1>1. ASSUME \/ EndEnrolment(q) \/ DropAnswer(q) \/ LoseRequest(q) \/ GiveUp(q) \/ KillUnit
             \/ \E t \in Tickets : StartEnrolment(t, q)
             \/ \E k \in Calls : Refused(k, q) \/ StoreAccess(k, q)
      PROVE  FALSE
  BY <1>0, <1>1, RequestLeaves
<1>2. ASSUME NEW k \in Calls, Refresh(k, q), request'[q] # request[q]
      PROVE  FALSE
  BY <1>0, <1>2, <1>t DEF Refresh, Request
<1>3. ASSUME CheckTicket(q) \/ Enrol(q) \/ GatewayAnswers(q) \/ ReadCred(q) \/ RevokeFamily(q)
             \/ UseCred(q) \/ Issue(q)
      PROVE  request[q] # Quiet /\ request[q].by \in Calls
  BY <1>0, <1>3, ServerAnswers
<1>4. ASSUME CheckTicket(q) \/ Enrol(q)
      PROVE  FALSE
  BY <1>3, <1>4 DEF CheckTicket, Enrol, RotationsAgree
<1>5. ASSUME GatewayAnswers(q) \/ ReadCred(q) \/ RevokeFamily(q)
      PROVE  FALSE
  <2>1. \/ request'[q] \in {[request[q] EXCEPT !.pc = "revoke"], [request[q] EXCEPT !.pc = "use"]}
           /\ request[q].pc = "read"
        \/ request'[q] = [pc |-> "answer", by |-> request[q].by, result |-> None]
    BY <1>5, <1>t DEF ReadCred, RevokeFamily, GatewayAnswers, Request
  <2>2. request[q].pc = "read" =>
            request[q] \in [pc : {"read", "revoke", "use"}, by : Askers, cred : Creds]
    BY RequestCarries
  <2> QED
    BY <1>0, <2>1, <2>2
<1>6. ASSUME UseCred(q)
      PROVE  request[q].cred = unit.refresh
  BY <1>3, <1>6 DEF UseCred, FamiliesAgree
<1>7. ASSUME Issue(q)
      PROVE  Renewing(q)
  BY <1>3, <1>7 DEF Issue, Renewing
<1>8. request'[q] = request[q] => Renewing(q)
  BY <1>0 DEF Renewing
<1>9. Renewing(q) \/ (UseCred(q) /\ request[q].cred = unit.refresh)
  BY <1>1, <1>2, <1>4, <1>5, <1>6, <1>7, <1>8, OneRequestMoves
<1>10. request[q] # Quiet /\ request'[q].by = request[q].by
  <2>1. request'[q] = request[q] => request[q] # Quiet
    BY <1>0
  <2> QED
    BY <1>1, <1>2, <2>1, OneRequestMoves, ServerAnswers
<1> QED
  BY <1>0, <1>9, <1>10, RequestHolds

\* It goes on to its answer and to the call that stores it, when that one waits for it.
LEMMA RenewalGoesOn ==
    ASSUME IdentityInv, [IdentityNext]_identityVars, NEW q \in Requests, Renewing(q),
           {"unanswered", "killed"} \cap excuse' = {}
    PROVE  \/ request'[q] = request[q] /\ Renewing(q)'
           \/ Issue(q) /\ Renewing(q)'
           \/ request[q].pc = "answer" /\ \E k \in Calls : StoreAccess(k, q)
<1> USE IdentityAssumption DEF IdentityInv
<1>t. request \in [Requests -> {Quiet} \cup Handling]
  BY DEF IdentityTypeOK
<1>0. request[q] # Quiet /\ request[q].by \in Calls
      /\ (request[q].pc = "issue" \/ (request[q].pc = "answer" /\ request[q].result # None))
  BY DEF Renewing
<1>1. request'[q] = request[q] => Renewing(q)'
  BY DEF Renewing
<1>2. ASSUME Issue(q)
      PROVE  Renewing(q)'
  <2>1. request'[q] # Quiet /\ request'[q].by = request[q].by
    BY <1>2, ServerAnswers
  <2>2. request'[q].pc = "answer" /\ request'[q].result \in Creds
    BY <1>2, Issued
  <2> QED
    BY <1>0, <2>1, <2>2 DEF Renewing
<1>3. ASSUME \/ CheckTicket(q) \/ Enrol(q) \/ ReadCred(q) \/ RevokeFamily(q) \/ UseCred(q)
             \/ GatewayAnswers(q) \/ LoseRequest(q)
      PROVE  FALSE
  BY <1>0, <1>3 DEF CheckTicket, Enrol, ReadCred, RevokeFamily, UseCred, GatewayAnswers, LoseRequest
<1>4. ASSUME EndEnrolment(q) \/ DropAnswer(q) \/ \E k \in Calls : Refused(k, q)
      PROVE  FALSE
  BY <1>0, <1>4 DEF EndEnrolment, DropAnswer, Refused
<1>5. ASSUME \/ \E t \in Tickets : StartEnrolment(t, q)
             \/ \E k \in Calls : Refresh(k, q)
      PROVE  request'[q] = request[q]
  BY <1>0, <1>5, <1>t DEF StartEnrolment, Refresh, Spare
<1>6. ~GiveUp(q) /\ ~KillUnit
  BY RequestLeaves
<1>7. ASSUME NEW k \in Calls, StoreAccess(k, q)
      PROVE  request[q].pc = "answer"
  BY <1>7 DEF StoreAccess
<1> QED
  BY <1>1, <1>2, <1>3, <1>4, <1>5, <1>6, <1>7, OneRequestMoves

\* A call that stores goes on to its end, unless its process dies.
LEMMA StoringGoesOn ==
    ASSUME IdentityInv, [IdentityNext]_identityVars, NEW k \in Calls, call[k].pc = "storing",
           {"unanswered", "killed"} \cap excuse' = {}
    PROVE  call'[k] = call[k] \/ StoreRefresh(k)
<1> USE IdentityAssumption DEF IdentityInv
<1>t. call \in [Calls -> {Quiet} \cup [pc : {"sent", "denied", "refreshing"}, token : Creds]
                    \cup [pc : {"storing"}, token : Creds, fresh : Creds]]
  BY DEF IdentityTypeOK
<1>0. call[k] # Quiet
  BY CallHolds
<1>1. ASSUME NEW q \in Requests, GiveUp(q) \/ KillUnit
      PROVE  FALSE
  BY <1>1, RequestLeaves
<1>2. ASSUME NEW j \in Calls, StartCall(j) \/ Guard(j) \/ StoreRefresh(j)
      PROVE  call'[k] = call[k] \/ StoreRefresh(k)
  BY <1>0, <1>2, <1>t DEF StartCall, Guard, StoreRefresh, Calling
<1>3. ASSUME NEW j \in Calls, NEW q \in Requests, Refused(j, q) \/ StoreAccess(j, q) \/ Refresh(j, q)
      PROVE  call'[k] = call[k]
  <2>1. request[q].pc = "answer" => request[q] # Quiet
    BY RequestCarries
  <2>2. j # k
    BY <1>3, <2>1 DEF Refused, StoreAccess, Refresh, RotationsAgree
  <2> QED
    BY <1>3, <1>t, <2>2 DEF Refused, StoreAccess, Refresh, Calling
<1>4. ASSUME NEW q \in Requests, LoseRequest(q)
      PROVE  call'[k] = call[k]
  <2>1. request[q] # Quiet
    BY <1>4, RequestCarries DEF LoseRequest
  <2>2. request[q].by # k
    BY <2>1 DEF RotationsAgree
  <2> QED
    BY <1>4, <1>t, <2>2 DEF LoseRequest, Calling
<1>5. ~KillUnit
  BY DEF KillUnit
<1> QED
  BY <1>1, <1>2, <1>3, <1>4, <1>5
     DEF IdentityNext, identityVars, CreateTicket, TicketExpires, RevokeDevice, CheckTicket, Enrol, ReadCred,
         RevokeFamily, UseCred, Issue, EndEnrolment, DropAnswer, GatewayAnswers, StartEnrolment, KillUnit,
         AccessExpires, CredExpires

\* The requests about the family of the phone are those of its calls, as long as every
\* rotation is answered.
LEMMA OwnersAsk ==
    ASSUME IdentityInv, NEW q \in Requests, request[q] # Quiet, unit.refresh # None,
           FamilyOf(q) = OwnFamily, {"unanswered", "killed"} \cap excuse = {}
    PROVE  request[q].by \in Calls
<1>1. request[q].by \in Calls \cup {Screen, None}
  BY RequestCarries DEF IdentityInv, Askers
<1> QED
  BY <1>1 DEF IdentityInv, RotationsAgree, FamiliesAgree

\* In the family of the phone, only the credential it holds, or the next one, is in force.
LEMMA LatestStays ==
    ASSUME IdentityInv, [IdentityNext]_identityVars, RotationsAgree'
    PROVE  LatestIsLive'
<1> USE IdentityAssumption DEF IdentityInv
<1>t. cred \in [Creds -> {NoCred} \cup CredRow]
  BY DEF IdentityTypeOK
<1>u. unit.refresh # None /\ cred[unit.refresh].used /\ unit'.refresh = unit.refresh =>
          cred'[unit'.refresh].used
  BY OwnStays, CredsGrow
<1>1. ASSUME NEW q \in Requests, Renewing(q)'
      PROVE  cred'[unit'.refresh].used
  <2>1. unit.refresh # None /\ unit'.refresh = unit.refresh
        /\ (Renewing(q) \/ (UseCred(q) /\ request[q].cred = unit.refresh))
    BY <1>1, RenewalBegins
  <2>2. CASE Renewing(q)
    BY <1>u, <2>1, <2>2 DEF LatestIsLive
  <2>3. ASSUME UseCred(q), request[q].cred = unit.refresh
        PROVE  cred'[unit'.refresh].used
    <3>1. unit.refresh \in Creds /\ cred[unit.refresh] \in CredRow
      BY <2>1, OwnStays, CredsTyped
    <3>2. cred'[unit.refresh] = [cred[unit.refresh] EXCEPT !.used = TRUE]
      BY <1>t, <2>3, <3>1 DEF UseCred
    <3> QED
      BY <2>1, <3>1, <3>2 DEF CredRow
  <2> QED
    BY <2>1, <2>2, <2>3
<1>2. ASSUME NEW k \in Calls, call'[k].pc = "storing"
      PROVE  cred'[unit'.refresh].used
  <2>1. ASSUME NEW q \in Requests, StoreAccess(k, q)
        PROVE  cred'[unit'.refresh].used
    <3>1. /\ cred' = cred /\ unit'.refresh = unit.refresh
          /\ request[q].pc = "answer" /\ request[q].result # None /\ request[q].by = k
      BY <2>1 DEF StoreAccess, IdentityTypeOK
    <3>2. Renewing(q)
      BY <3>1, RequestCarries DEF Renewing
    <3> QED
      BY <3>1, <3>2 DEF LatestIsLive
  <2>2. CASE call'[k] = call[k]
    BY <1>2, <1>u, <2>2, RotatorHolds DEF Rotation, LatestIsLive
  <2> QED
    BY <1>2, <2>1, <2>2, OneCallMoves
<1>3. ASSUME {"unanswered", "killed"} \cap excuse' = {}, unit'.refresh # None,
             NEW c \in Creds, cred'[c].family = OwnFamily', Live(c)'
      PROVE  \/ c = unit'.refresh
             \/ \E q \in Requests : Renewing(q)' /\ request'[q].pc = "answer" /\ request'[q].result = c
             \/ \E k \in Calls : call'[k].pc = "storing" /\ call'[k].fresh = c
  <2>1. CASE unit.refresh = None
    <3>1. PICK p \in Requests :
              /\ EndEnrolment(p) /\ request[p] # Quiet /\ request[p].pc = "answer"
              /\ request[p].result = unit'.refresh /\ unit'.refresh \in Creds
      BY <1>3, <2>1, OwnStays
    <3>2. Founder(p, unit'.refresh) /\ cred' = cred
      BY <3>1 DEF EndEnrolment, FamiliesAgree
    <3> QED
      BY <1>3, <3>2 DEF Founder, InFamily, OwnFamily
  <2>2. CASE unit.refresh # None /\ cred[c] = NoCred
    <3>1. OwnFamily' = OwnFamily /\ OwnFamily \in Creds /\ OwnFamily # None
          /\ cred[OwnFamily] # NoCred /\ {"unanswered", "killed"} \cap excuse = {}
      BY <1>3, <2>2, OwnStays
    <3>2. cred'[c] # NoCred
      BY <1>3 DEF Live
    <3>3. PICK q \in Requests : Issue(q)
      BY <2>2, <3>2, NotIssued
    <3>4. /\ request[q].pc = "issue" /\ request'[q].pc = "answer" /\ request'[q].result = c
          /\ cred'[c].family = IF request[q].family = None THEN c ELSE request[q].family
      BY <2>2, <3>2, <3>3, Issued
    <3>5. request[q].family = OwnFamily
      BY <1>3, <2>2, <3>1, <3>4
    <3>6. request[q] # Quiet /\ request'[q] # Quiet /\ request'[q].by = request[q].by
      BY <3>3, ServerAnswers
    <3>7. FamilyOf(q) = OwnFamily
      BY <3>4, <3>5 DEF FamilyOf
    <3>8. request'[q].by \in Calls /\ c # None
      BY <2>2, <3>1, <3>6, <3>7, OwnersAsk
    <3> QED
      BY <3>4, <3>6, <3>8 DEF Renewing
  <2>3. CASE unit.refresh # None /\ cred[c] # NoCred
    <3>1. OwnFamily' = OwnFamily /\ {"unanswered", "killed"} \cap excuse = {}
      BY <1>3, <2>3, OwnStays
    <3>2. c \in InFamily(OwnFamily) /\ Live(c)
      BY <1>3, <2>3, <3>1, CredsGrow DEF Live, InFamily
    <3>3. CASE c = unit.refresh
      <4>1. ASSUME NEW k \in Calls, StoreRefresh(k)
            PROVE  FALSE
        BY <3>2, <3>3, <4>1 DEF StoreRefresh, LatestIsLive, Live
      <4> QED
        BY <1>3, <2>3, <3>3, <4>1, OwnStays
    <3>4. ASSUME NEW q \in Requests, Renewing(q), request[q].pc = "answer", request[q].result = c
          PROVE  \/ \E p \in Requests :
                        Renewing(p)' /\ request'[p].pc = "answer" /\ request'[p].result = c
                 \/ \E k \in Calls : call'[k].pc = "storing" /\ call'[k].fresh = c
      <4>1. ~Issue(q)
        BY <3>4 DEF Issue
      <4>2. ASSUME NEW k \in Calls, StoreAccess(k, q)
            PROVE  call'[k].pc = "storing" /\ call'[k].fresh = c
        BY <3>4, <4>2 DEF StoreAccess, Calling, IdentityTypeOK
      <4> QED
        BY <1>3, <3>4, <4>1, <4>2, RenewalGoesOn
    <3>5. ASSUME NEW k \in Calls, call[k].pc = "storing", call[k].fresh = c
          PROVE  c = unit'.refresh \/ (call'[k].pc = "storing" /\ call'[k].fresh = c)
      <4>1. StoreRefresh(k) => unit'.refresh = c
        BY <3>5 DEF StoreRefresh, IdentityTypeOK
      <4> QED
        BY <1>3, <3>5, <4>1, StoringGoesOn
    <3> QED
      BY <2>3, <3>1, <3>2, <3>3, <3>4, <3>5 DEF LatestIsLive
  <2> QED
    BY <2>1, <2>2, <2>3
<1> QED
  BY <1>1, <1>2, <1>3 DEF LatestIsLive, InFamily

\* While nothing may have cost the phone its tokens, nothing is wrong with them.
LEMMA NothingWrong ==
    ASSUME IdentityInv, [IdentityNext]_identityVars, unit.refresh # None, excuse' = {}
    PROVE  /\ excuse = {} /\ enrolment = "ENROLLED" /\ enrolment' = "ENROLLED"
           /\ \A q \in Requests : /\ ~GiveUp(q) /\ ~GatewayAnswers(q) /\ ~EndEnrolment(q)
                                  /\ RevokeFamily(q) => FamilyOf(q) # OwnFamily
           /\ \A q \in Requests, k \in Calls : ~Refused(k, q)
           /\ ~RevokeDevice /\ ~KillUnit /\ \A c \in Creds : ~CredExpires(c)
<1> USE IdentityAssumption DEF IdentityInv
<1>1. excuse = {} /\ enrolment = "ENROLLED"
  BY OwnStays DEF KeptAgrees
<1>2. ASSUME NEW q \in Requests, RevokeFamily(q), FamilyOf(q) = OwnFamily
      PROVE  FALSE
  <2>1. request[q] # Quiet /\ request[q].pc = "revoke"
    BY <1>2, ServerAnswers DEF RevokeFamily
  <2>2. request[q].by \in Calls
    BY <1>1, <1>2, <2>1, OwnersAsk
  <2> QED
    BY <1>1, <2>1, <2>2 DEF KeptAgrees
<1>3. ASSUME NEW q \in Requests, NEW k \in Calls, Refused(k, q)
      PROVE  FALSE
  <2>1. request[q] # Quiet
    BY <1>3, RequestCarries DEF Refused
  <2> QED
    BY <1>1, <1>3, <2>1 DEF KeptAgrees, Refused
<1>4. ASSUME NEW q \in Requests, EndEnrolment(q)
      PROVE  FALSE
  <2>1. request[q] # Quiet
    BY <1>4, RequestCarries DEF EndEnrolment
  <2> QED
    BY <1>4, <2>1 DEF EndEnrolment, RotationsAgree
<1>5. ~RevokeDevice /\ ~KillUnit /\ \A c \in Creds : ~CredExpires(c)
  BY DEF RevokeDevice, KillUnit, CredExpires
<1>6. \A q \in Requests : ~GiveUp(q) /\ ~GatewayAnswers(q)
  BY DEF GiveUp, GatewayAnswers
<1>7. enrolment' = "ENROLLED"
  BY <1>1, <1>5
     DEF IdentityNext, identityVars, CreateTicket, TicketExpires, CheckTicket, Enrol, ReadCred, GiveUp,
         DropAnswer, LoseRequest, GatewayAnswers, StartEnrolment, Refresh, Issue, StartCall, Guard,
         KillUnit, AccessExpires, CredExpires, RevokeFamily, UseCred, StoreRefresh, Refused, StoreAccess,
         EndEnrolment
<1> QED
  BY <1>1, <1>2, <1>3, <1>4, <1>5, <1>6, <1>7

\* A credential of the family of the phone is not revoked nor gets old, and one that is
\* accepted stays so, unless the phone uses it.
LEMMA AcceptedStays ==
    ASSUME IdentityInv, [IdentityNext]_identityVars, unit.refresh # None, excuse' = {},
           NEW c \in Creds, cred[c] # NoCred, cred[c].family = OwnFamily
    PROVE  /\ ~cred[c].revoked => ~cred'[c].revoked
           /\ ~cred[c].aged => ~cred'[c].aged
           /\ ~cred[c].used /\ cred'[c].used =>
                  c = unit.refresh
                  /\ \E q \in Requests : UseCred(q) /\ request[q] # Quiet /\ request[q].by \in Calls
           /\ Accepted(c) /\ c # unit.refresh => Accepted(c)'
<1> USE IdentityAssumption DEF IdentityInv
<1>1. excuse = {}
  BY NothingWrong
<1>2. ~cred[c].revoked => ~cred'[c].revoked
  BY FlagsMove, NothingWrong
<1>3. ~cred[c].aged => ~cred'[c].aged
  BY FlagsMove, NothingWrong
<1>4. ASSUME NEW q \in Requests, UseCred(q), request[q].cred = c
      PROVE  c = unit.refresh /\ request[q] # Quiet /\ request[q].by \in Calls
  <2>1. request[q] # Quiet /\ FamilyOf(q) = OwnFamily /\ request[q].pc = "use"
    BY <1>4, ServerAnswers DEF UseCred, FamilyOf
  <2>2. request[q].by \in Calls
    BY <1>1, <2>1, OwnersAsk
  <2> QED
    BY <1>4, <2>1, <2>2 DEF FamiliesAgree
<1>5. ~cred[c].used /\ cred'[c].used =>
          c = unit.refresh
          /\ \E q \in Requests : UseCred(q) /\ request[q] # Quiet /\ request[q].by \in Calls
  BY <1>4, FlagsMove
<1>6. cred'[c] # NoCred
  BY CredsGrow
<1> QED
  BY <1>2, <1>3, <1>5, <1>6 DEF Accepted, Live

\* What a call of the phone asks is answered with a credential that is accepted.
LEMMA AnswersAccepted ==
    ASSUME IdentityInv, [IdentityNext]_identityVars, RotationsAgree', unit.refresh # None, excuse' = {},
           NEW q \in Requests, request'[q] # Quiet, request'[q].by \in Calls
    PROVE  /\ request'[q].pc # "revoke"
           /\ request'[q].pc = "answer" => request'[q].result # None /\ Accepted(request[q].result)'
<1> USE IdentityAssumption DEF IdentityInv
<1>t. request \in [Requests -> {Quiet} \cup Handling]
  BY DEF IdentityTypeOK
<1>0. excuse = {} /\ enrolment = "ENROLLED"
  BY NothingWrong
<1>1. CASE request'[q] = request[q]
  <2>1. CASE request[q].pc = "answer"
    <3>1. PICK c \in Creds : c = request[q].result /\ Accepted(c)
      BY <1>0, <1>1, <2>1, RequestCarries DEF KeptAgrees
    <3>2. Renewing(q) /\ FamilyOf(q) = cred[c].family /\ FamilyOf(q) = OwnFamily
      BY <1>1, <2>1, <3>1 DEF Renewing, FamilyOf, FamiliesAgree
    <3>3. c # unit.refresh /\ cred[c] # NoCred
      BY <3>1, <3>2 DEF LatestIsLive, Accepted, Live
    <3>4. Accepted(c)'
      BY <3>1, <3>2, <3>3, AcceptedStays
    <3> QED
      BY <1>1, <2>1, <3>1, <3>4 DEF Accepted, Live
  <2> QED
    BY <1>0, <1>1, <2>1 DEF KeptAgrees
<1>2. ASSUME \/ EndEnrolment(q) \/ DropAnswer(q) \/ LoseRequest(q) \/ GiveUp(q) \/ KillUnit
             \/ \E t \in Tickets : StartEnrolment(t, q)
             \/ \E k \in Calls : Refused(k, q) \/ StoreAccess(k, q)
      PROVE  FALSE
  BY <1>2, RequestLeaves
<1>3. ASSUME NEW k \in Calls, Refresh(k, q), request'[q] # request[q]
      PROVE  request'[q].pc = "read"
  BY <1>3, <1>t DEF Refresh, Request
<1>4. ASSUME CheckTicket(q) \/ Enrol(q) \/ GatewayAnswers(q) \/ ReadCred(q) \/ RevokeFamily(q)
             \/ UseCred(q) \/ Issue(q)
      PROVE  request[q] # Quiet /\ request[q].by \in Calls
  BY <1>4, ServerAnswers
<1>5. ASSUME CheckTicket(q) \/ Enrol(q) \/ GatewayAnswers(q) \/ RevokeFamily(q)
      PROVE  FALSE
  <2>1. ~CheckTicket(q) /\ ~Enrol(q)
    BY <1>4 DEF CheckTicket, Enrol, RotationsAgree
  <2>2. ~RevokeFamily(q)
    BY <1>0, <1>4 DEF RevokeFamily, KeptAgrees
  <2> QED
    BY <1>5, <2>1, <2>2, NothingWrong
<1>6. ASSUME ReadCred(q)
      PROVE  request'[q].pc = "use"
  <2>1. request[q] # Quiet /\ request[q].by \in Calls /\ request[q].pc = "read"
        /\ request[q].cred = unit.refresh /\ call[request[q].by].pc = "refreshing"
    BY <1>4, <1>6 DEF ReadCred, FamiliesAgree, RotationsAgree
  <2>2. ASSUME NEW p \in Requests, Renewing(p)
        PROVE  FALSE
    <3>1. request[p] # Quiet /\ request[p].by \in Calls /\ call[request[p].by].pc = "refreshing"
          /\ request[p].pc # "read"
      BY <2>2 DEF Renewing, RotationsAgree
    <3>2. request[p].by = request[q].by /\ request[p].by # None
      BY <2>1, <3>1 DEF RotationsAgree, Rotation
    <3> QED
      BY <2>1, <3>1, <3>2 DEF RotationsAgree
  <2>3. ASSUME NEW k \in Calls, call[k].pc = "storing"
        PROVE  FALSE
    BY <2>1, <2>3 DEF RotationsAgree, Rotation
  <2>4. LET c == cred[request[q].cred] IN ~c.used /\ ~c.revoked /\ ~c.aged
    BY <1>0, <2>1, <2>2, <2>3 DEF KeptAgrees
  <2>5. request[q] \in [pc : {"read", "revoke", "use"}, by : Askers, cred : Creds]
    BY <2>1, RequestCarries
  <2>6. request'[q] = [request[q] EXCEPT !.pc = "use"]
    BY <1>0, <1>6, <1>t, <2>4 DEF ReadCred, Request
  <2> QED
    BY <2>5, <2>6
<1>7. ASSUME UseCred(q)
      PROVE  request'[q].pc = "issue"
  BY <1>7, <1>t DEF UseCred, Request
<1>8. ASSUME Issue(q)
      PROVE  /\ request'[q].pc = "answer" /\ request'[q].result # None
             /\ Accepted(request[q].result)'
  <2>1. PICK c \in Creds :
            /\ cred'[c] \in CredRow /\ ~cred'[c].used /\ ~cred'[c].revoked /\ ~cred'[c].aged
            /\ request'[q].pc = "answer" /\ request'[q].result = c
    BY <1>8, Issued
  <2>2. cred'[c] # NoCred
    BY <2>1 DEF NoCred, CredRow
  <2> QED
    BY <2>1, <2>2 DEF Accepted, Live
<1> QED
  BY <1>1, <1>2, <1>3, <1>5, <1>6, <1>7, <1>8, OneRequestMoves

\* With nothing to cost them, the phone holds tokens that are accepted, or is about to.
LEMMA KeptStays ==
    ASSUME IdentityInv, [IdentityNext]_identityVars, RotationsAgree', IdentityTypeOK'
    PROVE  KeptAgrees'
<1> USE IdentityAssumption DEF IdentityInv
<1>t. call \in [Calls -> {Quiet} \cup [pc : {"sent", "denied", "refreshing"}, token : Creds]
                    \cup [pc : {"storing"}, token : Creds, fresh : Creds]]
  BY DEF IdentityTypeOK
\* The phone has just got its tokens.
<1>1. ASSUME excuse' = {}, unit.refresh = None
      PROVE  KeptAgrees'
  <2>1. PICK p \in Requests : EndEnrolment(p) /\ request[p].result # None
    BY <1>1, OwnStays DEF KeptAgrees
  <2>2. /\ request[p] # Quiet /\ request[p].pc = "answer" /\ request[p].by = Screen
        /\ request[p].result \in Creds
    BY <2>1, RequestCarries DEF EndEnrolment
  <2> DEFINE c == request[p].result
  <2>3. Founder(p, c)
    BY <2>1, <2>2 DEF FamiliesAgree
  <2>4. /\ unit'.refresh = c /\ cred' = cred /\ enrolment' = enrolment /\ call' = call
        /\ ~cred[c].revoked /\ enrolment = "ENROLLED"
    BY <1>1, <2>1 DEF EndEnrolment
  <2>5. \A k \in Calls : call[k].pc \notin Rotation
    BY <1>1 DEF RotationsAgree
  <2>6. ASSUME NEW q \in Requests, request'[q] # Quiet, request'[q].by \in Calls
        PROVE  FALSE
    <3>1. call'[request'[q].by].pc = "refreshing"
      BY <2>6 DEF RotationsAgree
    <3> QED
      BY <2>4, <2>5, <2>6, <3>1 DEF Rotation
  <2>7. ~cred'[unit'.refresh].used /\ ~cred'[unit'.refresh].aged /\ ~cred'[unit'.refresh].revoked
    BY <2>3, <2>4 DEF Founder
  <2>8. unit'.refresh # None
    BY <2>1, <2>4
  <2>9. \A k \in Calls : call'[k].pc # "storing"
    BY <2>4, <2>5 DEF Rotation
  <2> QED
    BY <2>4, <2>6, <2>7, <2>8, <2>9 DEF KeptAgrees
\* The phone goes on holding tokens.
<1>2. ASSUME excuse' = {}, unit.refresh # None
      PROVE  KeptAgrees'
  <2>0. excuse = {} /\ enrolment' = "ENROLLED"
    BY <1>2, NothingWrong
  <2>o. /\ unit.refresh \in Creds /\ cred[unit.refresh] # NoCred
        /\ ~cred[unit.refresh].revoked /\ ~cred[unit.refresh].aged
    BY <1>2, <2>0, OwnStays DEF KeptAgrees
  <2>1. unit'.refresh # None
    <3>1. ASSUME NEW k \in Calls, NEW q \in Requests, StoreAccess(k, q)
          PROVE  unit'.refresh = unit.refresh
      BY <3>1 DEF StoreAccess, IdentityTypeOK
    <3>2. ASSUME NEW k \in Calls, StoreRefresh(k)
          PROVE  unit'.refresh \in Creds
      BY <3>2, CallHolds DEF StoreRefresh, IdentityTypeOK
    <3> QED
      BY <1>2, <3>1, <3>2, NothingWrong, UnitMoves
  <2>2. ASSUME NEW k \in Calls, StoreRefresh(k)
        PROVE  Accepted(unit.refresh)'
    <3>1. PICK c \in Creds : c = call[k].fresh
      BY <2>2, CallHolds DEF StoreRefresh
    <3>2. unit'.refresh = c /\ cred' = cred /\ Accepted(c)
      BY <2>0, <2>2, <3>1 DEF StoreRefresh, KeptAgrees, IdentityTypeOK
    <3> QED
      BY <3>2 DEF Accepted, Live
  <2>3. ~cred'[unit'.refresh].revoked /\ ~cred'[unit'.refresh].aged
    <3>1. CASE unit'.refresh = unit.refresh
      BY <1>2, <2>o, <3>1, AcceptedStays DEF OwnFamily
    <3>2. ASSUME NEW k \in Calls, StoreRefresh(k)
          PROVE  ~cred'[unit'.refresh].revoked /\ ~cred'[unit'.refresh].aged
      BY <2>2, <3>2 DEF Accepted, Live
    <3> QED
      BY <1>2, <2>1, <3>1, <3>2, OwnStays
  <2>4. ASSUME cred'[unit'.refresh].used
        PROVE  (\E q \in Requests : Renewing(q)') \/ (\E k \in Calls : call'[k].pc = "storing")
    <3>1. \A k \in Calls : ~StoreRefresh(k)
      BY <2>2, <2>4 DEF Accepted, Live
    <3>2. unit'.refresh = unit.refresh
      BY <1>2, <2>1, <3>1, OwnStays
    <3>3. CASE ~cred[unit.refresh].used
      <4>1. PICK q \in Requests : UseCred(q) /\ request[q] # Quiet /\ request[q].by \in Calls
        BY <1>2, <2>4, <2>o, <3>2, <3>3, AcceptedStays DEF OwnFamily
      <4>2. request'[q].pc = "issue" /\ request'[q] # Quiet /\ request'[q].by = request[q].by
        <5>1. request'[q].pc = "issue"
          BY <4>1 DEF UseCred, Request, IdentityTypeOK
        <5> QED
          BY <4>1, <5>1, ServerAnswers
      <4> QED
        BY <4>1, <4>2 DEF Renewing
    <3>4. ASSUME NEW q \in Requests, Renewing(q)
          PROVE  Renewing(q)' \/ \E k \in Calls : call'[k].pc = "storing"
      <4>1. ASSUME NEW k \in Calls, StoreAccess(k, q)
            PROVE  call'[k].pc = "storing"
        BY <4>1, <1>t DEF StoreAccess, Calling
      <4> QED
        BY <1>2, <3>4, <4>1, RenewalGoesOn
    <3>5. ASSUME NEW k \in Calls, call[k].pc = "storing"
          PROVE  call'[k].pc = "storing"
      BY <1>2, <3>1, <3>5, StoringGoesOn
    <3> QED
      BY <2>0, <3>3, <3>4, <3>5 DEF KeptAgrees
  <2>5. ASSUME NEW k \in Calls, call'[k].pc = "storing"
        PROVE  Accepted(call[k].fresh)'
    <3>1. ASSUME NEW q \in Requests, StoreAccess(k, q)
          PROVE  Accepted(call[k].fresh)'
      <4>1. /\ call'[k].fresh = request[q].result /\ cred' = cred
            /\ request[q].pc = "answer" /\ request[q].by = k
        BY <3>1, <1>t DEF StoreAccess, Calling
      <4>2. request[q] # Quiet
        BY <4>1, RequestCarries
      <4>3. Accepted(request[q].result)
        BY <2>0, <4>1, <4>2 DEF KeptAgrees
      <4> QED
        BY <4>1, <4>3 DEF Accepted, Live
    <3>2. CASE call'[k] = call[k]
      <4>1. PICK c \in Creds : c = call[k].fresh /\ cred[c] # NoCred /\ Accepted(c)
                               /\ cred[c].family = OwnFamily /\ c # unit.refresh
        BY <2>0, <2>5, <3>2, CallHolds DEF KeptAgrees, CredsAgree, FamiliesAgree, LatestIsLive, Accepted, Live
      <4>2. Accepted(c)'
        BY <1>2, <4>1, AcceptedStays
      <4> QED
        BY <3>2, <4>1, <4>2 DEF Accepted, Live
    <3> QED
      BY <2>5, <3>1, <3>2, OneCallMoves
  <2> QED
    BY <1>2, <2>0, <2>1, <2>3, <2>4, <2>5, AnswersAccepted DEF KeptAgrees
<1> QED
  BY <1>1, <1>2 DEF KeptAgrees

\* A family holds one credential in force: the one held, or the one about to replace it.
LEMMA OneOfItsFamily ==
    ASSUME IdentityTypeOK, RotationsAgree, FamiliesAgree, LatestIsLive
    PROVE  OneLiveInFamily
<1> SUFFICES ASSUME {"unanswered", "killed"} \cap excuse = {}, unit.refresh # None,
                    NEW c \in InFamily(OwnFamily), NEW d \in InFamily(OwnFamily), Live(c), Live(d)
             PROVE  c = d
  BY DEF OneLiveInFamily
<1> DEFINE Next(q, e) == Renewing(q) /\ request[q].pc = "answer" /\ request[q].result = e
           Last(k, e) == call[k].pc = "storing" /\ call[k].fresh = e
<1>1. \A e \in {c, d} : \/ e = unit.refresh /\ ~cred[unit.refresh].used
                        \/ \E q \in Requests : Next(q, e)
                        \/ \E k \in Calls : Last(k, e)
  BY DEF LatestIsLive, Live
<1>2. ASSUME NEW q \in Requests, Renewing(q)
      PROVE  /\ cred[unit.refresh].used /\ request[q] # Quiet /\ request[q].by \in Calls
             /\ request[q].by # None /\ call[request[q].by].pc = "refreshing"
  BY <1>2, IdentityAssumption DEF Renewing, LatestIsLive, RotationsAgree
<1>3. ASSUME NEW k \in Calls, call[k].pc = "storing"
      PROVE  cred[unit.refresh].used
  BY <1>3 DEF LatestIsLive
<1>4. ASSUME NEW p \in Requests, NEW q \in Requests, Renewing(p), Renewing(q)
      PROVE  p = q
  <2>1. request[p].by = request[q].by
    BY <1>2, <1>4 DEF RotationsAgree, Rotation
  <2> QED
    BY <1>2, <1>4, <2>1 DEF RotationsAgree
<1>5. ASSUME NEW q \in Requests, Renewing(q), NEW k \in Calls, call[k].pc = "storing"
      PROVE  FALSE
  BY <1>2, <1>5 DEF RotationsAgree, Rotation
<1>6. ASSUME NEW j \in Calls, NEW k \in Calls, call[j].pc = "storing", call[k].pc = "storing"
      PROVE  j = k
  BY <1>6 DEF RotationsAgree, Rotation
<1> QED
  BY <1>1, <1>2, <1>3, <1>4, <1>5, <1>6

\* What the steps keep, from which the rest follows.
IdentityAgrees ==
    IdentityTypeOK /\ TicketsAgree /\ RotationsAgree /\ CredsAgree /\ FamiliesAgree
    /\ LatestIsLive /\ KeptAgrees

\* The three promises follow from what the steps keep.
LEMMA IdentityFollows == IdentityAgrees => IdentityInv
<1> SUFFICES ASSUME IdentityAgrees
             PROVE  IdentityInv
  OBVIOUS
<1> USE DEF IdentityAgrees
<1>1. KeptWithoutCause
  BY DEF KeptWithoutCause, KeptAgrees
<1>2. OneUseByTicket
  BY DEF OneUseByTicket, TicketsAgree, IdentityTypeOK
<1>3. OneLiveInFamily
  BY OneOfItsFamily
<1> QED
  BY <1>1, <1>2, <1>3 DEF IdentityInv

\* Every step keeps it.
LEMMA IdentityStays ==
    ASSUME IdentityInv, [IdentityNext]_identityVars
    PROVE  IdentityAgrees'
<1>1. IdentityTypeOK'
  BY IdentityTypesHold
<1>2. TicketsAgree' /\ RotationsAgree'
  BY TicketsStay, RotationsStay
<1>3. CredsAgree'
  BY <1>1, CredsStay
<1>4. FamiliesAgree' /\ LatestIsLive'
  BY <1>2, FamiliesStay, LatestStays
<1>5. KeptAgrees'
  BY <1>1, <1>2, KeptStays
<1> QED
  BY <1>1, <1>2, <1>3, <1>4, <1>5 DEF IdentityAgrees

\* A phone that was never enrolled is in that state.
LEMMA IdentityStarts == IdentityInit => IdentityAgrees
<1> SUFFICES ASSUME IdentityInit
             PROVE  IdentityAgrees
  OBVIOUS
<1> USE IdentityAssumption DEF IdentityInit
<1>1. /\ \A q \in Requests : request[q] = Quiet /\ request[q].pc = "idle"
      /\ \A k \in Calls : call[k] = Quiet /\ call[k].pc = "idle"
      /\ \A c \in Creds : cred[c] = NoCred /\ cred[c].family = None
      /\ unit.access = None /\ unit.refresh = None
      /\ \A t \in Tickets : enrolled[t].times = 0
      /\ excuse = {"new"}
  BY DEF Quiet, NoCred, Stranger
<1>2. IdentityTypeOK
  BY DEF IdentityTypeOK, Stranger
<1>3. TicketsAgree
  BY <1>1 DEF TicketsAgree, Enrolling
<1>4. RotationsAgree
  BY <1>1 DEF RotationsAgree, Rotation
<1>5. \A q \in Requests : FamilyOf(q) = None
  BY <1>1 DEF FamilyOf
<1>6. CredsAgree
  BY <1>1, <1>5 DEF CredsAgree
<1>7. FamiliesAgree
  BY <1>1 DEF FamiliesAgree
<1>8. LatestIsLive
  BY <1>1 DEF LatestIsLive, Renewing
<1>9. KeptAgrees
  BY <1>1 DEF KeptAgrees
<1> QED
  BY <1>2, <1>3, <1>4, <1>6, <1>7, <1>8, <1>9 DEF IdentityAgrees

\* A phone keeps one identity: it loses its tokens after one of the causes the code knows,
\* a label enrols once, unless two enrolments overlap, and one credential of its family is
\* in force as long as every rotation is answered.
THEOREM IdentityKept == IdentitySpec => []IdentityInv
<1>1. IdentityInit => IdentityAgrees
  BY IdentityStarts
<1>2. IdentityAgrees /\ [IdentityNext]_identityVars => IdentityAgrees'
  BY IdentityFollows, IdentityStays
<1>3. IdentityAgrees => IdentityInv
  BY IdentityFollows
<1> QED
  BY <1>1, <1>2, <1>3, PTL DEF IdentitySpec
=============================================================================
