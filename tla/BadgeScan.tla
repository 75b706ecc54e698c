----------------------------- MODULE BadgeScan -----------------------------
(***************************************************************************)
(* Whom a badge lets in: the rows of `badges`, the drivers and their       *)
(* assignments, the administrators who change them, and the controls a     *)
(* scan goes through on the server.  A request reads the phone, then the   *)
(* badge and its driver; an administrator reads a row, then writes it.     *)
(***************************************************************************)
EXTENDS Integers

CONSTANTS
    Phones, Drivers,
    Badges,     \* rows of `badges`
    Barcodes,   \* normalised numbers
    Scanners,   \* requests handled at once
    Editors     \* administrators

VARIABLES
    nominative, \* the setting requireDeviceAssignment of the company
    badge,      \* the rows of `badges`
    driver,     \* users.status
    assigned,   \* device_assignments in force, <<driver, phone>>
    enrolled,   \* phones enrolled and not revoked
    scan,       \* where each request is
    edit        \* the status each administrator has still to write

badgeVars == <<nominative, badge, driver, assigned, enrolled, scan, edit>>

\* INACTIVE stands for LOST too.
Statuses == {"ACTIVE", "INACTIVE", "REVOKED"}
NoRow == [status |-> "none"]
Waiting == [pc |-> "idle"]
Nothing == [status |-> "none"]

BadgeTypeOK ==
    /\ nominative \in BOOLEAN
    /\ badge \in [Badges -> {NoRow} \cup
                           [code : Barcodes, user : Drivers, status : Statuses]]
    /\ driver \in [Drivers -> {"ACTIVE", "INACTIVE", "ARCHIVED"}]
    /\ assigned \subseteq Drivers \X Phones /\ enrolled \subseteq Phones
    /\ scan \in [Scanners -> {Waiting} \cup
           [pc : {"device", "badge"}, phone : Phones, code : Barcodes,
            dead : SUBSET Badges] \cup
           [pc : {"assignment", "granted"}, phone : Phones, row : Badges, user : Drivers,
            dead : SUBSET Badges] \cup
           [pc : {"refused"}, active : BOOLEAN]]
    /\ edit \in [Editors -> {Nothing} \cup [row : Badges, status : Statuses]]

BadgeInit ==
    /\ nominative \in BOOLEAN
    /\ badge = [b \in Badges |-> NoRow]
    /\ driver = [u \in Drivers |-> "ACTIVE"]
    /\ assigned = {} /\ enrolled = Phones
    /\ scan = [r \in Scanners |-> Waiting]
    /\ edit = [a \in Editors |-> Nothing]

Rows(c) == {b \in Badges : badge[b].status # "none" /\ badge[b].code = c}

-----------------------------------------------------------------------------
(* The scan: barcode-auth.service.ts *)

Scan(r, s) == scan' = [scan EXCEPT ![r] = s]

Present(r, p, c) ==
    /\ scan[r] = Waiting
    /\ Scan(r, [pc |-> "device", phone |-> p, code |-> c,
                dead |-> {b \in Badges : badge[b].status = "REVOKED"}])
    /\ UNCHANGED <<nominative, badge, driver, assigned, enrolled, edit>>

\* A phone that is not enrolled is refused at once (DEVICE_UNAVAILABLE).
ReadDevice(r) ==
    /\ scan[r].pc = "device"
    /\ Scan(r, IF scan[r].phone \in enrolled
               THEN [scan[r] EXCEPT !.pc = "badge"]
               ELSE [pc |-> "refused", active |-> FALSE])
    /\ UNCHANGED <<nominative, badge, driver, assigned, enrolled, edit>>

\* Mutant: the status of the badge is not looked at.
AdmitsAnyStatus(b) == driver[badge[b].user] = "ACTIVE"

\* The controls of a badge that is found, and of its driver.
Admits(b) == badge[b].status = "ACTIVE" /\ driver[badge[b].user] = "ACTIVE"

Authorized(u, p) == nominative => <<u, p>> \in assigned

\* Some row of the number would be admitted.
SomeAdmitted(c, p) == \E b \in Rows(c) : Admits(b) /\ Authorized(badge[b].user, p)

\* badge.findFirst by company and hash: no status, no order.
ReadBadge(r) ==
    /\ scan[r].pc = "badge"
    /\ LET p == scan[r].phone
           c == scan[r].code
       IN  \/ Rows(c) = {} /\ Scan(r, [pc |-> "refused", active |-> FALSE])
           \/ \E b \in Rows(c) :
                  Scan(r, IF Admits(b)
                          THEN [pc |-> "assignment", phone |-> p, row |-> b,
                                user |-> badge[b].user, dead |-> scan[r].dead]
                          ELSE [pc |-> "refused", active |-> SomeAdmitted(c, p)])
    /\ UNCHANGED <<nominative, badge, driver, assigned, enrolled, edit>>

\* The assignment is asked for only when the company requires it.
ReadAssignment(r) ==
    /\ scan[r].pc = "assignment"
    /\ Scan(r, IF Authorized(scan[r].user, scan[r].phone)
               THEN [scan[r] EXCEPT !.pc = "granted"]
               ELSE [pc |-> "refused", active |-> FALSE])
    /\ UNCHANGED <<nominative, badge, driver, assigned, enrolled, edit>>

\* The session is opened (ServerSessions) or the refusal counted (RateLimiter).
Reply(r) ==
    /\ scan[r].pc \in {"granted", "refused"}
    /\ Scan(r, Waiting)
    /\ UNCHANGED <<nominative, badge, driver, assigned, enrolled, edit>>

-----------------------------------------------------------------------------
(* Badges, drivers and phones: badges.service.ts, users.service.ts *)

Edit(a, e) == edit' = [edit EXCEPT ![a] = e]

\* The partial unique index: one row in force by code.
CreateBadge(a, b, c, u) ==
    /\ edit[a] = Nothing
    /\ badge[b] = NoRow
    /\ \A d \in Rows(c) : badge[d].status = "REVOKED"
    /\ badge' = [badge EXCEPT ![b] = [code |-> c, user |-> u, status |-> "ACTIVE"]]
    /\ UNCHANGED <<nominative, driver, assigned, enrolled, scan, edit>>

\* setStatus reads: a revoked badge stays revoked,
ReadBadgeStatus(a, b, status) ==
    /\ edit[a] = Nothing /\ badge[b].status # "none"
    /\ badge[b].status = "REVOKED" => status = "REVOKED"
    /\ Edit(a, [row |-> b, status |-> status])
    /\ UNCHANGED <<nominative, badge, driver, assigned, enrolled, scan>>

\* Another row of the number is in force: the partial unique index refuses this one.
Clashes(e) == /\ e.status # "REVOKED"
              /\ \E d \in Rows(badge[e.row].code) \ {e.row} : badge[d].status # "REVOKED"

\* then writes.
WriteBadgeStatus(a) ==
    /\ edit[a] # Nothing
    /\ badge' = IF Clashes(edit[a]) THEN badge
                ELSE [badge EXCEPT ![edit[a].row].status = edit[a].status]
    /\ Edit(a, Nothing)
    /\ UNCHANGED <<nominative, driver, assigned, enrolled, scan>>

Reassign(a, b, u) ==
    /\ edit[a] = Nothing /\ badge[b].status # "none" /\ badge[b].user # u
    /\ badge' = [badge EXCEPT ![b].user = u]
    /\ UNCHANGED <<nominative, driver, assigned, enrolled, scan, edit>>

SetUserStatus(a, u, status) ==
    /\ edit[a] = Nothing /\ driver[u] # status
    /\ driver' = [driver EXCEPT ![u] = status]
    /\ UNCHANGED <<nominative, badge, assigned, enrolled, scan, edit>>

\* assignDevice, unassignDevice
Assign(a, u, p) ==
    /\ edit[a] = Nothing /\ <<u, p>> \notin assigned
    /\ assigned' = assigned \cup {<<u, p>>}
    /\ UNCHANGED <<nominative, badge, driver, enrolled, scan, edit>>

Unassign(a, u, p) ==
    /\ edit[a] = Nothing /\ <<u, p>> \in assigned
    /\ assigned' = assigned \ {<<u, p>>}
    /\ UNCHANGED <<nominative, badge, driver, enrolled, scan, edit>>

\* anonymize: the sessions in force are left open.
Anonymize(a, u) ==
    /\ edit[a] = Nothing
    /\ badge' = [b \in Badges |-> IF badge[b].status # "none" /\ badge[b].user = u
                                  THEN [badge[b] EXCEPT !.status = "REVOKED"] ELSE badge[b]]
    /\ assigned' = {x \in assigned : x[1] # u}
    /\ driver' = [driver EXCEPT ![u] = "ARCHIVED"]
    /\ UNCHANGED <<nominative, enrolled, scan, edit>>

RevokePhone(p) ==
    /\ p \in enrolled
    /\ enrolled' = enrolled \ {p}
    /\ UNCHANGED <<nominative, badge, driver, assigned, scan, edit>>

-----------------------------------------------------------------------------

BadgeNext ==
    \/ \E r \in Scanners :
           \/ \E p \in Phones, c \in Barcodes : Present(r, p, c)
           \/ ReadDevice(r) \/ ReadBadge(r) \/ ReadAssignment(r) \/ Reply(r)
    \/ \E a \in Editors :
           \/ WriteBadgeStatus(a)
           \/ \E b \in Badges, u \in Drivers : Reassign(a, b, u)
           \/ \E b \in Badges, c \in Barcodes, u \in Drivers : CreateBadge(a, b, c, u)
           \/ \E b \in Badges, s \in Statuses : ReadBadgeStatus(a, b, s)
           \/ \E u \in Drivers : Anonymize(a, u)
           \/ \E u \in Drivers, s \in {"ACTIVE", "INACTIVE"} : SetUserStatus(a, u, s)
           \/ \E u \in Drivers, p \in Phones : Assign(a, u, p) \/ Unassign(a, u, p)
    \/ \E p \in Phones : RevokePhone(p)

BadgeSpec == BadgeInit /\ [][BadgeNext]_badgeVars

-----------------------------------------------------------------------------
(* Properties *)

\* A badge that was revoked, by hand or with its driver, before the scan reached
\* the server lets nobody in, nor does it get as far as the assignment.
RevokedOpensNothing ==
    \A r \in Scanners :
        scan[r].pc \in {"assignment", "granted"} => scan[r].row \notin scan[r].dead

\* The badges a scan found revoked still are.
DeadStayRevoked ==
    \A r \in Scanners : scan[r].pc \in {"device", "badge", "assignment", "granted"} =>
        \A b \in scan[r].dead : badge[b].status = "REVOKED"

\* The status an administrator has still to write is that of a badge that exists, and
\* was not revoked since it was read, unless the administrator revokes it.
WritesAgree ==
    \A a \in Editors : edit[a] # Nothing =>
        /\ badge[edit[a].row].status # "none"
        /\ badge[edit[a].row].status = "REVOKED" => edit[a].status = "REVOKED"

\* Types, and what a revoked badge opens.
BadgeInv == BadgeTypeOK /\ RevokedOpensNothing /\ DeadStayRevoked /\ WritesAgree

-----------------------------------------------------------------------------
(* Expected of the code, and not held by it: README.md tells which constants   *)
(* show it.                                                                    *)

\* A revoked badge is never in force again.
RevokedIsFinal ==
    [][\A b \in Badges : badge[b].status = "REVOKED" => badge'[b].status = "REVOKED"]_badgeVars

\* A number registered anew, after its first badge was revoked, lets its driver in.
ActiveBadgeAdmitted ==
    \A r \in Scanners : scan[r].pc = "refused" => ~scan[r].active
=============================================================================
