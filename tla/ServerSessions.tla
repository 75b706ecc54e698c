--------------------------- MODULE ServerSessions ---------------------------
(***************************************************************************)
(* The rows of `sessions`, one in force by phone and by driver.  A scan    *)
(* the controls admitted (BadgeScan) opens one; an administrator, the      *)
(* worker that expires sessions and the reports of the phones end them.    *)
(* Each reads first and writes later, and the others run in between.       *)
(***************************************************************************)
EXTENDS Integers, Sequences

CONSTANTS
    Handsets, Holders,  \* phones and drivers
    Openings,           \* admitted scans handled at once
    Closers,            \* administrators
    MaxOpened         \* bound of the rows of `sessions`

VARIABLES
    fragile,      \* whether the worker may end between two statements
    sess,         \* the rows of `sessions`
    phoneState,   \* devices.state
    opening,      \* the transaction of each scan
    expiring,     \* sessions expireOverdue has read
    toOrder,      \* sessions whose FORCE_LOGOUT the worker has still to enqueue
    orders,       \* the FORCE_LOGOUT of each session, by idempotency key
    ending        \* what each administrator is ending

jobs == <<expiring, toOrder, orders>>
sessionVars == <<fragile, sess, phoneState, opening, expiring, toOrder, orders, ending>>

ASSUME SessionBoundAssumption == MaxOpened \in Nat

Sids == 1..MaxOpened
LogoutKeys == {"session-expired", "force-logout"}
NotOpening == [pc |-> "idle"]
NotEnding == [pc |-> "idle"]

SessionRow == [phone : Handsets, user : Holders, over : BOOLEAN,
               status : {"ACTIVE", "ENDED", "REVOKED", "EXPIRED"}]

SessionTypeOK ==
    /\ fragile \in BOOLEAN
    /\ sess \in Seq(SessionRow)
    /\ Len(sess) <= MaxOpened
    /\ phoneState \in [Handsets -> {"UNKNOWN", "LOCKED", "ACTIVE", "LOCKING"}]
    /\ opening \in [Openings -> {NotOpening} \cup
                    [pc : {"open", "opened"}, phone : Handsets, user : Holders]]
    /\ expiring \subseteq DOMAIN sess /\ toOrder \subseteq DOMAIN sess
    /\ orders \in [Sids \X LogoutKeys -> {"none", "pending", "done"}]
    /\ ending \in [Closers -> {NotEnding} \cup [pc : {"write", "order"}, sid : Sids]]

SessionInit ==
    /\ fragile \in BOOLEAN
    /\ sess = <<>> /\ phoneState = [p \in Handsets |-> "UNKNOWN"]
    /\ opening = [r \in Openings |-> NotOpening]
    /\ expiring = {} /\ toOrder = {} /\ orders = [k \in Sids \X LogoutKeys |-> "none"]
    /\ ending = [a \in Closers |-> NotEnding]

-----------------------------------------------------------------------------
(* Opening: barcode-auth.service.ts *)

Opening(r, o) == opening' = [opening EXCEPT ![r] = o]

\* Scans are alike: the first one free begins.
Begins(r) == opening[r] = NotOpening /\ r = CHOOSE q \in Openings : opening[q] = NotOpening

\* Bound: a scan is admitted while there is room for its row.
Admitted(r, p, u) ==
    /\ Begins(r) /\ Len(sess) < MaxOpened
    /\ Opening(r, [pc |-> "open", phone |-> p, user |-> u])
    /\ UNCHANGED <<fragile, sess, phoneState, jobs, ending>>

\* Sessions in force that satisfy a condition get a status.
EndAll(i, ends, status) == IF sess[i].status = "ACTIVE" /\ ends
                           THEN [sess[i] EXCEPT !.status = status] ELSE sess[i]

\* Mutant: the session of the driver on another phone is left open.
OpenOnPhone(r) ==
    /\ opening[r].pc = "open" /\ Len(sess) < MaxOpened
    /\ LET p == opening[r].phone  u == opening[r].user
       IN  /\ sess' = Append([i \in DOMAIN sess |->
                                 EndAll(i, sess[i].phone = p, "ENDED")],
                             [phone |-> p, user |-> u, over |-> FALSE, status |-> "ACTIVE"])
           /\ phoneState' = [phoneState EXCEPT ![p] = "ACTIVE"]
    /\ Opening(r, [opening[r] EXCEPT !.pc = "opened"])
    /\ UNCHANGED <<fragile, jobs, ending>>

\* The transaction: the session of the phone and that of the driver end.
Open(r) ==
    /\ opening[r].pc = "open" /\ Len(sess) < MaxOpened
    /\ LET p == opening[r].phone  u == opening[r].user
       IN  /\ sess' = Append([i \in DOMAIN sess |->
                                 EndAll(i, sess[i].phone = p \/ sess[i].user = u, "ENDED")],
                             [phone |-> p, user |-> u, over |-> FALSE, status |-> "ACTIVE"])
           /\ phoneState' = [phoneState EXCEPT ![p] = "ACTIVE"]
    /\ Opening(r, [opening[r] EXCEPT !.pc = "opened"])
    /\ UNCHANGED <<fragile, jobs, ending>>

\* Two transactions overlap: a partial unique index refuses the second row.
OpenConflicts(r) ==
    /\ opening[r].pc = "open"
    /\ \E q \in Openings \ {r} :
           /\ opening[q].pc \in {"open", "opened"}
           /\ opening[q].phone = opening[r].phone \/ opening[q].user = opening[r].user
    /\ Opening(r, NotOpening)
    /\ UNCHANGED <<fragile, sess, phoneState, jobs, ending>>

\* clearFailures, and the answer.
Answer(r) ==
    /\ opening[r].pc = "opened"
    /\ Opening(r, NotOpening)
    /\ UNCHANGED <<fragile, sess, phoneState, jobs, ending>>

-----------------------------------------------------------------------------
(* The end of a session: sessions.service.ts, its controller, the worker and *)
(* the reports of the phones                                                  *)

\* enqueue: an order is created once for its key.
Order(i, key) ==
    orders' = [orders EXCEPT ![<<i, key>>] = IF @ = "none" THEN "pending" ELSE @]

Outlasted == {i \in DOMAIN sess : sess[i].status = "ACTIVE" /\ sess[i].over}

TimePasses(i) ==
    /\ i \in DOMAIN sess /\ ~sess[i].over
    /\ sess' = [sess EXCEPT ![i].over = TRUE]
    /\ UNCHANGED <<fragile, phoneState, opening, jobs, ending>>

\* expireOverdue reads,
ReadOverdue ==
    /\ expiring = {} /\ toOrder = {} /\ Outlasted # {}
    /\ expiring' = Outlasted
    /\ UNCHANGED <<fragile, sess, phoneState, opening, toOrder, orders, ending>>

\* then writes what it has read, whatever has happened since,
Expire ==
    /\ expiring # {}
    /\ sess' = [i \in DOMAIN sess |->
                   IF i \in expiring THEN [sess[i] EXCEPT !.status = "EXPIRED"] ELSE sess[i]]
    /\ phoneState' = [p \in Handsets |-> IF \E i \in expiring : sess[i].phone = p
                                       THEN "LOCKING" ELSE phoneState[p]]
    /\ toOrder' = expiring /\ expiring' = {}
    /\ UNCHANGED <<fragile, opening, orders, ending>>

\* and orders the logout of each phone; the key of idempotency is the session.
OrderLogout(i) ==
    /\ i \in toOrder
    /\ toOrder' = toOrder \ {i}
    /\ Order(i, "session-expired")
    /\ UNCHANGED <<fragile, sess, phoneState, opening, expiring, ending>>

WorkerCrash ==
    /\ fragile /\ expiring \cup toOrder # {}
    /\ expiring' = {} /\ toOrder' = {}
    /\ UNCHANGED <<fragile, sess, phoneState, opening, orders, ending>>

Ending(a, e) == ending' = [ending EXCEPT ![a] = e]

\* end: a session that is not active any more is left alone, and its logout is
\* ordered all the same.
EndRead(a, i) ==
    /\ ending[a] = NotEnding /\ i \in DOMAIN sess
    /\ Ending(a, [pc |-> IF sess[i].status = "ACTIVE" THEN "write" ELSE "order", sid |-> i])
    /\ UNCHANGED <<fragile, sess, phoneState, opening, jobs>>

EndWrite(a) ==
    /\ ending[a].pc = "write"
    /\ LET i == ending[a].sid
       IN  /\ sess' = [sess EXCEPT ![i].status = "ENDED"]
           /\ phoneState' = [phoneState EXCEPT ![sess[i].phone] = "LOCKED"]
           /\ Ending(a, [pc |-> "order", sid |-> i])
    /\ UNCHANGED <<fragile, opening, jobs>>

EndOrder(a) ==
    /\ ending[a].pc = "order"
    /\ Order(ending[a].sid, "force-logout")
    /\ Ending(a, NotEnding)
    /\ UNCHANGED <<fragile, sess, phoneState, opening, expiring, toOrder>>

\* applySideEffects: whatever session the phone has.
Logout(p, status) ==
    /\ sess' = [i \in DOMAIN sess |-> EndAll(i, sess[i].phone = p, status)]
    /\ phoneState' = [phoneState EXCEPT ![p] = "LOCKED"]

LogoutReported(i, key) ==
    /\ orders[<<i, key>>] = "pending"
    /\ orders' = [orders EXCEPT ![<<i, key>>] = "done"]
    /\ Logout(sess[i].phone, "REVOKED")
    /\ UNCHANGED <<fragile, opening, expiring, toOrder, ending>>

ScheduledLockReported(p) ==
    /\ Logout(p, "ENDED")
    /\ UNCHANGED <<fragile, opening, jobs, ending>>

-----------------------------------------------------------------------------

Expiry == ReadOverdue \/ Expire \/ \E i \in Sids : OrderLogout(i)

SessionNext ==
    \/ \E r \in Openings :
           \/ \E p \in Handsets, u \in Holders : Admitted(r, p, u)
           \/ Open(r) \/ OpenConflicts(r) \/ Answer(r)
    \/ \E a \in Closers :
           \/ \E i \in Sids : EndRead(a, i)
           \/ EndWrite(a) \/ EndOrder(a)
    \/ \E i \in Sids : TimePasses(i) \/ \E key \in LogoutKeys : LogoutReported(i, key)
    \/ \E p \in Handsets : ScheduledLockReported(p)
    \/ Expiry \/ WorkerCrash

SessionSpec == SessionInit /\ [][SessionNext]_sessionVars

-----------------------------------------------------------------------------
(* Properties *)

\* Whatever scans, ends, expiries and reports overlap, a phone has one session in
\* force at most, and so has a driver.
OneSession ==
    \A i, j \in DOMAIN sess :
        /\ sess[i].status = "ACTIVE" /\ sess[j].status = "ACTIVE"
        /\ sess[i].phone = sess[j].phone \/ sess[i].user = sess[j].user
        => i = j

\* A phone is told to log out for a session only once the server has ended it.
LogoutAfterEnd ==
    \A i \in DOMAIN sess :
        (\E key \in LogoutKeys : orders[<<i, key>>] # "none") => sess[i].status # "ACTIVE"

\* Unless the worker ends, the phone of an expired session is ordered to log out.
LogoutOrdered ==
    ~fragile =>
        \A i \in DOMAIN sess :
            sess[i].status = "EXPIRED" => i \in toOrder \/ orders[<<i, "session-expired">>] # "none"

\* What is carried from a read to a write is about rows that exist, and what is to
\* be ordered, or was, about rows that are not in force any more.
EndsAreKnown ==
    /\ expiring = {} \/ toOrder = {}
    /\ \A i \in toOrder : sess[i].status # "ACTIVE"
    /\ \A i \in Sids, key \in LogoutKeys : orders[<<i, key>>] # "none" => i \in DOMAIN sess
    /\ \A a \in Closers : ending[a] # NotEnding =>
           /\ ending[a].sid \in DOMAIN sess
           /\ ending[a].pc = "order" => sess[ending[a].sid].status # "ACTIVE"

\* One session in force, and the phone of one that ended is told, not before.
SessionInv == SessionTypeOK /\ OneSession /\ LogoutAfterEnd /\ LogoutOrdered /\ EndsAreKnown
=============================================================================
