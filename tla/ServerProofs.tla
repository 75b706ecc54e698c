---------------------------- MODULE ServerProofs ----------------------------
(***************************************************************************)
(* Proofs about parts of the server, for every set of phones, drivers,     *)
(* administrators, companies and requests handled at once: its sessions,   *)
(* the isolation of its companies, the badges it admits, the limits of     *)
(* the scans, the companies of Trajelys, the alerts, and how an            *)
(* administrator comes in and stays.                                       *)
(***************************************************************************)
EXTENDS ServerSessions, AlertQueue, TenantIsolation, BadgeScan, RateLimiter, TrajelysLink,
        DashboardSession, FiniteSetTheorems, TLAPS

-----------------------------------------------------------------------------
(* Sessions *)

\* The rows, by their numbers.
LEMMA RowsByNumber ==
    ASSUME SessionTypeOK
    PROVE  /\ Len(sess) \in 0..MaxOpened /\ DOMAIN sess = 1..Len(sess)
           /\ DOMAIN sess \subseteq Sids
           /\ \A i \in DOMAIN sess : sess[i] \in SessionRow
<1>1. sess \in Seq(SessionRow) /\ Len(sess) <= MaxOpened
  BY DEF SessionTypeOK
<1> QED
  BY <1>1, SessionBoundAssumption DEF Sids

\* The rows keep their numbers when some change.
LEMMA RowsReplaced ==
    ASSUME SessionTypeOK, NEW rows, rows = [i \in DOMAIN sess |-> rows[i]],
           \A i \in DOMAIN sess : rows[i] \in SessionRow
    PROVE  rows \in Seq(SessionRow) /\ Len(rows) = Len(sess) /\ DOMAIN rows = DOMAIN sess
<1>1. rows \in [1..Len(sess) -> SessionRow] /\ Len(sess) \in Nat /\ DOMAIN sess = 1..Len(sess)
  BY RowsByNumber, SessionBoundAssumption
<1> QED
  BY <1>1

\* A session that ends: the row stays a row, and none comes into force.
LEMMA EndedRow ==
    ASSUME SessionTypeOK, NEW i \in DOMAIN sess, NEW ends \in BOOLEAN,
           NEW status \in {"ENDED", "REVOKED"}
    PROVE  LET row == EndAll(i, ends, status)
           IN  /\ row \in SessionRow
               /\ row.phone = sess[i].phone /\ row.user = sess[i].user
               /\ row.status = "ACTIVE" <=> sess[i].status = "ACTIVE" /\ ~ends
               /\ row.status = "EXPIRED" <=> sess[i].status = "EXPIRED"
<1>1. sess[i] \in SessionRow
  BY RowsByNumber
<1> QED
  BY <1>1 DEF EndAll, SessionRow

\* Ending the sessions of a phone.
LEMMA LogoutRows ==
    ASSUME SessionTypeOK, NEW p \in Handsets, NEW status \in {"ENDED", "REVOKED"},
           Logout(p, status)
    PROVE  /\ sess' \in Seq(SessionRow) /\ Len(sess') = Len(sess) /\ DOMAIN sess' = DOMAIN sess
           /\ \A i \in DOMAIN sess :
                  /\ sess'[i].phone = sess[i].phone /\ sess'[i].user = sess[i].user
                  /\ sess'[i].status = "ACTIVE" => sess[i].status = "ACTIVE"
                  /\ sess'[i].status = "EXPIRED" <=> sess[i].status = "EXPIRED"
           /\ phoneState' \in [Handsets -> {"UNKNOWN", "LOCKED", "ACTIVE", "LOCKING"}]
<1>1. \A i \in DOMAIN sess : sess'[i] = EndAll(i, sess[i].phone = p, status)
  BY DEF Logout
<1>2. sess' = [i \in DOMAIN sess |-> sess'[i]]
  BY DEF Logout
<1>3. \A i \in DOMAIN sess : sess'[i] \in SessionRow
  BY <1>1, EndedRow
<1>4. sess' \in Seq(SessionRow) /\ Len(sess') = Len(sess) /\ DOMAIN sess' = DOMAIN sess
  BY <1>2, <1>3, RowsReplaced
<1> QED
  BY <1>1, <1>4, EndedRow, ZenonT(30) DEF Logout, SessionTypeOK

\* Opening a session: those of its phone and of its driver end, and its row is the last.
LEMMA OpenRows ==
    ASSUME SessionTypeOK, NEW r \in Openings, Open(r)
    PROVE  /\ sess' \in Seq(SessionRow) /\ Len(sess') = Len(sess) + 1 /\ Len(sess') <= MaxOpened
           /\ DOMAIN sess' = DOMAIN sess \cup {Len(sess')} /\ Len(sess') \notin DOMAIN sess
           /\ \A i \in DOMAIN sess :
                  /\ sess'[i].phone = sess[i].phone /\ sess'[i].user = sess[i].user
                  /\ sess'[i].status = "ACTIVE" =>
                        /\ sess[i].status = "ACTIVE"
                        /\ sess[i].phone # sess'[Len(sess')].phone
                        /\ sess[i].user # sess'[Len(sess')].user
                  /\ sess'[i].status = "EXPIRED" <=> sess[i].status = "EXPIRED"
           /\ sess'[Len(sess')].status = "ACTIVE"
<1> DEFINE p == opening[r].phone
           u == opening[r].user
           rows == [i \in DOMAIN sess |-> EndAll(i, sess[i].phone = p \/ sess[i].user = u, "ENDED")]
           new == [phone |-> p, user |-> u, over |-> FALSE, status |-> "ACTIVE"]
<1>1. p \in Handsets /\ u \in Holders
  BY DEF Open, SessionTypeOK, NotOpening
<1>2. new \in SessionRow
  BY <1>1 DEF SessionRow
<1>3. \A i \in DOMAIN sess : rows[i] \in SessionRow
  BY EndedRow
<1>4. rows \in Seq(SessionRow) /\ Len(rows) = Len(sess) /\ DOMAIN rows = DOMAIN sess
  BY <1>3, RowsReplaced
<1>5. sess' = Append(rows, new) /\ Len(sess) < MaxOpened
  BY DEF Open
<1>6. Len(sess) \in Nat /\ DOMAIN sess = 1..Len(sess)
  BY RowsByNumber
<1> HIDE DEF rows, new
<1>7. /\ sess' \in Seq(SessionRow) /\ Len(sess') = Len(sess) + 1
      /\ DOMAIN sess' = DOMAIN sess \cup {Len(sess')}
      /\ sess'[Len(sess')] = new /\ \A i \in DOMAIN sess : sess'[i] = rows[i]
  BY <1>2, <1>4, <1>5, <1>6
<1>8. \A i \in DOMAIN sess : rows[i] = EndAll(i, sess[i].phone = p \/ sess[i].user = u, "ENDED")
  BY DEF rows
<1>9. new.phone = p /\ new.user = u /\ new.status = "ACTIVE"
  BY DEF new
<1> HIDE DEF p, u
<1>10. ASSUME NEW i \in DOMAIN sess
       PROVE  /\ sess'[i].phone = sess[i].phone /\ sess'[i].user = sess[i].user
              /\ sess'[i].status = "ACTIVE" =>
                    /\ sess[i].status = "ACTIVE" /\ sess[i].phone # p /\ sess[i].user # u
              /\ sess'[i].status = "EXPIRED" <=> sess[i].status = "EXPIRED"
  <2>1. sess'[i] = EndAll(i, sess[i].phone = p \/ sess[i].user = u, "ENDED")
    BY <1>7, <1>8
  <2>2. (sess[i].phone = p \/ sess[i].user = u) \in BOOLEAN
    OBVIOUS
  <2>3. /\ sess'[i].phone = sess[i].phone /\ sess'[i].user = sess[i].user
        /\ sess'[i].status = "ACTIVE" =>
              sess[i].status = "ACTIVE" /\ ~ (sess[i].phone = p \/ sess[i].user = u)
        /\ sess'[i].status = "EXPIRED" <=> sess[i].status = "EXPIRED"
    BY <2>1, <2>2, EndedRow, ZenonT(30)
  <2> QED
    BY <2>3
<1> QED
  BY <1>5, <1>6, <1>7, <1>9, <1>10, SessionBoundAssumption

\* Writing the status of one row, or of several.
LEMMA ExpiredRows ==
    ASSUME SessionTypeOK, Expire
    PROVE  /\ sess' \in Seq(SessionRow) /\ Len(sess') = Len(sess) /\ DOMAIN sess' = DOMAIN sess
           /\ \A i \in DOMAIN sess :
                  /\ sess'[i].phone = sess[i].phone /\ sess'[i].user = sess[i].user
                  /\ sess'[i].status = IF i \in expiring THEN "EXPIRED" ELSE sess[i].status
<1>1. \A i \in DOMAIN sess :
          sess'[i] = IF i \in expiring THEN [sess[i] EXCEPT !.status = "EXPIRED"] ELSE sess[i]
  BY DEF Expire
<1>2. sess' = [i \in DOMAIN sess |-> sess'[i]]
  BY DEF Expire
<1>3. \A i \in DOMAIN sess : sess[i] \in SessionRow
  BY RowsByNumber
<1>4. \A i \in DOMAIN sess : sess'[i] \in SessionRow
  BY <1>1, <1>3 DEF SessionRow
<1>5. sess' \in Seq(SessionRow) /\ Len(sess') = Len(sess) /\ DOMAIN sess' = DOMAIN sess
  BY <1>2, <1>4, RowsReplaced
<1> QED
  BY <1>1, <1>3, <1>5 DEF SessionRow

LEMMA EndedRows ==
    ASSUME SessionTypeOK, NEW j \in DOMAIN sess, sess' = [sess EXCEPT ![j].status = "ENDED"]
    PROVE  /\ sess' \in Seq(SessionRow) /\ Len(sess') = Len(sess) /\ DOMAIN sess' = DOMAIN sess
           /\ \A i \in DOMAIN sess :
                  /\ sess'[i].phone = sess[i].phone /\ sess'[i].user = sess[i].user
                  /\ sess'[i].status = IF i = j THEN "ENDED" ELSE sess[i].status
<1>1. \A i \in DOMAIN sess : sess[i] \in SessionRow
  BY RowsByNumber
<1>2. \A i \in DOMAIN sess : sess'[i] = IF i = j THEN [sess[i] EXCEPT !.status = "ENDED"] ELSE sess[i]
  OBVIOUS
<1>3. \A i \in DOMAIN sess : sess'[i] \in SessionRow
  BY <1>1, <1>2 DEF SessionRow
<1>4. sess' = [i \in DOMAIN sess |-> sess'[i]]
  BY RowsByNumber
<1>5. sess' \in Seq(SessionRow) /\ Len(sess') = Len(sess) /\ DOMAIN sess' = DOMAIN sess
  BY <1>3, <1>4, RowsReplaced
<1> QED
  BY <1>1, <1>2, <1>5 DEF SessionRow

\* When no row comes into force, none is expired and none is renumbered, and neither
\* the worker nor the administrators move, what was agreed still is.
LEMMA RowsOnlyEnd ==
    ASSUME SessionInv, UNCHANGED <<fragile, opening, ending>>,
           sess' \in Seq(SessionRow), Len(sess') = Len(sess), DOMAIN sess' = DOMAIN sess,
           \A i \in DOMAIN sess :
               /\ sess'[i].phone = sess[i].phone /\ sess'[i].user = sess[i].user
               /\ sess'[i].status = "ACTIVE" => sess[i].status = "ACTIVE"
               /\ sess'[i].status = "EXPIRED" => sess[i].status = "EXPIRED",
           phoneState' \in [Handsets -> {"UNKNOWN", "LOCKED", "ACTIVE", "LOCKING"}],
           UNCHANGED <<expiring, toOrder>>,
           orders' \in [Sids \X LogoutKeys -> {"none", "pending", "done"}],
           \A i \in Sids, key \in LogoutKeys : orders'[<<i, key>>] = "none" <=> orders[<<i, key>>] = "none"
    PROVE  SessionInv'
<1> USE DEF SessionInv
<1>0. DOMAIN sess \subseteq Sids
  BY RowsByNumber
<1>1. SessionTypeOK'
  BY DEF SessionTypeOK
<1>2. OneSession'
  BY DEF OneSession
<1>3. LogoutAfterEnd'
  BY <1>0 DEF LogoutAfterEnd
<1>4. LogoutOrdered'
  BY <1>0 DEF LogoutOrdered, LogoutKeys
<1>5. EndsAreKnown'
  <2>1. \A a \in Closers : ending[a] # NotEnding => ending[a].sid \in DOMAIN sess
    BY DEF EndsAreKnown
  <2>2. \A i \in toOrder : i \in DOMAIN sess
    BY DEF SessionTypeOK
  <2> QED
    BY <2>1, <2>2 DEF EndsAreKnown
<1> QED
  BY <1>1, <1>2, <1>3, <1>4, <1>5

\* The scans: a transaction leaves one session in force by phone and by driver.
LEMMA OpeningStep ==
    ASSUME SessionInv, NEW r \in Openings,
           \/ \E p \in Handsets, u \in Holders : Admitted(r, p, u)
           \/ Open(r) \/ OpenConflicts(r) \/ Answer(r)
    PROVE  SessionInv'
<1> USE DEF SessionInv
<1>1. CASE Open(r)
  <2>1. DOMAIN sess \subseteq Sids /\ DOMAIN sess' \subseteq Sids
    BY <1>1, OpenRows, RowsByNumber DEF Sids
  <2>2. SessionTypeOK'
    <3>1. opening[r].pc = "open" /\ opening[r] \in [pc : {"open", "opened"}, phone : Handsets, user : Holders]
      BY <1>1 DEF Open, SessionTypeOK, NotOpening
    <3> QED
      BY <1>1, <3>1, OpenRows DEF Open, Opening, SessionTypeOK, jobs
  <2>3. OneSession'
    BY <1>1, OpenRows DEF OneSession
  <2>4. LogoutAfterEnd'
    <3>1. orders' = orders
      BY <1>1 DEF Open, jobs
    <3>2. ASSUME NEW i \in DOMAIN sess', NEW key \in LogoutKeys, orders[<<i, key>>] # "none"
          PROVE  sess'[i].status # "ACTIVE"
      <4>1. i \in DOMAIN sess /\ sess[i].status # "ACTIVE"
        BY <2>1, <3>2 DEF LogoutAfterEnd, EndsAreKnown
      <4> QED
        BY <1>1, <4>1, OpenRows
    <3> QED
      BY <3>1, <3>2 DEF LogoutAfterEnd
  <2>5. LogoutOrdered'
    BY <1>1, <2>1, OpenRows DEF LogoutOrdered, Open, jobs
  <2>6. EndsAreKnown'
    <3>1. \A a \in Closers : ending[a] # NotEnding => ending[a].sid \in DOMAIN sess
      BY DEF EndsAreKnown
    <3>2. \A i \in toOrder : i \in DOMAIN sess
      BY DEF SessionTypeOK
    <3> QED
      BY <1>1, <3>1, <3>2, OpenRows DEF EndsAreKnown, Open, jobs
  <2> QED
    BY <2>2, <2>3, <2>4, <2>5, <2>6
<1>2. CASE (\E p \in Handsets, u \in Holders : Admitted(r, p, u)) \/ OpenConflicts(r) \/ Answer(r)
  <2>1. /\ opening' \in [Openings -> {NotOpening} \cup
                         [pc : {"open", "opened"}, phone : Handsets, user : Holders]]
        /\ UNCHANGED <<fragile, sess, phoneState, jobs, ending>>
    BY <1>2 DEF Admitted, OpenConflicts, Answer, Opening, SessionTypeOK
  <2> QED
    BY <2>1 DEF jobs, SessionTypeOK, OneSession, LogoutAfterEnd, LogoutOrdered, EndsAreKnown
<1> QED
  BY <1>1, <1>2

\* The worker: the logout of a session it has expired is ordered, or it has ended.
LEMMA WorkerStep ==
    ASSUME SessionInv, Expiry \/ WorkerCrash
    PROVE  SessionInv'
<1> USE DEF SessionInv
<1>0. DOMAIN sess \subseteq Sids
  BY RowsByNumber
<1>1. CASE ReadOverdue
  BY <1>1 DEF ReadOverdue, Outlasted, SessionTypeOK, OneSession, LogoutAfterEnd, LogoutOrdered,
              EndsAreKnown
<1>2. CASE Expire
  <2>1. expiring \subseteq DOMAIN sess /\ toOrder = {} /\ expiring # {}
    BY <1>2 DEF Expire, EndsAreKnown, SessionTypeOK
  <2>2. phoneState' \in [Handsets -> {"UNKNOWN", "LOCKED", "ACTIVE", "LOCKING"}]
    BY <1>2 DEF Expire, SessionTypeOK
  <2>3. SessionTypeOK'
    BY <1>2, <2>1, <2>2, ExpiredRows DEF Expire, SessionTypeOK
  <2>4. OneSession'
    BY <1>2, ExpiredRows DEF OneSession
  <2>5. LogoutAfterEnd' /\ LogoutOrdered'
    <3>1. toOrder' = expiring /\ UNCHANGED <<fragile, orders>>
      BY <1>2 DEF Expire
    <3>2. \A i \in DOMAIN sess :
              /\ sess'[i].status = "ACTIVE" => sess[i].status = "ACTIVE"
              /\ sess'[i].status = "EXPIRED" => i \in expiring \/ sess[i].status = "EXPIRED"
      BY <1>2, ExpiredRows
    <3>3. DOMAIN sess' = DOMAIN sess
      BY <1>2, ExpiredRows
    <3>4. LogoutAfterEnd'
      BY <3>1, <3>2, <3>3 DEF LogoutAfterEnd
    <3>5. LogoutOrdered'
      BY <2>1, <3>1, <3>2, <3>3 DEF LogoutOrdered
    <3> QED
      BY <3>4, <3>5
  <2>6. EndsAreKnown'
    BY <1>2, <2>1, ExpiredRows DEF EndsAreKnown, Expire
  <2> QED
    BY <2>3, <2>4, <2>5, <2>6
<1>3. ASSUME NEW i \in Sids, OrderLogout(i)
      PROVE  SessionInv'
  <2>1. i \in toOrder /\ toOrder \subseteq DOMAIN sess /\ sess[i].status # "ACTIVE"
    BY <1>3 DEF OrderLogout, SessionTypeOK, EndsAreKnown
  <2>2. orders' = [orders EXCEPT ![<<i, "session-expired">>] = IF @ = "none" THEN "pending" ELSE @]
    BY <1>3 DEF OrderLogout, Order
  <2>3. SessionTypeOK'
    BY <1>3, <2>2 DEF OrderLogout, SessionTypeOK, LogoutKeys
  <2>4. \A j \in Sids, key \in LogoutKeys :
            orders'[<<j, key>>] # "none" => orders[<<j, key>>] # "none" \/ j = i
    BY <2>2 DEF SessionTypeOK, LogoutKeys
  <2>5. \A j \in Sids : orders[<<j, "session-expired">>] # "none" \/ j = i => orders'[<<j, "session-expired">>] # "none"
    BY <2>2 DEF SessionTypeOK, LogoutKeys
  <2>6. OneSession' /\ LogoutAfterEnd'
    BY <1>0, <1>3, <2>1, <2>4 DEF OrderLogout, OneSession, LogoutAfterEnd
  <2>7. LogoutOrdered'
    BY <1>0, <1>3, <2>5 DEF OrderLogout, LogoutOrdered
  <2>8. EndsAreKnown'
    BY <1>3, <2>1, <2>4 DEF OrderLogout, EndsAreKnown
  <2> QED
    BY <2>3, <2>6, <2>7, <2>8
<1>4. CASE WorkerCrash
  BY <1>4 DEF WorkerCrash, SessionTypeOK, OneSession, LogoutAfterEnd, LogoutOrdered, EndsAreKnown
<1> QED
  BY <1>1, <1>2, <1>3, <1>4 DEF Expiry

\* The administrators.
LEMMA EndingStep ==
    ASSUME SessionInv, NEW a \in Closers,
           (\E i \in Sids : EndRead(a, i)) \/ EndWrite(a) \/ EndOrder(a)
    PROVE  SessionInv'
<1> USE DEF SessionInv
<1>0. DOMAIN sess \subseteq Sids
  BY RowsByNumber
<1>1. ASSUME NEW i \in Sids, EndRead(a, i)
      PROVE  SessionInv'
  BY <1>1 DEF EndRead, Ending, jobs, SessionTypeOK, OneSession, LogoutAfterEnd, LogoutOrdered,
              EndsAreKnown, NotEnding
<1>2. CASE EndWrite(a)
  <2> DEFINE j == ending[a].sid
  <2>1. j \in DOMAIN sess /\ j \in Sids
    BY <1>0, <1>2 DEF EndWrite, EndsAreKnown, NotEnding
  <2>2. sess' = [sess EXCEPT ![j].status = "ENDED"]
    BY <1>2 DEF EndWrite
  <2>3. sess[j] \in SessionRow
    BY <2>1, RowsByNumber
  <2>4. /\ phoneState' \in [Handsets -> {"UNKNOWN", "LOCKED", "ACTIVE", "LOCKING"}]
        /\ ending' = [ending EXCEPT ![a] = [pc |-> "order", sid |-> j]]
        /\ UNCHANGED <<fragile, opening, expiring, toOrder, orders>>
    BY <1>2, <2>3 DEF EndWrite, Ending, jobs, SessionTypeOK, SessionRow
  <2>5. SessionTypeOK'
    BY <2>1, <2>2, <2>4, EndedRows DEF SessionTypeOK
  <2>6. OneSession' /\ LogoutAfterEnd' /\ LogoutOrdered'
    BY <2>1, <2>2, <2>4, EndedRows DEF OneSession, LogoutAfterEnd, LogoutOrdered
  <2>7. EndsAreKnown'
    <3>1. \A i \in toOrder : i \in DOMAIN sess
      BY DEF SessionTypeOK
    <3>2. \A b \in Closers : ending[b] # NotEnding => ending[b].sid \in DOMAIN sess
      BY DEF EndsAreKnown
    <3> QED
      BY <2>1, <2>2, <2>4, <3>1, <3>2, EndedRows DEF EndsAreKnown, SessionTypeOK
  <2> QED
    BY <2>5, <2>6, <2>7
<1>3. CASE EndOrder(a)
  <2> DEFINE i == ending[a].sid
  <2>1. i \in DOMAIN sess /\ i \in Sids /\ sess[i].status # "ACTIVE"
    BY <1>0, <1>3 DEF EndOrder, EndsAreKnown, NotEnding
  <2>2. orders' = [orders EXCEPT ![<<i, "force-logout">>] = IF @ = "none" THEN "pending" ELSE @]
    BY <1>3 DEF EndOrder, Order
  <2>3. SessionTypeOK'
    BY <1>3, <2>1, <2>2 DEF EndOrder, Ending, SessionTypeOK, LogoutKeys
  <2>4. \A j \in Sids, key \in LogoutKeys :
            orders'[<<j, key>>] # "none" => orders[<<j, key>>] # "none" \/ j = i
    BY <2>2 DEF SessionTypeOK, LogoutKeys
  <2>5. \A j \in Sids : orders'[<<j, "session-expired">>] = orders[<<j, "session-expired">>]
    BY <2>2 DEF SessionTypeOK, LogoutKeys
  <2>6. OneSession' /\ LogoutAfterEnd'
    BY <1>0, <1>3, <2>1, <2>4 DEF EndOrder, OneSession, LogoutAfterEnd
  <2>7. LogoutOrdered'
    BY <1>0, <1>3, <2>5 DEF EndOrder, LogoutOrdered
  <2>8. EndsAreKnown'
    BY <1>3, <2>1, <2>4 DEF EndOrder, Ending, EndsAreKnown, SessionTypeOK, NotEnding
  <2> QED
    BY <2>3, <2>6, <2>7, <2>8
<1> QED
  BY <1>1, <1>2, <1>3

\* Whatever scans, ends, expiries, crashes of the worker and reports overlap, a phone and
\* a driver have one session in force at most; a phone is told to log out once its
\* session is over, and always is while the worker runs (sessions.service.ts).
THEOREM SessionsAgree == SessionSpec => []SessionInv
<1>1. SessionInit => SessionInv
  BY SessionBoundAssumption
  DEF SessionInit, SessionInv, SessionTypeOK, OneSession, LogoutAfterEnd, LogoutOrdered, EndsAreKnown
<1>2. SessionInv /\ [SessionNext]_sessionVars => SessionInv'
  <2> SUFFICES ASSUME SessionInv, [SessionNext]_sessionVars
               PROVE  SessionInv'
    OBVIOUS
  <2>1. ASSUME NEW i \in Sids, TimePasses(i)
        PROVE  SessionInv'
    <3>1. i \in DOMAIN sess /\ \A j \in DOMAIN sess : sess[j] \in SessionRow
      BY <2>1, RowsByNumber DEF TimePasses, SessionInv
    <3>2. sess' = [sess EXCEPT ![i].over = TRUE]
      BY <2>1 DEF TimePasses
    <3>3. sess' = [j \in DOMAIN sess |-> sess'[j]] /\ \A j \in DOMAIN sess : sess'[j] \in SessionRow
      BY <3>1, <3>2, RowsByNumber DEF SessionRow, SessionInv
    <3>4. sess' \in Seq(SessionRow) /\ Len(sess') = Len(sess) /\ DOMAIN sess' = DOMAIN sess
      BY <3>3, RowsReplaced DEF SessionInv
    <3>5. \A j \in DOMAIN sess : /\ sess'[j].phone = sess[j].phone /\ sess'[j].user = sess[j].user
                                 /\ sess'[j].status = sess[j].status
      BY <3>1, <3>2
    <3> QED
      BY <2>1, <3>4, <3>5, RowsOnlyEnd DEF TimePasses, jobs, SessionInv, SessionTypeOK
  <2>2. ASSUME NEW i \in Sids, NEW key \in LogoutKeys, LogoutReported(i, key)
        PROVE  SessionInv'
    <3>1. i \in DOMAIN sess
      BY <2>2 DEF LogoutReported, SessionInv, EndsAreKnown
    <3>2. sess[i].phone \in Handsets
      BY <3>1, RowsByNumber DEF SessionInv, SessionRow
    <3>3. /\ orders' \in [Sids \X LogoutKeys -> {"none", "pending", "done"}]
          /\ \A j \in Sids, k \in LogoutKeys : orders'[<<j, k>>] = "none" <=> orders[<<j, k>>] = "none"
      BY <2>2 DEF LogoutReported, SessionInv, SessionTypeOK
    <3> QED
      BY <2>2, <3>2, <3>3, LogoutRows, RowsOnlyEnd DEF LogoutReported, SessionInv
  <2>3. ASSUME NEW p \in Handsets, ScheduledLockReported(p)
        PROVE  SessionInv'
    BY <2>3, LogoutRows, RowsOnlyEnd DEF ScheduledLockReported, jobs, SessionInv, SessionTypeOK
  <2>4. CASE UNCHANGED sessionVars
    BY <2>4 DEF sessionVars, SessionInv, SessionTypeOK, OneSession, LogoutAfterEnd, LogoutOrdered,
                EndsAreKnown
  <2> QED
    BY <2>1, <2>2, <2>3, <2>4, OpeningStep, EndingStep, WorkerStep DEF SessionNext
<1> QED
  BY <1>1, <1>2, PTL DEF SessionSpec

-----------------------------------------------------------------------------
(* Companies *)

\* A request that is let in, filtered, sees and writes rows of its company only.
LEMMA FilteredRows ==
    ASSUME IsolationInv, NEW f \in Flights, flight[f].pc = "route", ~Crossing(f),
           NEW wanted \in SUBSET Records, NEW r \in mergeWhere(f, wanted)
    PROVE  r \in Records /\ owner[r] = flight[f].company /\ owner[r] # NoFirm
<1>1. context[f].store /\ ~context[f].cross /\ context[f].company = flight[f].company
  BY DEF IsolationInv, ContextAgrees
<1> QED
  BY <1>1, IsolationAssumption, Zenon DEF mergeWhere, Unfiltered

\* A request that takes another step keeps the invariant of the others.
LEMMA OneFlight ==
    ASSUME IsolationInv, NEW f \in Flights, NEW x, NEW y,
           UNCHANGED <<owner, listed, bearer>>,
           flight' = [flight EXCEPT ![f] = x],
           context' = [context EXCEPT ![f] = y],
           touched' = [touched EXCEPT ![f] = {}],
           x \in [door : HttpDoors \cup {"job", "none"}, pc : {"idle", "guard", "route"},
                  company : Owners, row : Records \cup {NoFirm}],
           y \in Contexts,
           x.pc \in {"idle", "guard"} => x.company = NoFirm,
           x.pc = "guard" => x.door # "job" /\ ~y.cross,
           x.pc # "idle" => y.store /\ y.company = x.company,
           x.pc = "route" =>
               (y.cross <=> (x.door = "job" \/ (x.door = "admin" /\ x.company = NoFirm)))
    PROVE  IsolationInv'
<1> USE DEF IsolationInv
<1>1. \A g \in Flights : /\ g = f => flight'[g] = x /\ context'[g] = y /\ touched'[g] = {}
                         /\ g # f => /\ flight'[g] = flight[g] /\ context'[g] = context[g]
                                     /\ touched'[g] = touched[g]
  BY DEF IsolationTypeOK
<1>2. IsolationTypeOK'
  BY DEF IsolationTypeOK
<1>3. ContextAgrees'
  BY <1>1 DEF ContextAgrees, Crossing
<1>4. Isolated'
  BY <1>1 DEF Isolated, Crossing
<1> QED
  BY <1>2, <1>3, <1>4

\* What the guard decides: the door and the company, once, and the context of the request.
LEMMA GuardStep ==
    ASSUME IsolationInv, NEW f \in Flights,
           \/ \E door \in HttpDoors : OpenRequest(f, door)
           \/ OpenJob(f) \/ canActivate(f) \/ refuse(f) \/ endRequest(f)
           \/ \E b \in Bearers : authenticateAdmin(f, b) \/ authenticateDevice(f, b)
    PROVE  IsolationInv'
<1> USE DEF FlightAt, Adopt
<1>0. /\ flight \in [Flights -> [door : HttpDoors \cup {"job", "none"},
                                 pc : {"idle", "guard", "route", "owned"},
                                 company : Owners, row : Records \cup {NoFirm}]]
      /\ context \in [Flights -> Contexts]
      /\ touched \in [Flights -> SUBSET Owners]
      /\ flight[f].pc \in {"idle", "guard"} => flight[f].company = NoFirm /\ touched[f] = {}
      /\ flight[f].pc = "guard" => /\ flight[f].door # "job" /\ ~context[f].cross
                                  /\ context[f].store /\ context[f].company = flight[f].company
  BY DEF IsolationInv, IsolationTypeOK, ContextAgrees
<1>1. /\ Landed \in [door : HttpDoors \cup {"job", "none"}, pc : {"idle", "guard", "route"},
                     company : Owners, row : Records \cup {NoFirm}]
      /\ Landed.pc = "idle" /\ Landed.company = NoFirm
      /\ OutOfRequest \in Contexts /\ Opened \in Contexts /\ System \in Contexts
      /\ Opened.store /\ Opened.company = NoFirm /\ ~Opened.cross
  BY DEF Landed, OutOfRequest, Opened, System, Contexts, Owners
<1>2. touched[f] = {} => touched = [touched EXCEPT ![f] = {}]
  BY <1>0
<1>3. ASSUME NEW door \in HttpDoors, OpenRequest(f, door)
      PROVE  IsolationInv'
  <2> DEFINE x == [Landed EXCEPT !.door = door, !.pc = "guard"]
  <2>1. /\ x \in [door : HttpDoors \cup {"job", "none"}, pc : {"idle", "guard", "route"},
                  company : Owners, row : Records \cup {NoFirm}]
        /\ x.pc = "guard" /\ x.company = NoFirm /\ x.door # "job"
    BY <1>3, <1>1 DEF HttpDoors, Landed
  <2>2. /\ UNCHANGED <<owner, listed, bearer>> /\ touched[f] = {}
        /\ flight' = [flight EXCEPT ![f] = x] /\ context' = [context EXCEPT ![f] = Opened]
        /\ touched' = [touched EXCEPT ![f] = {}]
    BY <1>0, <1>2, <1>3 DEF OpenRequest, NextFree
  <2> HIDE DEF x
  <2> QED
    BY <1>0, <1>1, <2>1, <2>2, OneFlight
<1>4. CASE OpenJob(f)
  <2> DEFINE x == [Landed EXCEPT !.door = "job", !.pc = "route"]
  <2>1. /\ x \in [door : HttpDoors \cup {"job", "none"}, pc : {"idle", "guard", "route"},
                  company : Owners, row : Records \cup {NoFirm}]
        /\ x.pc = "route" /\ x.company = NoFirm /\ x.door = "job"
    BY <1>4, <1>1 DEF HttpDoors, Landed
  <2>2. /\ UNCHANGED <<owner, listed, bearer>> /\ touched[f] = {}
        /\ flight' = [flight EXCEPT ![f] = x] /\ context' = [context EXCEPT ![f] = System]
        /\ touched' = [touched EXCEPT ![f] = {}]
    BY <1>0, <1>2, <1>4 DEF OpenJob, NextFree
  <2>3. System.store /\ System.company = NoFirm /\ System.cross
    BY DEF System
  <2> HIDE DEF x
  <2> QED
    BY <1>0, <1>1, <2>1, <2>2, <2>3, OneFlight
<1>5. CASE canActivate(f)
  <2> DEFINE x == [flight[f] EXCEPT !.pc = "route"]
             y == context[f]
  <2>1. flight[f].pc = "guard" /\ flight[f].door \in {"public", "service"}
    BY <1>5 DEF canActivate
  <2>2. /\ UNCHANGED <<owner, listed, bearer>> /\ flight' = [flight EXCEPT ![f] = x]
        /\ context' = [context EXCEPT ![f] = y] /\ touched' = [touched EXCEPT ![f] = {}]
    BY <1>0, <1>2, <1>5, <2>1 DEF canActivate
  <2>3. /\ x \in [door : HttpDoors \cup {"job", "none"}, pc : {"idle", "guard", "route"},
                  company : Owners, row : Records \cup {NoFirm}]
        /\ x.pc = "route" /\ x.company = NoFirm /\ x.door \in {"public", "service"}
    BY <1>0, <2>1
  <2>4. y \in Contexts /\ y.store /\ y.company = NoFirm /\ ~y.cross
    BY <1>0, <2>1
  <2> HIDE DEF x, y
  <2> QED
    BY <2>2, <2>3, <2>4, OneFlight
<1>6. CASE refuse(f) \/ endRequest(f)
  <2>1. /\ UNCHANGED <<owner, listed, bearer>>
        /\ flight' = [flight EXCEPT ![f] = Landed] /\ context' = [context EXCEPT ![f] = OutOfRequest]
        /\ touched' = [touched EXCEPT ![f] = {}]
    BY <1>6 DEF refuse, endRequest, Land
  <2> QED
    BY <1>1, <2>1, OneFlight
<1>7. ASSUME NEW b \in Bearers, authenticateAdmin(f, b) \/ authenticateDevice(f, b)
      PROVE  IsolationInv'
  <2>1. PICK cross \in BOOLEAN :
            /\ context' = [context EXCEPT ![f] = [store |-> TRUE, company |-> bearer[b].company,
                                                  cross |-> cross]]
            /\ cross <=> (flight[f].door = "admin" /\ bearer[b].company = NoFirm)
    BY <1>7 DEF authenticateAdmin, authenticateDevice
  <2>2. bearer[b].company \in Owners
    BY DEF IsolationInv, IsolationTypeOK
  <2> DEFINE x == [flight[f] EXCEPT !.pc = "route", !.company = bearer[b].company]
             y == [store |-> TRUE, company |-> bearer[b].company, cross |-> cross]
  <2>3. flight[f].pc = "guard" /\ flight[f].door # "job" /\ touched[f] = {}
    BY <1>0, <1>7 DEF authenticateAdmin, authenticateDevice
  <2>4. /\ UNCHANGED <<owner, listed, bearer>> /\ touched' = [touched EXCEPT ![f] = {}]
        /\ flight' = [flight EXCEPT ![f] = x]
    BY <1>0, <1>2, <1>7 DEF authenticateAdmin, authenticateDevice
  <2>5. /\ x \in [door : HttpDoors \cup {"job", "none"}, pc : {"idle", "guard", "route"},
                  company : Owners, row : Records \cup {NoFirm}]
        /\ x.pc = "route" /\ x.company = bearer[b].company /\ x.door = flight[f].door
    BY <1>0, <2>2
  <2>6. y \in Contexts /\ y.store /\ y.company = bearer[b].company /\ (y.cross <=> cross)
    BY <2>2 DEF Contexts
  <2>7. context' = [context EXCEPT ![f] = y]
    BY <2>1
  <2> HIDE DEF x, y
  <2>8. /\ x.pc = "route" =>
              (y.cross <=> (x.door = "job" \/ (x.door = "admin" /\ x.company = NoFirm)))
        /\ x.pc # "idle" => y.store /\ y.company = x.company
        /\ x.pc = "guard" => x.door # "job" /\ ~y.cross
        /\ x.pc \in {"idle", "guard"} => x.company = NoFirm
    BY <2>1, <2>3, <2>5, <2>6
  <2> QED
    BY <2>4, <2>5, <2>6, <2>7, <2>8, OneFlight
<1> QED
  BY <1>3, <1>4, <1>5, <1>6, <1>7

\* A query that touches rows its request may touch keeps its isolation, and an owner that
\* changes is given to a row nobody held, or taken from a row that is deleted.
LEMMA TouchedRows ==
    ASSUME IsolationInv, NEW f \in Flights, NEW some \in SUBSET Owners,
           touched' = [touched EXCEPT ![f] = @ \cup some],
           flight[f].pc \in {"route", "owned"},
           Crossing(f) \/ some \subseteq ({flight[f].company} \ {NoFirm}),
           \/ flight' = flight
           \/ \E row \in Records \cup {NoFirm}, pc \in {"route", "owned"} :
                 flight' = [flight EXCEPT ![f].pc = pc, ![f].row = row],
           flight'[f].pc = "owned" =>
               /\ flight'[f].row \in Records /\ owner'[flight'[f].row] # NoFirm
               /\ Crossing(f) \/ owner'[flight'[f].row] \in {flight[f].company, Deleted},
           owner' \in [Records -> Owners \cup {Deleted}],
           \A r \in Records : owner[r] = NoFirm \/ owner'[r] \in {owner[r], Deleted},
           UNCHANGED <<listed, bearer, context>>
    PROVE  IsolationInv'
<1>1. /\ flight \in [Flights -> [door : HttpDoors \cup {"job", "none"},
                                 pc : {"idle", "guard", "route", "owned"},
                                 company : Owners, row : Records \cup {NoFirm}]]
      /\ touched \in [Flights -> SUBSET Owners] /\ owner \in [Records -> Owners \cup {Deleted}]
      /\ ContextAgrees /\ Isolated /\ IsolationTypeOK
  BY DEF IsolationInv, IsolationTypeOK
<1>2. \A g \in Flights : /\ flight'[g].door = flight[g].door /\ flight'[g].company = flight[g].company
                         /\ g # f => flight'[g] = flight[g] /\ touched'[g] = touched[g]
                         /\ g = f => touched'[g] = touched[g] \cup some
  BY <1>1
<1>3. flight'[f].pc \in {"route", "owned"}
  BY <1>1
<1>4. flight' \in [Flights -> [door : HttpDoors \cup {"job", "none"},
                               pc : {"idle", "guard", "route", "owned"},
                               company : Owners, row : Records \cup {NoFirm}]]
  BY <1>1
<1>5. IsolationTypeOK'
  <2>1. touched' \in [Flights -> SUBSET Owners]
    BY <1>1
  <2> QED
    BY <1>1, <1>4, <2>1 DEF IsolationTypeOK
<1>6. \A g \in Flights : Crossing(g)' <=> Crossing(g)
  BY <1>2 DEF Crossing
<1>7. Isolated'
  BY <1>1, <1>2, <1>6 DEF Isolated
<1>8. ASSUME NEW g \in Flights, g # f, flight[g].pc = "owned"
      PROVE  /\ flight[g].row \in Records /\ owner'[flight[g].row] # NoFirm
             /\ Crossing(g) \/ owner'[flight[g].row] \in {flight[g].company, Deleted}
  <2>1. /\ flight[g].row \in Records /\ owner[flight[g].row] # NoFirm
        /\ Crossing(g) \/ owner[flight[g].row] \in {flight[g].company, Deleted}
    BY <1>1, <1>8 DEF ContextAgrees
  <2>2. owner'[flight[g].row] \in {owner[flight[g].row], Deleted}
    BY <2>1
  <2> QED
    BY <2>1, <2>2 DEF NoFirm, Deleted
<1>9. ContextAgrees'
  <2> SUFFICES ASSUME NEW g \in Flights
               PROVE  /\ flight'[g].pc \in {"idle", "guard"} =>
                            flight'[g].company = NoFirm /\ touched'[g] = {}
                      /\ flight'[g].pc = "guard" => flight'[g].door # "job" /\ ~context'[g].cross
                      /\ flight'[g].pc # "idle" =>
                            context'[g].store /\ context'[g].company = flight'[g].company
                      /\ flight'[g].pc \in {"route", "owned"} => (context'[g].cross <=> Crossing(g)')
                      /\ flight'[g].pc = "owned" =>
                            /\ flight'[g].row \in Records /\ owner'[flight'[g].row] # NoFirm
                            /\ Crossing(g)' \/ owner'[flight'[g].row] \in {flight'[g].company, Deleted}
    BY DEF ContextAgrees
  <2>1. CASE g = f
    BY <1>1, <1>2, <1>3, <1>6, <2>1 DEF ContextAgrees
  <2>2. CASE g # f
    BY <1>1, <1>2, <1>6, <1>8, <2>2 DEF ContextAgrees
  <2> QED
    BY <2>1, <2>2
<1> QED
  BY <1>5, <1>7, <1>9 DEF IsolationInv

\* What a query touches is of the company of its request.
LEMMA QueryStep ==
    ASSUME IsolationInv, NEW f \in Flights,
           \/ \E wanted \in SUBSET Records : findMany(f, wanted)
           \/ \E r \in Records : findOwned(f, r) \/ \E c \in Owners : create(f, r, c)
           \/ update(f) \/ delete(f)
    PROVE  IsolationInv'
<1> USE DEF FlightAt
<1>0. /\ flight \in [Flights -> [door : HttpDoors \cup {"job", "none"},
                                 pc : {"idle", "guard", "route", "owned"},
                                 company : Owners, row : Records \cup {NoFirm}]]
      /\ touched \in [Flights -> SUBSET Owners] /\ owner \in [Records -> Owners \cup {Deleted}]
      /\ context \in [Flights -> Contexts]
  BY DEF IsolationInv, IsolationTypeOK
<1>1. ASSUME NEW wanted \in SUBSET Records, findMany(f, wanted)
      PROVE  IsolationInv'
  <2> DEFINE some == {owner[r] : r \in mergeWhere(f, wanted)}
  <2>1. some \in SUBSET Owners
    BY DEF mergeWhere, Owners
  <2>2. Crossing(f) \/ some \subseteq ({flight[f].company} \ {NoFirm})
    BY <1>1, FilteredRows DEF findMany
  <2>3. flight[f].pc = "route" /\ touched' = [touched EXCEPT ![f] = @ \cup some]
    BY <1>1 DEF findMany, Touch
  <2>4. UNCHANGED <<owner, listed, bearer, flight, context>>
    BY <1>1 DEF findMany
  <2> HIDE DEF some
  <2> QED
    BY <1>0, <2>1, <2>2, <2>3, <2>4, TouchedRows
<1>2. ASSUME NEW r \in Records, findOwned(f, r)
      PROVE  IsolationInv'
  <2>1. /\ owner[r] \in Firms /\ flight[f].pc = "route" /\ UNCHANGED <<owner, listed, bearer, context>>
        /\ flight' = [flight EXCEPT ![f].pc = "owned", ![f].row = r]
    BY <1>2 DEF findOwned, mergeWhere
  <2>2. Crossing(f) \/ owner[r] = flight[f].company
    BY <1>2, FilteredRows DEF findOwned
  <2>3. touched' = [touched EXCEPT ![f] = @ \cup {}]
    BY <1>0, <1>2 DEF findOwned
  <2>4. flight'[f].row = r /\ owner[r] # NoFirm
    BY <1>0, <2>1, IsolationAssumption
  <2>5. \A s \in Records : owner'[s] \in {owner[s], Deleted}
    BY <2>1
  <2> DEFINE some == {}
  <2>6. touched' = [touched EXCEPT ![f] = @ \cup some] /\ some \in SUBSET Owners
        /\ some \subseteq ({flight[f].company} \ {NoFirm})
    BY <2>3
  <2>7. \E row \in Records \cup {NoFirm}, pc \in {"route", "owned"} :
            flight' = [flight EXCEPT ![f].pc = pc, ![f].row = row]
    BY <2>1
  <2>8. owner' \in [Records -> Owners \cup {Deleted}]
    BY <1>0, <2>1
  <2> HIDE DEF some
  <2> QED
    BY <2>1, <2>2, <2>4, <2>5, <2>6, <2>7, <2>8, TouchedRows, ZenonT(30)
<1>3. ASSUME NEW r \in Records, NEW c \in Owners, create(f, r, c)
      PROVE  IsolationInv'
  <2> DEFINE given == Given(f, r, c)
  <2>1. flight[f].company \in Owners /\ context[f].company \in Owners
    BY <1>0 DEF Contexts
  <2>2. /\ flight[f].pc = "route" /\ owner[r] = NoFirm /\ given # NoFirm
        /\ owner' = [owner EXCEPT ![r] = given]
        /\ touched' = [touched EXCEPT ![f] = @ \cup {given}]
        /\ UNCHANGED <<listed, bearer, flight, context>>
    BY <1>3 DEF create
  <2>3. given \in Owners
    BY <2>1 DEF Given
  <2>4. Crossing(f) \/ given = flight[f].company
    <3>1. /\ context[f].store /\ (context[f].cross <=> Crossing(f))
          /\ context[f].company = flight[f].company
      BY <2>2 DEF IsolationInv, ContextAgrees
    <3> QED
      BY <3>1 DEF Given, Unfiltered
  <2> HIDE DEF given
  <2>5. \A s \in Records : owner[s] = NoFirm \/ owner'[s] \in {owner[s], Deleted}
    BY <1>0, <2>2
  <2>6. owner' \in [Records -> Owners \cup {Deleted}]
    BY <1>0, <2>2, <2>3
  <2> QED
    <3>1. flight' = flight /\ flight'[f].pc = "route" /\ {given} \in SUBSET Owners
      BY <2>2, <2>3
    <3>2. Crossing(f) \/ {given} \subseteq ({flight[f].company} \ {NoFirm})
      BY <2>2, <2>4
    <3> QED
      BY <2>2, <2>5, <2>6, <3>1, <3>2, TouchedRows
<1>4. CASE update(f) \/ delete(f)
  <2> DEFINE row == flight[f].row
             some == {owner[r] : r \in {s \in {row} : owner[s] \in Firms}}
  <2>1. flight[f].pc = "owned"
    BY <1>4 DEF update, delete
  <2>2. row \in Records /\ (Crossing(f) \/ owner[row] \in {flight[f].company, Deleted})
    BY <2>1 DEF IsolationInv, ContextAgrees
  <2>3. some \in SUBSET Owners /\ (Crossing(f) \/ some \subseteq ({flight[f].company} \ {NoFirm}))
    BY <2>2, IsolationAssumption DEF Owners
  <2>4. touched' = [touched EXCEPT ![f] = @ \cup some]
    BY <1>4 DEF update, delete, Touch
  <2>5. /\ UNCHANGED <<listed, bearer, context>>
        /\ flight' = [flight EXCEPT ![f].pc = "route", ![f].row = NoFirm]
        /\ owner' = owner \/ owner' = [owner EXCEPT ![row] = Deleted]
    BY <1>4 DEF update, delete
  <2>6. /\ owner' \in [Records -> Owners \cup {Deleted}]
        /\ \A s \in Records : owner'[s] \in {owner[s], Deleted}
    BY <1>0, <2>2, <2>5
  <2>7. flight'[f].pc = "route"
    BY <1>0, <2>5
  <2> HIDE DEF row, some
  <2> QED
    BY <2>1, <2>3, <2>4, <2>5, <2>6, <2>7, TouchedRows
<1> QED
  BY <1>1, <1>2, <1>3, <1>4

\* A request touches rows of the company of its bearer and of no other, unless it is a
\* job or an operator of the platform, however many run at once (tenant-extension.ts).
THEOREM CompaniesIsolated == IsolationSpec => []IsolationInv
<1>1. IsolationInit => IsolationInv
  <2> SUFFICES ASSUME IsolationInit
               PROVE  IsolationInv
    OBVIOUS
  <2>1. /\ Landed \in [door : HttpDoors \cup {"job", "none"}, pc : {"idle", "guard", "route", "owned"},
                        company : Owners, row : Records \cup {NoFirm}]
        /\ OutOfRequest \in Contexts
    BY DEF Landed, OutOfRequest, Contexts, Owners
  <2>2. IsolationTypeOK
    <3>1. bearer \in [Bearers -> [kind : {"admin", "super", "device"}, company : Owners, active : BOOLEAN]]
      BY DEF IsolationInit
    <3> QED
      BY <2>1, <3>1 DEF IsolationInit, IsolationTypeOK
  <2>3. ContextAgrees /\ Isolated
    BY DEF IsolationInit, ContextAgrees, Isolated, Landed
  <2> QED
    BY <2>2, <2>3 DEF IsolationInv
<1>2. IsolationInv /\ [IsolationNext]_isolationVars => IsolationInv'
  <2> SUFFICES ASSUME IsolationInv, [IsolationNext]_isolationVars
               PROVE  IsolationInv'
    OBVIOUS
  <2>1. ASSUME NEW b \in Bearers, excludeBearer(b) \/ \E c \in Firms : moveBearer(b, c)
        PROVE  IsolationInv'
    <3>1. bearer' \in [Bearers -> [kind : {"admin", "super", "device"}, company : Owners, active : BOOLEAN]]
      <4>1. CASE excludeBearer(b)
        BY <4>1, ZenonT(30) DEF excludeBearer, IsolationInv, IsolationTypeOK
      <4>2. ASSUME NEW c \in Firms, moveBearer(b, c)
            PROVE  bearer' \in [Bearers -> [kind : {"admin", "super", "device"}, company : Owners,
                                            active : BOOLEAN]]
        BY <4>2 DEF moveBearer, IsolationInv, IsolationTypeOK, Owners
      <4> QED
        BY <2>1, <4>1, <4>2
    <3>2. UNCHANGED <<owner, listed, flight, context, touched>>
      BY <2>1 DEF excludeBearer, moveBearer
    <3> QED
      BY <3>1, <3>2 DEF IsolationInv, IsolationTypeOK, ContextAgrees, Isolated, Crossing
  <2>2. CASE UNCHANGED isolationVars
    BY <2>2 DEF isolationVars, IsolationInv, IsolationTypeOK, ContextAgrees, Isolated, Crossing
  <2> QED
    BY <2>1, <2>2, GuardStep, QueryStep DEF IsolationNext, FlightStep
<1> QED
  BY <1>1, <1>2, PTL DEF IsolationSpec

-----------------------------------------------------------------------------
(* Badges *)

\* The records of the scans and of the changes under way.
ScanRecords ==
    {Waiting} \cup
    [pc : {"device", "badge"}, phone : Phones, code : Barcodes, dead : SUBSET Badges] \cup
    [pc : {"assignment", "granted"}, phone : Phones, row : Badges, user : Drivers,
     dead : SUBSET Badges] \cup
    [pc : {"refused"}, active : BOOLEAN]
BadgeRecords == {NoRow} \cup [code : Barcodes, user : Drivers, status : Statuses]

\* A step of one scan: the rows it found revoked stay those, or are the ones of now, and
\* the row it goes on with is none of them.
LEMMA ScanStep ==
    ASSUME BadgeInv, NEW r \in Scanners,
           \/ \E p \in Phones, c \in Barcodes : Present(r, p, c)
           \/ ReadDevice(r) \/ ReadBadge(r) \/ ReadAssignment(r) \/ Reply(r)
    PROVE  BadgeInv'
<1>0. /\ scan \in [Scanners -> ScanRecords] /\ badge \in [Badges -> BadgeRecords]
      /\ RevokedOpensNothing /\ DeadStayRevoked
  BY DEF BadgeInv, BadgeTypeOK, ScanRecords, BadgeRecords
<1>1. ASSUME NEW s \in ScanRecords, Scan(r, s), UNCHANGED <<nominative, badge, driver, assigned, enrolled, edit>>,
             s.pc \in {"assignment", "granted"} => s.row \notin s.dead,
             s.pc \in {"device", "badge", "assignment", "granted"} =>
                 \A b \in s.dead : badge[b].status = "REVOKED"
      PROVE  BadgeInv'
  <2>1. \A q \in Scanners : scan'[q] = IF q = r THEN s ELSE scan[q]
    BY <1>0, <1>1 DEF Scan
  <2>2. BadgeTypeOK'
    <3>1. scan' \in [Scanners -> ScanRecords]
      BY <1>0, <1>1 DEF Scan
    <3> QED
      BY <1>1, <3>1 DEF BadgeInv, BadgeTypeOK, ScanRecords
  <2>3. RevokedOpensNothing' /\ DeadStayRevoked'
    BY <1>0, <1>1, <2>1 DEF RevokedOpensNothing, DeadStayRevoked
  <2> QED
    BY <1>1, <2>2, <2>3 DEF BadgeInv, WritesAgree
<1>2. ASSUME NEW p \in Phones, NEW c \in Barcodes, Present(r, p, c)
      PROVE  BadgeInv'
  <2> DEFINE dead == {b \in Badges : badge[b].status = "REVOKED"}
             s == [pc |-> "device", phone |-> p, code |-> c, dead |-> dead]
  <2>1. s \in ScanRecords /\ s.pc = "device" /\ \A b \in s.dead : badge[b].status = "REVOKED"
    BY DEF ScanRecords
  <2>2. Scan(r, s) /\ UNCHANGED <<nominative, badge, driver, assigned, enrolled, edit>>
    BY <1>2 DEF Present
  <2> HIDE DEF s
  <2> QED
    BY <1>1, <2>1, <2>2
<1>3. CASE ReadDevice(r)
  <2>1. /\ scan[r] \in ScanRecords /\ scan[r].pc = "device"
        /\ scan[r] \in [pc : {"device", "badge"}, phone : Phones, code : Barcodes, dead : SUBSET Badges]
    BY <1>0, <1>3 DEF ReadDevice, ScanRecords, Waiting
  <2> DEFINE s == [scan[r] EXCEPT !.pc = "badge"]
             t == [pc |-> "refused", active |-> FALSE]
  <2>2. s \in ScanRecords /\ s.pc = "badge" /\ s.dead = scan[r].dead
    BY <2>1 DEF ScanRecords
  <2>3. t \in ScanRecords /\ t.pc = "refused"
    BY DEF ScanRecords
  <2>4. \A b \in scan[r].dead : badge[b].status = "REVOKED"
    BY <1>0, <2>1 DEF DeadStayRevoked
  <2>5. /\ Scan(r, s) \/ Scan(r, t)
        /\ UNCHANGED <<nominative, badge, driver, assigned, enrolled, edit>>
    BY <1>3 DEF ReadDevice
  <2> HIDE DEF s, t
  <2> QED
    BY <1>1, <2>2, <2>3, <2>4, <2>5
<1>4. CASE ReadBadge(r)
  <2>1. /\ scan[r].pc = "badge"
        /\ scan[r] \in [pc : {"device", "badge"}, phone : Phones, code : Barcodes, dead : SUBSET Badges]
    BY <1>0, <1>4 DEF ReadBadge, ScanRecords, Waiting
  <2>2. \A b \in scan[r].dead : badge[b].status = "REVOKED"
    BY <1>0, <2>1 DEF DeadStayRevoked
  <2>3. UNCHANGED <<nominative, badge, driver, assigned, enrolled, edit>>
    BY <1>4 DEF ReadBadge
  <2>4. ASSUME NEW x \in BOOLEAN, Scan(r, [pc |-> "refused", active |-> x])
        PROVE  BadgeInv'
    <3> DEFINE t == [pc |-> "refused", active |-> x]
    <3>1. t \in ScanRecords /\ t.pc = "refused" /\ Scan(r, t)
      BY <2>4 DEF ScanRecords
    <3> HIDE DEF t
    <3> QED
      BY <1>1, <2>3, <3>1
  <2>5. ASSUME NEW b \in Rows(scan[r].code), Admits(b),
               Scan(r, [pc |-> "assignment", phone |-> scan[r].phone, row |-> b,
                        user |-> badge[b].user, dead |-> scan[r].dead])
        PROVE  BadgeInv'
    <3> DEFINE t == [pc |-> "assignment", phone |-> scan[r].phone, row |-> b,
                     user |-> badge[b].user, dead |-> scan[r].dead]
    <3>1. b \in Badges /\ badge[b].status = "ACTIVE" /\ badge[b] \in BadgeRecords
      BY <1>0, <2>5 DEF Rows, Admits
    <3>2. badge[b].user \in Drivers
      BY <3>1 DEF BadgeRecords, NoRow
    <3>3. b \notin scan[r].dead
      BY <2>2, <3>1
    <3>4. t \in ScanRecords /\ t.pc = "assignment" /\ t.row = b /\ t.dead = scan[r].dead
      BY <2>1, <3>1, <3>2 DEF ScanRecords
    <3>5. Scan(r, t)
      BY <2>5
    <3> HIDE DEF t
    <3> QED
      BY <1>1, <2>2, <2>3, <3>3, <3>4, <3>5
  <2>6. \A c, p : SomeAdmitted(c, p) \in BOOLEAN
    BY DEF SomeAdmitted
  <2> QED
    BY <1>4, <2>4, <2>5, <2>6 DEF ReadBadge
<1>5. CASE ReadAssignment(r)
  <2>1. /\ scan[r].pc = "assignment"
        /\ scan[r] \in [pc : {"assignment", "granted"}, phone : Phones, row : Badges, user : Drivers,
                        dead : SUBSET Badges]
    BY <1>0, <1>5 DEF ReadAssignment, ScanRecords, Waiting
  <2> DEFINE s == [scan[r] EXCEPT !.pc = "granted"]
             t == [pc |-> "refused", active |-> FALSE]
  <2>2. s \in ScanRecords /\ s.pc = "granted" /\ s.dead = scan[r].dead /\ s.row = scan[r].row
    BY <2>1 DEF ScanRecords
  <2>3. t \in ScanRecords /\ t.pc = "refused"
    BY DEF ScanRecords
  <2>4. scan[r].row \notin scan[r].dead /\ \A b \in scan[r].dead : badge[b].status = "REVOKED"
    BY <1>0, <2>1 DEF DeadStayRevoked, RevokedOpensNothing
  <2>5. /\ Scan(r, s) \/ Scan(r, t)
        /\ UNCHANGED <<nominative, badge, driver, assigned, enrolled, edit>>
    BY <1>5 DEF ReadAssignment
  <2> HIDE DEF s, t
  <2> QED
    BY <1>1, <2>2, <2>3, <2>4, <2>5
<1>6. CASE Reply(r)
  <2>1. Waiting \in ScanRecords /\ Waiting.pc = "idle"
    BY DEF ScanRecords, Waiting
  <2> QED
    BY <1>1, <1>6, <2>1 DEF Reply
<1> QED
  BY <1>2, <1>3, <1>4, <1>5, <1>6

\* A change of the badges that leaves the revoked ones revoked, and the existing ones
\* existing, is one the scans under way do not see.
LEMMA RevokedStay ==
    ASSUME BadgeInv, badge' \in [Badges -> BadgeRecords],
           \A b \in Badges : badge[b].status = "REVOKED" => badge'[b].status = "REVOKED",
           UNCHANGED scan
    PROVE  RevokedOpensNothing' /\ DeadStayRevoked'
<1>1. \A r \in Scanners : scan[r] \in ScanRecords
  BY DEF BadgeInv, BadgeTypeOK, ScanRecords
<1>2. \A r \in Scanners : scan[r].pc \in {"device", "badge", "assignment", "granted"} =>
                              scan[r].dead \subseteq Badges
  BY <1>1 DEF ScanRecords, Waiting
<1> QED
  BY <1>2 DEF BadgeInv, RevokedOpensNothing, DeadStayRevoked

\* A step of the only administrator at work.
LEMMA EditorStep ==
    ASSUME NEW a, Editors = {a}, BadgeInv,
           \/ WriteBadgeStatus(a)
           \/ \E b \in Badges, u \in Drivers : Reassign(a, b, u)
           \/ \E b \in Badges, c \in Barcodes, u \in Drivers : CreateBadge(a, b, c, u)
           \/ \E b \in Badges, s \in Statuses : ReadBadgeStatus(a, b, s)
           \/ \E u \in Drivers : Anonymize(a, u)
           \/ \E u \in Drivers, s \in {"ACTIVE", "INACTIVE"} : SetUserStatus(a, u, s)
           \/ \E u \in Drivers, p \in Phones : Assign(a, u, p) \/ Unassign(a, u, p)
    PROVE  BadgeInv'
<1>0. /\ badge \in [Badges -> BadgeRecords]
      /\ \A b \in Badges : badge[b].status # "none" =>
             badge[b] \in [code : Barcodes, user : Drivers, status : Statuses]
      /\ edit \in [Editors -> {Nothing} \cup [row : Badges, status : Statuses]]
      /\ BadgeTypeOK /\ RevokedOpensNothing /\ DeadStayRevoked /\ WritesAgree
  BY DEF BadgeInv, BadgeTypeOK, BadgeRecords, NoRow
<1>1. ASSUME badge' \in [Badges -> BadgeRecords], UNCHANGED <<nominative, enrolled, scan>>,
             \A b \in Badges : badge[b].status = "REVOKED" => badge'[b].status = "REVOKED",
             driver' \in [Drivers -> {"ACTIVE", "INACTIVE", "ARCHIVED"}],
             assigned' \subseteq Drivers \X Phones,
             edit' = [edit EXCEPT ![a] = Nothing]
      PROVE  BadgeInv'
  <2>1. edit' \in [Editors -> {Nothing} \cup [row : Badges, status : Statuses]]
    BY <1>0, <1>1
  <2>2. BadgeTypeOK'
    BY <1>0, <1>1, <2>1 DEF BadgeTypeOK, BadgeRecords
  <2>3. WritesAgree'
    BY <1>0, <1>1 DEF WritesAgree
  <2> QED
    BY <1>1, <2>2, <2>3, RevokedStay DEF BadgeInv
<1>2. edit[a] = Nothing => edit = [edit EXCEPT ![a] = Nothing]
  BY <1>0
<1>3. /\ driver \in [Drivers -> {"ACTIVE", "INACTIVE", "ARCHIVED"}] /\ assigned \subseteq Drivers \X Phones
  BY <1>0 DEF BadgeTypeOK
<1>4. CASE WriteBadgeStatus(a)
  <2>1. /\ edit[a] \in [row : Badges, status : Statuses]
        /\ badge[edit[a].row].status # "none"
        /\ badge[edit[a].row].status = "REVOKED" => edit[a].status = "REVOKED"
    BY <1>0, <1>4 DEF WriteBadgeStatus, WritesAgree
  <2>2. badge' = badge \/ badge' = [badge EXCEPT ![edit[a].row].status = edit[a].status]
    BY <1>4 DEF WriteBadgeStatus
  <2>3. badge' \in [Badges -> BadgeRecords]
    BY <1>0, <2>1, <2>2 DEF BadgeRecords
  <2>4. \A b \in Badges : badge[b].status = "REVOKED" => badge'[b].status = "REVOKED"
    BY <1>0, <2>1, <2>2
  <2> QED
    BY <1>1, <1>3, <1>4, <2>3, <2>4 DEF WriteBadgeStatus, Edit
<1>5. ASSUME NEW b \in Badges, NEW u \in Drivers, Reassign(a, b, u)
      PROVE  BadgeInv'
  <2>1. badge' \in [Badges -> BadgeRecords]
    BY <1>0, <1>5 DEF Reassign, BadgeRecords
  <2>2. \A d \in Badges : badge'[d].status = badge[d].status
    BY <1>0, <1>5 DEF Reassign
  <2> QED
    BY <1>1, <1>2, <1>3, <1>5, <2>1, <2>2 DEF Reassign
<1>6. ASSUME NEW b \in Badges, NEW c \in Barcodes, NEW u \in Drivers, CreateBadge(a, b, c, u)
      PROVE  BadgeInv'
  <2>1. badge' \in [Badges -> BadgeRecords]
    BY <1>0, <1>6 DEF CreateBadge, BadgeRecords, Statuses
  <2>2. \A d \in Badges : badge[d].status = "REVOKED" => badge'[d].status = "REVOKED"
    BY <1>0, <1>6 DEF CreateBadge, NoRow
  <2> QED
    BY <1>1, <1>2, <1>3, <1>6, <2>1, <2>2 DEF CreateBadge
<1>7. ASSUME NEW b \in Badges, NEW s \in Statuses, ReadBadgeStatus(a, b, s)
      PROVE  BadgeInv'
  <2>1. edit' = [edit EXCEPT ![a] = [row |-> b, status |-> s]] /\ UNCHANGED <<nominative, badge, driver, assigned, enrolled, scan>>
    BY <1>7 DEF ReadBadgeStatus, Edit
  <2>2. BadgeTypeOK'
    BY <1>0, <2>1 DEF BadgeTypeOK
  <2>3. WritesAgree'
    BY <1>0, <1>7, <2>1 DEF WritesAgree, ReadBadgeStatus
  <2> QED
    BY <1>0, <2>1, <2>2, <2>3 DEF BadgeInv, RevokedOpensNothing, DeadStayRevoked
<1>8. ASSUME NEW u \in Drivers, Anonymize(a, u)
      PROVE  BadgeInv'
  <2>1. badge' \in [Badges -> BadgeRecords]
    BY <1>0, <1>8 DEF Anonymize, BadgeRecords, Statuses
  <2>2. \A d \in Badges : badge[d].status = "REVOKED" => badge'[d].status = "REVOKED"
    BY <1>0, <1>8 DEF Anonymize
  <2>3. assigned' \subseteq Drivers \X Phones /\ driver' \in [Drivers -> {"ACTIVE", "INACTIVE", "ARCHIVED"}]
    BY <1>3, <1>8 DEF Anonymize
  <2> QED
    BY <1>1, <1>2, <1>8, <2>1, <2>2, <2>3 DEF Anonymize
<1>9. ASSUME NEW u \in Drivers, NEW s \in {"ACTIVE", "INACTIVE"}, SetUserStatus(a, u, s)
      PROVE  BadgeInv'
  BY <1>0, <1>1, <1>2, <1>3, <1>9 DEF SetUserStatus
<1>10. ASSUME NEW u \in Drivers, NEW p \in Phones, Assign(a, u, p) \/ Unassign(a, u, p)
       PROVE  BadgeInv'
  BY <1>0, <1>1, <1>2, <1>3, <1>10 DEF Assign, Unassign
<1> QED
  BY <1>4, <1>5, <1>6, <1>7, <1>8, <1>9, <1>10

\* As long as one administrator works at a time, a badge revoked before a scan reached the
\* server lets nobody in, whatever is changed between the reads of the scan
\* (barcode-auth.service.ts, badges.service.ts).
THEOREM RevokedNeverOpens ==
    ASSUME NEW a, Editors = {a}
    PROVE  BadgeSpec => []BadgeInv
<1>1. BadgeInit => BadgeInv
  BY DEF BadgeInit, BadgeInv, BadgeTypeOK, RevokedOpensNothing, DeadStayRevoked, WritesAgree,
         Waiting, NoRow, Nothing
<1>2. BadgeInv /\ [BadgeNext]_badgeVars => BadgeInv'
  <2> SUFFICES ASSUME BadgeInv, [BadgeNext]_badgeVars
               PROVE  BadgeInv'
    OBVIOUS
  <2>1. ASSUME NEW p \in Phones, RevokePhone(p)
        PROVE  BadgeInv'
    BY <2>1 DEF RevokePhone, BadgeInv, BadgeTypeOK, RevokedOpensNothing, DeadStayRevoked, WritesAgree
  <2>2. CASE UNCHANGED badgeVars
    BY <2>2 DEF badgeVars, BadgeInv, BadgeTypeOK, RevokedOpensNothing, DeadStayRevoked, WritesAgree
  <2> QED
    BY <2>1, <2>2, ScanStep, EditorStep DEF BadgeNext
<1> QED
  BY <1>1, <1>2, PTL DEF BadgeSpec

-----------------------------------------------------------------------------
(* Guesses *)

AttemptRecords == {Idle} \cup [pc : {"judged", "refused", "locking", "granted"}, caller : Callers]
JudgedOf(c) == Cardinality(Under(c, {"judged"}))
RefusedOf(c) == Cardinality(Under(c, {"refused"}))
HeldOf(c) == Cardinality(Under(c, {"refused", "locking"}))

\* Requests of a phone at different points are different requests.
LEMMA UnderBounds ==
    ASSUME NEW c
    PROVE  /\ JudgedOf(c) \in Nat /\ RefusedOf(c) \in Nat /\ HeldOf(c) \in Nat
           /\ Cardinality(Attempts) \in Nat
           /\ RefusedOf(c) <= HeldOf(c) /\ JudgedOf(c) + HeldOf(c) <= Cardinality(Attempts)
<1> DEFINE J == Under(c, {"judged"})
           R == Under(c, {"refused"})
           H == Under(c, {"refused", "locking"})
<1>0. IsFiniteSet(Attempts)
  BY LimiterAssumption
<1>1. J \subseteq Attempts /\ H \subseteq Attempts /\ R \subseteq H /\ J \cap H = {}
  BY DEF Under
<1>2. IsFiniteSet(J) /\ IsFiniteSet(H) /\ IsFiniteSet(R)
  BY <1>0, <1>1, FS_Subset
<1>3. /\ Cardinality(J) \in Nat /\ Cardinality(H) \in Nat /\ Cardinality(R) \in Nat
      /\ Cardinality(Attempts) \in Nat /\ Cardinality({}) = 0
  BY <1>0, <1>2, FS_CardinalityType, FS_EmptySet
<1>4. Cardinality(R) <= Cardinality(H)
  BY <1>1, <1>2, FS_Subset
<1>5. Cardinality(J \cup H) = Cardinality(J) + Cardinality(H) - Cardinality(J \cap H)
  BY <1>2, FS_Union
<1>6. Cardinality(J \cup H) <= Cardinality(Attempts)
  <2>1. J \cup H \subseteq Attempts
    BY <1>1
  <2> QED
    BY <1>0, <2>1, FS_Subset
<1> HIDE DEF J, R, H
<1>7. Cardinality(J \cap H) = 0
  <2>1. J \cap H = {}
    BY <1>1
  <2> QED
    BY <1>3, <2>1, Zenon
<1>8. Cardinality(J) + Cardinality(H) <= Cardinality(Attempts)
  BY <1>3, <1>5, <1>6, <1>7
<1> QED
  BY <1>3, <1>4, <1>8 DEF J, R, H, JudgedOf, RefusedOf, HeldOf

\* The counts that matter, for a request of the phone c that moves from one point to
\* another, and for the other phones.
LEMMA CountsMove ==
    ASSUME NEW a \in Attempts, NEW x \in AttemptRecords, NEW c \in Callers,
           attempt \in [Attempts -> AttemptRecords], attempt' = [attempt EXCEPT ![a] = x]
    PROVE  /\ attempt' \in [Attempts -> AttemptRecords]
           /\ JudgedOf(c)' = JudgedOf(c)
                  + (IF x.pc = "judged" /\ x.caller = c THEN 1 ELSE 0)
                  - (IF attempt[a].pc = "judged" /\ attempt[a].caller = c THEN 1 ELSE 0)
           /\ RefusedOf(c)' = RefusedOf(c)
                  + (IF x.pc = "refused" /\ x.caller = c THEN 1 ELSE 0)
                  - (IF attempt[a].pc = "refused" /\ attempt[a].caller = c THEN 1 ELSE 0)
           /\ HeldOf(c)' = HeldOf(c)
                  + (IF x.pc \in {"refused", "locking"} /\ x.caller = c THEN 1 ELSE 0)
                  - (IF attempt[a].pc \in {"refused", "locking"} /\ attempt[a].caller = c THEN 1 ELSE 0)
<1>1. attempt' \in [Attempts -> AttemptRecords]
  OBVIOUS
<1>2. \A pcs : Cardinality(Under(c, pcs)') = Cardinality(Under(c, pcs))
               + (IF x.pc \in pcs /\ x.caller = c THEN 1 ELSE 0)
               - (IF attempt[a].pc \in pcs /\ attempt[a].caller = c THEN 1 ELSE 0)
  <2> SUFFICES ASSUME NEW pcs
               PROVE  Cardinality(Under(c, pcs)') = Cardinality(Under(c, pcs))
                          + (IF x.pc \in pcs /\ x.caller = c THEN 1 ELSE 0)
                          - (IF attempt[a].pc \in pcs /\ attempt[a].caller = c THEN 1 ELSE 0)
    OBVIOUS
  <2> DEFINE rest == Under(c, pcs) \ {a}
  <2>1. /\ Under(c, pcs) = IF attempt[a].pc \in pcs /\ attempt[a].caller = c THEN rest \cup {a} ELSE rest
        /\ Under(c, pcs)' = IF x.pc \in pcs /\ x.caller = c THEN rest \cup {a} ELSE rest
    BY DEF Under
  <2>2. IsFiniteSet(rest) /\ a \notin rest
    <3>1. rest \subseteq Attempts
      BY DEF Under
    <3> QED
      BY <3>1, FS_Subset, LimiterAssumption
  <2>3. Cardinality(rest \cup {a}) = Cardinality(rest) + 1 /\ Cardinality(rest) \in Nat
    BY <2>2, FS_AddElement, FS_CardinalityType
  <2> HIDE DEF rest
  <2> QED
    BY <2>1, <2>3
<1>3. JudgedOf(c)' = JudgedOf(c)
                  + (IF x.pc \in {"judged"} /\ x.caller = c THEN 1 ELSE 0)
                  - (IF attempt[a].pc \in {"judged"} /\ attempt[a].caller = c THEN 1 ELSE 0)
  BY <1>2, Zenon DEF JudgedOf
<1>4. RefusedOf(c)' = RefusedOf(c)
                  + (IF x.pc \in {"refused"} /\ x.caller = c THEN 1 ELSE 0)
                  - (IF attempt[a].pc \in {"refused"} /\ attempt[a].caller = c THEN 1 ELSE 0)
  BY <1>2, Zenon DEF RefusedOf
<1>5. HeldOf(c)' = HeldOf(c)
                  + (IF x.pc \in {"refused", "locking"} /\ x.caller = c THEN 1 ELSE 0)
                  - (IF attempt[a].pc \in {"refused", "locking"} /\ attempt[a].caller = c THEN 1 ELSE 0)
  BY <1>2, Zenon DEF HeldOf
<1> QED
  BY <1>1, <1>3, <1>4, <1>5

\* The count of the guesses implies their bound.
LEMMA CountedAreBounded ==
    ASSUME LimiterTypeOK, GuessesCounted
    PROVE  GuessBound
<1> SUFFICES ASSUME ~flaky, NEW c \in Callers
             PROVE  guesses[c] < LockoutFailures + Cardinality(Attempts)
  BY DEF GuessBound, MaxGuesses
<1>1. /\ guesses[c] \in Nat /\ fails[c] \in 0..LockoutFailures /\ LockoutFailures \in Nat \ {0}
      /\ Cardinality(Attempts) \in Nat
  BY LimiterAssumption, UnderBounds DEF LimiterTypeOK, MaxGuesses
<1>2. /\ c \in lockedOut => guesses[c] + JudgedOf(c) < LockoutFailures + Cardinality(Attempts)
      /\ c \notin lockedOut /\ fails[c] < LockoutFailures => guesses[c] <= fails[c] + RefusedOf(c)
      /\ c \notin lockedOut /\ fails[c] = LockoutFailures => guesses[c] < LockoutFailures + HeldOf(c)
  BY DEF GuessesCounted, MaxGuesses, JudgedOf, RefusedOf, HeldOf
<1> QED
  BY <1>1, <1>2, UnderBounds

\* How the guesses of one phone are counted.
CountedOf(c) ==
    /\ c \in lockedOut => guesses[c] + JudgedOf(c) < LockoutFailures + Cardinality(Attempts)
    /\ c \notin lockedOut /\ fails[c] < LockoutFailures => guesses[c] <= fails[c] + RefusedOf(c)
    /\ c \notin lockedOut /\ fails[c] = LockoutFailures => guesses[c] < LockoutFailures + HeldOf(c)

\* A step of one request.
LEMMA AttemptStep ==
    ASSUME LimiterInv, NEW a \in Attempts,
           \/ \E c \in Callers : AttemptUncounted(a, c) \/ \E k \in Codes : Attempt(a, c, k)
           \/ Judge(a) \/ RegisterFailure(a) \/ LockOut(a) \/ ClearFailures(a)
    PROVE  LimiterTypeOK' /\ GuessesCounted'
<1>0. /\ attempt \in [Attempts -> AttemptRecords]
      /\ used \in [Callers \cup Codes -> Nat]
      /\ \A c \in Callers : used[c] <= CallerQuota
      /\ \A k \in Codes : used[k] <= CodeQuota
      /\ fails \in [Callers -> 0..LockoutFailures] /\ guesses \in [Callers -> 0..MaxGuesses]
      /\ lockedOut \subseteq Callers /\ flaky \in BOOLEAN
      /\ MaxGuesses = LockoutFailures + Cardinality(Attempts) /\ MaxGuesses \in Nat
      /\ LockoutFailures \in Nat \ {0} /\ CallerQuota \in Nat /\ CodeQuota \in Nat
      /\ Callers \cap Codes = {} /\ Cardinality(Attempts) \in Nat
  BY LimiterAssumption, UnderBounds DEF LimiterInv, LimiterTypeOK, AttemptRecords, MaxGuesses
<1>1. \A c \in Callers : ~flaky => CountedOf(c)
  BY DEF LimiterInv, GuessesCounted, JudgedOf, RefusedOf, HeldOf, CountedOf, MaxGuesses
<1>n. \A c \in Callers : JudgedOf(c) \in Nat /\ RefusedOf(c) \in Nat /\ HeldOf(c) \in Nat
  BY UnderBounds
<1>a. attempt \in [Attempts -> AttemptRecords]
  BY <1>0
<1>c. ASSUME NEW x \in AttemptRecords, NEW d \in Callers, attempt' = [attempt EXCEPT ![a] = x]
      PROVE  /\ JudgedOf(d)' = JudgedOf(d)
                  + (IF x.pc = "judged" /\ x.caller = d THEN 1 ELSE 0)
                  - (IF attempt[a].pc = "judged" /\ attempt[a].caller = d THEN 1 ELSE 0)
             /\ RefusedOf(d)' = RefusedOf(d)
                  + (IF x.pc = "refused" /\ x.caller = d THEN 1 ELSE 0)
                  - (IF attempt[a].pc = "refused" /\ attempt[a].caller = d THEN 1 ELSE 0)
             /\ HeldOf(d)' = HeldOf(d)
                  + (IF x.pc \in {"refused", "locking"} /\ x.caller = d THEN 1 ELSE 0)
                  - (IF attempt[a].pc \in {"refused", "locking"} /\ attempt[a].caller = d THEN 1 ELSE 0)
  BY <1>a, <1>c, CountsMove, ZenonT(30)
<1>d. ASSUME NEW x \in AttemptRecords, NEW d \in Callers, attempt' = [attempt EXCEPT ![a] = x]
      PROVE  JudgedOf(d)' = JudgedOf(d)
                  + (IF x.pc = "judged" /\ x.caller = d THEN 1 ELSE 0)
                  - (IF attempt[a].pc = "judged" /\ attempt[a].caller = d THEN 1 ELSE 0)
  BY <1>c, <1>d
<1>e. ASSUME NEW x \in AttemptRecords, NEW d \in Callers, attempt' = [attempt EXCEPT ![a] = x]
      PROVE  RefusedOf(d)' = RefusedOf(d)
                  + (IF x.pc = "refused" /\ x.caller = d THEN 1 ELSE 0)
                  - (IF attempt[a].pc = "refused" /\ attempt[a].caller = d THEN 1 ELSE 0)
  BY <1>c, <1>e
<1>f. ASSUME NEW x \in AttemptRecords, NEW d \in Callers, attempt' = [attempt EXCEPT ![a] = x]
      PROVE  HeldOf(d)' = HeldOf(d)
                  + (IF x.pc \in {"refused", "locking"} /\ x.caller = d THEN 1 ELSE 0)
                  - (IF attempt[a].pc \in {"refused", "locking"} /\ attempt[a].caller = d THEN 1 ELSE 0)
  BY <1>c, <1>f
<1>2. flaky' = flaky
  BY DEF Attempt, AttemptUncounted, Judge, RegisterFailure, LockOut, ClearFailures
<1>3. ASSUME \A c \in Callers : ~flaky => CountedOf(c)'
      PROVE  GuessesCounted'
  BY <1>2, <1>3 DEF GuessesCounted, JudgedOf, RefusedOf, HeldOf, CountedOf, MaxGuesses
<1>4. ASSUME NEW c \in Callers, AttemptUncounted(a, c) \/ \E k \in Codes : Attempt(a, c, k)
      PROVE  LimiterTypeOK' /\ GuessesCounted'
  <2> DEFINE x == [pc |-> "judged", caller |-> c]
  <2>1. x \in AttemptRecords /\ x.pc = "judged" /\ x.caller = c
    BY DEF AttemptRecords
  <2>2. /\ attempt[a] = Idle /\ UNCHANGED <<fails, lockedOut, guesses>>
        /\ attempt' = attempt \/ attempt' = [attempt EXCEPT ![a] = x]
        /\ ~flaky => c \notin lockedOut
    BY <1>4 DEF AttemptUncounted, Attempt
  <2>3. /\ used' \in [Callers \cup Codes -> Nat]
        /\ \A d \in Callers : used'[d] <= CallerQuota
        /\ \A k \in Codes : used'[k] <= CodeQuota
    <3>1. CASE AttemptUncounted(a, c)
      BY <1>0, <3>1 DEF AttemptUncounted
    <3>2. ASSUME NEW k \in Codes, Attempt(a, c, k)
          PROVE  /\ used' \in [Callers \cup Codes -> Nat]
                 /\ \A d \in Callers : used'[d] <= CallerQuota
                 /\ \A n \in Codes : used'[n] <= CodeQuota
      <4>1. c # k /\ used[c] \in Nat /\ used[k] \in Nat /\ used[c] < CallerQuota
        BY <1>0, <3>2 DEF Attempt
      <4>2. \/ used[k] < CodeQuota /\ used' = [used EXCEPT ![c] = @ + 1, ![k] = @ + 1]
            \/ used' = [used EXCEPT ![c] = @ + 1]
        BY <3>2 DEF Attempt
      <4> QED
        BY <1>0, <4>1, <4>2
    <3> QED
      BY <1>4, <3>1, <3>2
  <2> HIDE DEF x
  <2>4. attempt' \in [Attempts -> AttemptRecords]
    BY <1>0, <2>1, <2>2
  <2>5. LimiterTypeOK'
    BY <1>0, <1>2, <2>2, <2>3, <2>4 DEF LimiterTypeOK, AttemptRecords, MaxGuesses
  <2>6. ASSUME NEW d \in Callers, ~flaky
        PROVE  CountedOf(d)'
    <3>1. CASE attempt' = attempt
      BY <1>1, <2>2, <2>6, <3>1 DEF CountedOf, JudgedOf, RefusedOf, HeldOf, Under
    <3>2. CASE attempt' = [attempt EXCEPT ![a] = x]
      <4>1. /\ JudgedOf(d)' = JudgedOf(d) + (IF c = d THEN 1 ELSE 0)
            /\ RefusedOf(d)' = RefusedOf(d) /\ HeldOf(d)' = HeldOf(d)
        <5>1. attempt[a].pc = "idle"
          BY <2>2 DEF Idle
        <5>2. JudgedOf(d)' = JudgedOf(d) + (IF c = d THEN 1 ELSE 0) - 0
          BY <1>d, <2>1, <3>2, <5>1
        <5>3. RefusedOf(d)' = RefusedOf(d) + 0 - 0
          BY <1>e, <2>1, <3>2, <5>1
        <5>4. HeldOf(d)' = HeldOf(d) + 0 - 0
          BY <1>f, <2>1, <3>2, <5>1
        <5> QED
          BY <1>n, <5>2, <5>3, <5>4
      <4> QED
        BY <1>0, <1>1, <2>2, <2>6, <4>1, UnderBounds DEF CountedOf
    <3> QED
      BY <2>2, <3>1, <3>2
  <2> QED
    BY <1>3, <2>5, <2>6
<1>5. CASE Judge(a)
  <2> DEFINE c == attempt[a].caller
             x == [attempt[a] EXCEPT !.pc = "granted"]
             y == [attempt[a] EXCEPT !.pc = "refused"]
  <2>1. /\ attempt[a].pc = "judged" /\ c \in Callers
        /\ x \in AttemptRecords /\ x.pc = "granted" /\ x.caller = c
        /\ y \in AttemptRecords /\ y.pc = "refused" /\ y.caller = c
        /\ Idle \in AttemptRecords /\ Idle.pc = "idle"
    BY <1>0, <1>5 DEF Judge, AttemptRecords, Idle
  <2>2. /\ \/ (attempt' = [attempt EXCEPT ![a] = x] \/ attempt' = [attempt EXCEPT ![a] = Idle]) /\ guesses' = guesses
           \/ /\ attempt' = [attempt EXCEPT ![a] = y]
              /\ guesses' = [guesses EXCEPT ![c] = IF @ < MaxGuesses THEN @ + 1 ELSE @]
        /\ UNCHANGED <<used, fails, lockedOut>>
    BY <1>5 DEF Judge, AttemptAt, Leave
  <2> HIDE DEF c, x, y
  <2>3. attempt' \in [Attempts -> AttemptRecords] /\ guesses' \in [Callers -> 0..MaxGuesses]
    BY <1>0, <2>1, <2>2
  <2>4. LimiterTypeOK'
    BY <1>0, <1>2, <2>2, <2>3 DEF LimiterTypeOK, AttemptRecords, MaxGuesses
  <2>5. ASSUME NEW d \in Callers, ~flaky
        PROVE  CountedOf(d)'
    <3>1. JudgedOf(d)' = JudgedOf(d) - (IF c = d THEN 1 ELSE 0)
      BY <1>0, <2>1, <2>2, CountsMove, UnderBounds DEF c
    <3>2. CASE attempt' = [attempt EXCEPT ![a] = y] /\ guesses' = [guesses EXCEPT ![c] = IF @ < MaxGuesses THEN @ + 1 ELSE @]
      <4>1. /\ RefusedOf(d)' = RefusedOf(d) + (IF c = d THEN 1 ELSE 0)
            /\ HeldOf(d)' = HeldOf(d) + (IF c = d THEN 1 ELSE 0)
        <5>1. RefusedOf(d)' = RefusedOf(d) + (IF c = d THEN 1 ELSE 0) - 0
          BY <1>e, <2>1, <3>2 DEF c
        <5>2. HeldOf(d)' = HeldOf(d) + (IF c = d THEN 1 ELSE 0) - 0
          BY <1>f, <2>1, <3>2 DEF c
        <5> QED
          BY <1>n, <5>1, <5>2
      <4>2. guesses'[d] <= guesses[d] + (IF c = d THEN 1 ELSE 0) /\ guesses[d] \in Nat /\ guesses'[d] \in Nat
        BY <1>0, <2>1, <3>2
      <4> QED
        BY <1>0, <1>1, <2>2, <2>5, <3>1, <4>1, <4>2, UnderBounds DEF CountedOf
    <3>3. CASE (attempt' = [attempt EXCEPT ![a] = x] \/ attempt' = [attempt EXCEPT ![a] = Idle]) /\ guesses' = guesses
      <4>1. RefusedOf(d)' = RefusedOf(d) /\ HeldOf(d)' = HeldOf(d)
        BY <1>0, <2>1, <3>3, CountsMove, UnderBounds DEF c
      <4> QED
        BY <1>0, <1>1, <2>2, <2>5, <3>1, <3>3, <4>1, UnderBounds DEF CountedOf
    <3> QED
      BY <2>2, <3>2, <3>3
  <2> QED
    BY <1>3, <2>4, <2>5
<1>6. CASE RegisterFailure(a)
  <2> DEFINE c == attempt[a].caller
             x == [attempt[a] EXCEPT !.pc = "locking"]
  <2>1. /\ attempt[a].pc = "refused" /\ c \in Callers
        /\ x \in AttemptRecords /\ x.pc = "locking" /\ x.caller = c
        /\ Idle \in AttemptRecords /\ Idle.pc = "idle"
    BY <1>0, <1>6 DEF RegisterFailure, AttemptRecords, Idle
  <2>2. /\ \/ /\ fails' = [fails EXCEPT ![c] = IF @ < LockoutFailures THEN @ + 1 ELSE @]
              /\ IF fails[c] + 1 >= LockoutFailures THEN attempt' = [attempt EXCEPT ![a] = x]
                                                    ELSE attempt' = [attempt EXCEPT ![a] = Idle]
           \/ flaky /\ attempt' = [attempt EXCEPT ![a] = Idle] /\ fails' = fails
        /\ UNCHANGED <<used, guesses, lockedOut>>
    BY <1>6 DEF RegisterFailure, AttemptAt, Leave
  <2> HIDE DEF c, x
  <2>3. attempt' \in [Attempts -> AttemptRecords] /\ fails' \in [Callers -> 0..LockoutFailures]
    BY <1>0, <2>1, <2>2
  <2>4. LimiterTypeOK'
    BY <1>0, <1>2, <2>2, <2>3 DEF LimiterTypeOK, AttemptRecords, MaxGuesses
  <2>5. ASSUME NEW d \in Callers, ~flaky
        PROVE  CountedOf(d)'
    <3>1. JudgedOf(d)' = JudgedOf(d)
      BY <1>0, <2>1, <2>2, CountsMove, UnderBounds DEF c
    <3>2. /\ RefusedOf(d)' = RefusedOf(d) - (IF c = d THEN 1 ELSE 0)
      BY <1>0, <2>1, <2>2, CountsMove, UnderBounds DEF c
    <3>3. fails[d] \in 0..LockoutFailures /\ fails[c] \in 0..LockoutFailures /\ guesses[d] \in Nat
      BY <1>0, <2>1
    <3>4. CASE fails[c] + 1 >= LockoutFailures
      <4>1. HeldOf(d)' = HeldOf(d)
        BY <1>0, <2>1, <2>2, <2>5, <3>4, CountsMove, UnderBounds DEF c
      <4>2. fails'[d] = IF d = c THEN LockoutFailures ELSE fails[d]
        BY <1>0, <2>1, <2>2, <2>5, <3>3, <3>4
      <4> QED
        BY <1>0, <1>1, <2>2, <2>5, <3>1, <3>2, <3>3, <3>4, <4>1, <4>2, UnderBounds DEF CountedOf
    <3>5. CASE fails[c] + 1 < LockoutFailures
      <4>1. HeldOf(d)' = HeldOf(d) - (IF c = d THEN 1 ELSE 0)
        BY <1>0, <2>1, <2>2, <2>5, <3>3, <3>5, CountsMove, UnderBounds DEF c
      <4>2. fails'[d] = IF d = c THEN fails[d] + 1 ELSE fails[d]
        BY <1>0, <2>1, <2>2, <2>5, <3>3, <3>5
      <4> QED
        BY <1>0, <1>1, <2>2, <2>5, <3>1, <3>2, <3>3, <3>5, <4>1, <4>2, UnderBounds DEF CountedOf
    <3> QED
      BY <1>0, <3>3, <3>4, <3>5
  <2> QED
    BY <1>3, <2>4, <2>5
<1>7. CASE LockOut(a) \/ ClearFailures(a)
  <2> DEFINE c == attempt[a].caller
  <2>1. /\ attempt[a].pc \in {"locking", "granted"} /\ c \in Callers
        /\ Idle \in AttemptRecords /\ Idle.pc = "idle"
    BY <1>0, <1>7 DEF LockOut, ClearFailures, AttemptRecords, Idle
  <2>2. attempt' = [attempt EXCEPT ![a] = Idle] /\ UNCHANGED used
    BY <1>7 DEF LockOut, ClearFailures, Leave
  <2>3. \/ /\ attempt[a].pc = "locking" /\ UNCHANGED <<fails, guesses>>
           /\ lockedOut' = lockedOut \cup {c} \/ (flaky /\ lockedOut' = lockedOut)
        \/ /\ attempt[a].pc = "granted" /\ UNCHANGED lockedOut
           /\ \/ fails' = [fails EXCEPT ![c] = 0] /\ guesses' = [guesses EXCEPT ![c] = 0]
              \/ flaky /\ UNCHANGED <<fails, guesses>>
    BY <1>7 DEF LockOut, ClearFailures
  <2> HIDE DEF c
  <2>4. /\ attempt' \in [Attempts -> AttemptRecords] /\ fails' \in [Callers -> 0..LockoutFailures]
        /\ guesses' \in [Callers -> 0..MaxGuesses] /\ lockedOut' \subseteq Callers
    BY <1>0, <2>1, <2>2, <2>3
  <2>5. LimiterTypeOK'
    BY <1>0, <1>2, <2>2, <2>4 DEF LimiterTypeOK, AttemptRecords, MaxGuesses
  <2>6. ASSUME NEW d \in Callers, ~flaky
        PROVE  CountedOf(d)'
    <3>1. JudgedOf(d)' = JudgedOf(d) /\ RefusedOf(d)' = RefusedOf(d)
      <4>1. JudgedOf(d)' = JudgedOf(d) + 0 - 0
        BY <1>d, <2>1, <2>2
      <4>2. RefusedOf(d)' = RefusedOf(d) + 0 - 0
        BY <1>e, <2>1, <2>2
      <4> QED
        BY <1>n, <4>1, <4>2
    <3>2. HeldOf(d)' = HeldOf(d) - (IF attempt[a].pc = "locking" /\ c = d THEN 1 ELSE 0)
      <4>1. HeldOf(d)' = HeldOf(d) + 0 - (IF attempt[a].pc = "locking" /\ c = d THEN 1 ELSE 0)
        BY <1>f, <2>1, <2>2 DEF c
      <4> QED
        BY <1>n, <4>1
    <3>3. fails[d] \in 0..LockoutFailures /\ guesses[d] \in Nat
      BY <1>0
    <3>6. guesses'[d] \in {guesses[d], 0} /\ fails'[d] \in {fails[d], 0}
      BY <1>0, <2>1, <2>3
    <3>4. CASE attempt[a].pc = "locking"
      <4>1. guesses' = guesses /\ fails' = fails /\ lockedOut' = lockedOut \cup {c}
        BY <2>3, <2>6, <3>4
      <4>2. RefusedOf(d) <= HeldOf(d) /\ JudgedOf(d) + HeldOf(d) <= Cardinality(Attempts)
        BY UnderBounds
      <4>3. CASE d = c
        <5>1. guesses[d] + JudgedOf(d) < LockoutFailures + Cardinality(Attempts)
          BY <1>0, <1>1, <1>n, <2>6, <3>3, <4>2 DEF CountedOf
        <5> QED
          BY <3>1, <4>1, <4>3, <5>1 DEF CountedOf
      <4>4. CASE d # c
        BY <1>0, <1>1, <1>n, <2>6, <3>1, <3>2, <4>1, <4>4 DEF CountedOf
      <4> QED
        BY <4>3, <4>4
    <3>5. CASE attempt[a].pc = "granted"
      <4>1. d # c => fails'[d] = fails[d] /\ guesses'[d] = guesses[d]
        BY <1>0, <2>1, <2>3, <2>6, <3>5
      <4>2. d = c => fails'[d] = 0 /\ guesses'[d] = 0
        BY <1>0, <2>1, <2>3, <2>6, <3>5
      <4> QED
        BY <1>0, <1>1, <2>3, <2>6, <3>1, <3>2, <3>3, <3>5, <4>1, <4>2, UnderBounds DEF CountedOf
    <3> QED
      BY <2>1, <3>4, <3>5
  <2> QED
    BY <1>3, <2>5, <2>6
<1> QED
  BY <1>4, <1>5, <1>6, <1>7

\* A key of Redis that expires.
LEMMA ExpiryStep ==
    ASSUME LimiterInv,
           \/ \E k \in Callers \cup Codes : MinuteEnds(k)
           \/ \E c \in Callers : FailuresExpire(c) \/ LockExpires(c)
    PROVE  LimiterTypeOK' /\ GuessesCounted'
<1>0. /\ used \in [Callers \cup Codes -> Nat]
      /\ \A c \in Callers : used[c] <= CallerQuota
      /\ \A k \in Codes : used[k] <= CodeQuota
      /\ fails \in [Callers -> 0..LockoutFailures] /\ guesses \in [Callers -> 0..MaxGuesses]
      /\ lockedOut \subseteq Callers /\ MaxGuesses \in Nat
      /\ LockoutFailures \in Nat \ {0} /\ CallerQuota \in Nat /\ CodeQuota \in Nat
      /\ Cardinality(Attempts) \in Nat
  BY LimiterAssumption, UnderBounds DEF LimiterInv, LimiterTypeOK, MaxGuesses
<1>1. UNCHANGED <<flaky, attempt>>
  BY DEF MinuteEnds, FailuresExpire, LockExpires
<1>2. LimiterTypeOK'
  <2>1. CASE \E k \in Callers \cup Codes : MinuteEnds(k)
    BY <1>0, <2>1 DEF MinuteEnds, LimiterInv, LimiterTypeOK, MaxGuesses
  <2>2. CASE \E c \in Callers : FailuresExpire(c) \/ LockExpires(c)
    BY <1>0, <2>2 DEF FailuresExpire, LockExpires, LimiterInv, LimiterTypeOK, MaxGuesses
  <2> QED
    BY <2>1, <2>2
<1>3. \A d \in Callers : /\ JudgedOf(d)' = JudgedOf(d) /\ RefusedOf(d)' = RefusedOf(d)
                         /\ HeldOf(d)' = HeldOf(d)
  BY <1>1 DEF JudgedOf, RefusedOf, HeldOf, Under
<1>4. ASSUME NEW d \in Callers, ~flaky
      PROVE  CountedOf(d)'
  <2>1. CountedOf(d)
    BY <1>4 DEF LimiterInv, GuessesCounted, JudgedOf, RefusedOf, HeldOf, CountedOf, MaxGuesses
  <2>2. \/ fails'[d] = fails[d] /\ guesses'[d] = guesses[d] /\ (d \in lockedOut' <=> d \in lockedOut)
        \/ guesses'[d] = 0 /\ fails'[d] \in 0..LockoutFailures
    BY <1>0 DEF MinuteEnds, FailuresExpire, LockExpires
  <2>3. /\ JudgedOf(d) \in Nat /\ RefusedOf(d) \in Nat /\ HeldOf(d) \in Nat
        /\ JudgedOf(d) + HeldOf(d) <= Cardinality(Attempts)
    BY UnderBounds
  <2>4. CASE fails'[d] = fails[d] /\ guesses'[d] = guesses[d] /\ (d \in lockedOut' <=> d \in lockedOut)
    BY <1>3, <2>1, <2>4 DEF CountedOf
  <2>5. CASE guesses'[d] = 0 /\ fails'[d] \in 0..LockoutFailures
    <3>1. CASE d \in lockedOut'
      BY <1>0, <1>3, <2>3, <2>5, <3>1 DEF CountedOf
    <3>2. CASE d \notin lockedOut'
      BY <1>0, <1>3, <2>3, <2>5, <3>2 DEF CountedOf
    <3> QED
      BY <3>1, <3>2
  <2> QED
    BY <2>2, <2>4, <2>5
<1>5. GuessesCounted'
  BY <1>1, <1>4 DEF GuessesCounted, JudgedOf, RefusedOf, HeldOf, CountedOf, MaxGuesses
<1> QED
  BY <1>2, <1>5

\* Whatever requests are sent together, and whatever key expires between their steps, a phone
\* is refused fewer times than the limit of failures and the requests handled at once,
\* while Redis answers (barcode-auth.service.ts, rate-limiter.service.ts).
THEOREM GuessesBounded == LimiterSpec => []LimiterInv
<1>1. LimiterInit => LimiterInv
  <2> SUFFICES ASSUME LimiterInit
               PROVE  LimiterInv
    OBVIOUS
  <2>1. /\ LockoutFailures \in Nat \ {0} /\ CallerQuota \in Nat \ {0} /\ CodeQuota \in Nat \ {0}
        /\ Cardinality(Attempts) \in Nat
    BY LimiterAssumption, UnderBounds
  <2>2. LimiterTypeOK
    BY <2>1 DEF LimiterInit, LimiterTypeOK, MaxGuesses
  <2>3. GuessesCounted
    <3>1. \A c \in Callers : /\ guesses[c] = 0 /\ fails[c] = 0 /\ c \notin lockedOut
      BY DEF LimiterInit
    <3> QED
      BY <2>1, <3>1, UnderBounds DEF GuessesCounted, RefusedOf
  <2> QED
    BY <2>2, <2>3, CountedAreBounded DEF LimiterInv
<1>2. LimiterInv /\ [LimiterNext]_limiterVars => LimiterInv'
  <2> SUFFICES ASSUME LimiterInv, [LimiterNext]_limiterVars
               PROVE  LimiterTypeOK' /\ GuessesCounted'
    BY CountedAreBounded, PTL DEF LimiterInv
  <2>1. CASE UNCHANGED limiterVars
    BY <2>1 DEF limiterVars, LimiterInv, LimiterTypeOK, GuessesCounted, Under, MaxGuesses
  <2> QED
    BY <2>1, AttemptStep, ExpiryStep DEF LimiterNext
<1> QED
  BY <1>1, <1>2, PTL DEF LimiterSpec

-----------------------------------------------------------------------------
(* Links with Trajelys *)

CallRecords == {Asleep} \cup [pc : {"slug", "insert", "reread"}, slug : Slugs]
DecisionRecords == {Asleep} \cup
    [pc : {"write", "revoke"}, company : Companies, before : Accounts \cup {Free},
     to : Accounts \cup {Free}]
VisitRecords == {Asleep} \cup [pc : {"open"}, account : Accounts, found : Companies]

\* As many slugs as there are companies are taken at most.
LEMMA SlugsRunOut ==
    ASSUME slug \in [Companies -> 0 .. Cardinality(Companies) + 1],
           NEW n \in Nat, \A m \in 1..n : SlugTaken(m)
    PROVE  n <= Cardinality(Companies)
<1>1. IsFiniteSet(Companies) /\ Cardinality(Companies) \in Nat
  BY LinkAssumption, FS_CardinalityType
<1>2. IsFiniteSet(1..n) /\ Cardinality(1..n) = n
  BY FS_Interval
<1> SUFFICES ASSUME Cardinality(Companies) < n
             PROVE  FALSE
  BY <1>1
<1> DEFINE holder == [m \in 1..n |-> CHOOSE c \in Companies : slug[c] = m]
<1>3. \A m \in 1..n : holder[m] \in Companies /\ slug[holder[m]] = m
  BY DEF SlugTaken
<1>4. holder \in [1..n -> Companies]
  BY <1>3
<1> HIDE DEF holder
<1>5. \E x, y \in 1..n : x # y /\ holder[x] = holder[y]
  BY <1>1, <1>2, <1>4, FS_PigeonHole
<1> QED
  BY <1>3, <1>5

\* An account is answered one company at most, since it has one at most.
LEMMA AnsweredOnce ==
    ASSUME LinkTypeOK, AnswersAgree
    PROVE  SameCompany
<1> SUFFICES ASSUME NEW a \in Accounts
             PROVE  Cardinality(answered[a]) <= 1
  BY DEF SameCompany
<1>1. \A c, d \in answered[a] : c = d
  BY LinkAssumption DEF AnswersAgree, CompanyOf
<1>2. CASE answered[a] = {}
  <2>1. Cardinality({}) = 0
    BY FS_EmptySet
  <2>2. Cardinality(answered[a]) = 0
    BY <1>2, <2>1, Zenon
  <2> QED
    BY <2>2
<1>3. CASE answered[a] # {}
  <2>1. PICK c : answered[a] = {c}
    BY <1>1, <1>3
  <2>2. Cardinality({c}) = 1
    BY FS_Singleton
  <2> QED
    BY <2>1, <2>2
<1> QED
  BY <1>2, <1>3

\* A step of a request of provisioning.
LEMMA RequestStep ==
    ASSUME LinkInv, NEW p \in Requests, provisionner(p) \/ ProvisionStep(p)
    PROVE  LinkInv'
<1>0. /\ slug \in [Companies -> 0 .. Cardinality(Companies) + 1]
      /\ link \in [Companies -> Accounts \cup {Free}]
      /\ call \in [Requests -> CallRecords]
      /\ answered \in [Accounts -> SUBSET Companies]
      /\ Cardinality(Companies) \in Nat /\ Free \notin Accounts /\ p[1] \in Accounts
      /\ AnswersAgree /\ SlugsTried /\ DecisionsAgree /\ LinkTypeOK /\ CutEndsEntries
  BY LinkAssumption, FS_CardinalityType DEF LinkInv, LinkTypeOK, CallRecords, Requests
<1>1. UNCHANGED <<decision, decisions, resident, visit, entries>>
  BY DEF provisionner, ProvisionStep, slugLibre, Insert, Reread, Give, linkDecided
<1>2. ASSUME NEW r \in CallRecords, call' = [call EXCEPT ![p] = r],
             r # Asleep => \A n \in 1 .. r.slug - 1 : SlugTaken(n)
      PROVE  /\ call' \in [Requests -> CallRecords]
             /\ \A q \in Requests : call'[q] # Asleep => \A n \in 1 .. call'[q].slug - 1 : SlugTaken(n)
  <2>1. call' \in [Requests -> CallRecords]
    BY <1>0, <1>2
  <2>2. \A q \in Requests : call'[q] = r \/ call'[q] = call[q]
    BY <1>0, <1>2
  <2> QED
    BY <1>0, <1>2, <2>1, <2>2 DEF SlugsTried
<1>3. ASSUME UNCHANGED <<slug, link>>, call' \in [Requests -> CallRecords],
             \A q \in Requests : call'[q] # Asleep => \A n \in 1 .. call'[q].slug - 1 : SlugTaken(n),
             \/ answered' = answered
             \/ answered' = [answered EXCEPT ![p[1]] = @ \cup CompanyOf(p[1])]
      PROVE  LinkInv'
  <2>1. answered' \in [Accounts -> SUBSET Companies]
    BY <1>0, <1>3 DEF CompanyOf
  <2>2. LinkTypeOK'
    BY <1>0, <1>1, <1>3, <2>1 DEF LinkTypeOK, CallRecords
  <2>3. AnswersAgree'
    <3>1. \A a \in Accounts : answered'[a] \subseteq CompanyOf(a)
      BY <1>0, <1>3 DEF AnswersAgree
    <3> QED
      BY <1>0, <1>3, <3>1 DEF AnswersAgree, CompanyOf, Exists
  <2>4. SlugsTried'
    BY <1>3 DEF SlugsTried, SlugTaken
  <2>5. DecisionsAgree' /\ CutEndsEntries'
    BY <1>0, <1>1, <1>3 DEF DecisionsAgree, CutEndsEntries, Exists
  <2>6. SameCompany'
    BY <2>2, <2>3, AnsweredOnce, PTL
  <2> QED
    BY <2>2, <2>3, <2>4, <2>5, <2>6 DEF LinkInv
<1>4. Asleep \in CallRecords
  BY DEF CallRecords
<1>5. CASE provisionner(p)
  <2>1. CASE Linked(p[1])
    BY <1>2, <1>3, <1>4, <1>5, <2>1 DEF provisionner, Give, Rest
  <2>2. CASE ~Linked(p[1])
    <3> DEFINE r == [pc |-> "slug", slug |-> 1]
    <3>1. r \in CallRecords /\ r.slug = 1 /\ 1 .. r.slug - 1 = {}
      BY <1>0 DEF CallRecords, Slugs
    <3>2. call' = [call EXCEPT ![p] = r] /\ UNCHANGED <<slug, link, answered>>
      BY <1>5, <2>2 DEF provisionner
    <3> HIDE DEF r
    <3>3. \A n \in 1 .. r.slug - 1 : SlugTaken(n)
      BY <3>1
    <3> QED
      BY <1>2, <1>3, <3>1, <3>2, <3>3
  <2> QED
    BY <2>1, <2>2
<1>6. CASE slugLibre(p)
  <2>1. /\ call[p].pc = "slug" /\ call[p] # Asleep
        /\ call[p] \in [pc : {"slug", "insert", "reread"}, slug : Slugs]
        /\ \A n \in 1 .. call[p].slug - 1 : SlugTaken(n)
    BY <1>0, <1>6 DEF slugLibre, CallRecords, Asleep, SlugsTried
  <2>2. call[p].slug \in 1 .. Cardinality(Companies) + 1
    BY <2>1 DEF Slugs
  <2>3. UNCHANGED <<slug, link, answered>>
    BY <1>6 DEF slugLibre, Rest
  <2>0. ~(call[p].slug < Tries /\ call[p].slug >= Tries)
    BY <1>0, <2>2, LinkAssumption
  <2>4. CASE SlugTaken(call[p].slug) /\ call[p].slug < Tries
    <3> DEFINE r == [call[p] EXCEPT !.slug = @ + 1]
    <3>1. \A n \in 1 .. call[p].slug : SlugTaken(n)
      BY <2>1, <2>2, <2>4
    <3>2. call[p].slug <= Cardinality(Companies)
      BY <1>0, <2>2, <3>1, SlugsRunOut
    <3>3. r \in CallRecords /\ r.slug = call[p].slug + 1
      BY <1>0, <2>1, <2>2, <3>2 DEF CallRecords, Slugs
    <3>4. call' = [call EXCEPT ![p] = r]
      <4>1. call' = [call EXCEPT ![p].slug = @ + 1]
        BY <1>6, <2>0, <2>4, Zenon DEF slugLibre
      <4> QED
        BY <4>1
    <3> HIDE DEF r
    <3>5. \A n \in 1 .. r.slug - 1 : SlugTaken(n)
      BY <1>0, <2>2, <3>1, <3>3
    <3> QED
      BY <1>2, <1>3, <2>3, <3>3, <3>4, <3>5
  <2>5. CASE ~SlugTaken(call[p].slug)
    <3> DEFINE r == [call[p] EXCEPT !.pc = "insert"]
    <3>1. r \in CallRecords /\ r.slug = call[p].slug
      BY <2>1 DEF CallRecords
    <3>2. call' = [call EXCEPT ![p] = r]
      BY <1>6, <2>5 DEF slugLibre
    <3> HIDE DEF r
    <3> QED
      BY <1>2, <1>3, <2>1, <2>3, <3>1, <3>2
  <2>6. CASE SlugTaken(call[p].slug) /\ call[p].slug >= Tries
    <3>1. call' = [call EXCEPT ![p] = Asleep]
      BY <1>6, <2>0, <2>6, Zenon DEF slugLibre, Rest
    <3> QED
      BY <1>2, <1>3, <1>4, <2>3, <3>1
  <2> QED
    BY <1>6, <2>4, <2>5, <2>6, Zenon DEF slugLibre
<1>7. CASE Insert(p)
  <2>1. /\ call[p].pc = "insert" /\ call[p] # Asleep
        /\ call[p] \in [pc : {"slug", "insert", "reread"}, slug : Slugs]
        /\ \A n \in 1 .. call[p].slug - 1 : SlugTaken(n)
    BY <1>0, <1>7 DEF Insert, CallRecords, Asleep, SlugsTried
  <2>2. CASE Conflict(p)
    <3> DEFINE r == [call[p] EXCEPT !.pc = "reread"]
    <3>1. r \in CallRecords /\ r.slug = call[p].slug
      BY <2>1 DEF CallRecords
    <3>2. call' = [call EXCEPT ![p] = r] /\ UNCHANGED <<slug, link, answered>>
      BY <2>2 DEF Conflict
    <3> HIDE DEF r
    <3> QED
      BY <1>2, <1>3, <2>1, <3>1, <3>2
  <2>3. ASSUME NEW c \in Companies, ~Linked(p[1]), Created(p, c)
        PROVE  LinkInv'
    <3>1. /\ slug[c] = 0 /\ slug' = [slug EXCEPT ![c] = call[p].slug]
          /\ link[c] = Free /\ link' = [link EXCEPT ![c] = p[1]]
          /\ answered' = [answered EXCEPT ![p[1]] = @ \cup {c}]
          /\ call' = [call EXCEPT ![p] = Asleep]
      BY <1>0, <2>3 DEF Created, Rest, Exists, AnswersAgree
    <3>2. call[p].slug \in 1 .. Cardinality(Companies) + 1
      BY <2>1 DEF Slugs
    <3>3. /\ slug' \in [Companies -> 0 .. Cardinality(Companies) + 1]
          /\ link' \in [Companies -> Accounts \cup {Free}]
          /\ call' \in [Requests -> CallRecords]
          /\ answered' \in [Accounts -> SUBSET Companies]
      BY <1>0, <1>4, <3>1, <3>2
    <3>4. LinkTypeOK'
      BY <1>0, <1>1, <3>3 DEF LinkTypeOK, CallRecords
    <3>5. \A d \in Companies : link[d] # p[1]
      BY <2>3 DEF Linked, CompanyOf
    <3>6. AnswersAgree'
      <4>1. \A d, f \in Companies : link'[d] = link'[f] /\ link'[d] # Free => d = f
        BY <1>0, <3>1, <3>5 DEF AnswersAgree
      <4>2. \A d \in Companies : slug'[d] = 0 => link'[d] = Free
        BY <1>0, <3>1, <3>2 DEF AnswersAgree, Exists
      <4>3. ASSUME NEW a \in Accounts, NEW d \in answered'[a]
            PROVE  d \in Companies /\ link'[d] = a
        <5>1. d \in answered[a] \/ (d = c /\ a = p[1])
          BY <1>0, <3>1, <4>3
        <5>2. d \in answered[a] => d \in Companies /\ link[d] = a /\ d # c
          BY <1>0, <3>1 DEF AnswersAgree, CompanyOf
        <5> QED
          BY <1>0, <3>1, <5>1, <5>2
      <4> QED
        BY <4>1, <4>2, <4>3 DEF AnswersAgree, Exists, CompanyOf
    <3>7. \A n : n # 0 /\ SlugTaken(n) => SlugTaken(n)'
      BY <1>0, <3>1 DEF SlugTaken
    <3>8. SlugsTried'
      <4>1. \A q \in Requests : call'[q] # Asleep => call'[q] = call[q]
        BY <1>0, <3>1
      <4>2. \A q \in Requests : call'[q] # Asleep => \A n \in 1 .. call'[q].slug - 1 : SlugTaken(n)'
        BY <1>0, <3>7, <4>1 DEF SlugsTried
      <4> QED
        BY <4>2 DEF SlugsTried
    <3>9. DecisionsAgree'
      BY <1>0, <1>1, <3>1, <3>2 DEF DecisionsAgree, Exists, LinkTypeOK, DecisionRecords
    <3>10. CutEndsEntries'
      <4>1. \A x \in entries : x.account \in Accounts /\ x.company \in Companies
        BY <1>0 DEF LinkTypeOK, Entries
      <4> QED
        BY <1>0, <1>1, <3>1, <4>1 DEF CutEndsEntries
    <3>11. SameCompany'
      BY <3>4, <3>6, AnsweredOnce, PTL
    <3> QED
      BY <3>4, <3>6, <3>8, <3>9, <3>10, <3>11 DEF LinkInv
  <2> QED
    BY <1>7, <2>2, <2>3 DEF Insert
<1>8. CASE Reread(p)
  BY <1>2, <1>3, <1>4, <1>8 DEF Reread, Give, Rest
<1> QED
  BY <1>5, <1>6, <1>7, <1>8 DEF ProvisionStep

\* A company an operator creates, for no account yet.
LEMMA CreationStep ==
    ASSUME LinkInv, NEW c \in Companies, CreateCompany(c)
    PROVE  LinkInv'
<1>0. /\ slug \in [Companies -> 0 .. Cardinality(Companies) + 1]
      /\ Cardinality(Companies) \in Nat /\ MaxDecisions \in Nat
      /\ AnswersAgree /\ SlugsTried /\ DecisionsAgree /\ LinkTypeOK /\ CutEndsEntries
  BY LinkAssumption, FS_CardinalityType DEF LinkInv, LinkTypeOK
<1>1. /\ UNCHANGED <<link, decision, entries, answered, call, resident, visit>>
      /\ slug[c] = 0 /\ decisions < MaxDecisions /\ decisions' = decisions + 1
  BY DEF CreateCompany, linkGiven, Exists
<1>2. PICK n \in Slugs : slug' = [slug EXCEPT ![c] = n]
  BY DEF CreateCompany
<1>3. n \in 1 .. Cardinality(Companies) + 1
  BY DEF Slugs
<1>4. slug' \in [Companies -> 0 .. Cardinality(Companies) + 1]
  BY <1>0, <1>2, <1>3
<1>5. LinkTypeOK'
  BY <1>0, <1>1, <1>4 DEF LinkTypeOK
<1>6. \A m : m # 0 /\ SlugTaken(m) => SlugTaken(m)'
  BY <1>0, <1>1, <1>2 DEF SlugTaken
<1>7. SlugsTried'
  BY <1>0, <1>1, <1>6 DEF SlugsTried
<1>8. \A d \in Companies : Exists(d) => Exists(d)'
  BY <1>0, <1>2, <1>3 DEF Exists
<1>9. AnswersAgree' /\ CutEndsEntries' /\ SameCompany'
  BY <1>0, <1>1, <1>8 DEF LinkInv, AnswersAgree, CutEndsEntries, SameCompany, CompanyOf
<1>10. DecisionsAgree'
  BY <1>0, <1>1, <1>8 DEF DecisionsAgree, LinkTypeOK, Asleep
<1> QED
  BY <1>5, <1>7, <1>9, <1>10 DEF LinkInv

\* A step of the only operator at work: what was read of the link still holds when it is
\* written, and the entries of a link that goes are revoked after it.
LEMMA DeskStep ==
    ASSUME NEW k, Desks = {k}, LinkInv,
           \/ \E c \in Companies, to \in Accounts \cup {Free} : DecideLink(k, c, to)
           \/ WriteLink(k) \/ RevokeEntries(k)
    PROVE  LinkInv'
<1>0. /\ slug \in [Companies -> 0 .. Cardinality(Companies) + 1]
      /\ link \in [Companies -> Accounts \cup {Free}]
      /\ decision \in [Desks -> DecisionRecords]
      /\ decision[k] # Asleep => decision[k] \in
             [pc : {"write", "revoke"}, company : Companies, before : Accounts \cup {Free},
              to : Accounts \cup {Free}]
      /\ answered \in [Accounts -> SUBSET Companies]
      /\ MaxDecisions \in Nat /\ Free \notin Accounts /\ decisions \in 0 .. MaxDecisions
      /\ AnswersAgree /\ SlugsTried /\ DecisionsAgree /\ LinkTypeOK /\ CutEndsEntries /\ SameCompany
      /\ \A x \in entries : x.account \in Accounts /\ x.company \in Companies
      /\ entries \subseteq Entries
  BY LinkAssumption DEF LinkInv, LinkTypeOK, DecisionRecords, Entries
<1>1. UNCHANGED <<slug, call, resident, visit>>
  BY DEF DecideLink, WriteLink, Relink, RevokeEntries, linkGiven
<1>2. Asleep \in DecisionRecords /\ Asleep.pc = "idle"
  BY DEF DecisionRecords, Asleep
<1>3. SlugsTried'
  BY <1>0, <1>1 DEF SlugsTried, SlugTaken
<1>4. ASSUME NEW c \in Companies, NEW to \in Accounts \cup {Free}, DecideLink(k, c, to)
      PROVE  LinkInv'
  <2> DEFINE d == [pc |-> "write", company |-> c, before |-> link[c], to |-> to]
  <2>1. /\ d \in DecisionRecords /\ d.pc = "write" /\ d.company = c /\ d.before = link[c]
    BY <1>0 DEF DecisionRecords
  <2>2. /\ decision[k] = Asleep /\ slug[c] # 0 /\ decision' = [decision EXCEPT ![k] = d]
        /\ UNCHANGED <<link, entries, answered>>
        /\ decisions < MaxDecisions /\ decisions' = decisions + 1
    BY <1>4 DEF DecideLink, Exists
  <2> HIDE DEF d
  <2>3. LinkTypeOK'
    BY <1>0, <1>1, <2>1, <2>2 DEF LinkTypeOK, DecisionRecords
  <2>4. AnswersAgree' /\ SameCompany'
    BY <1>0, <1>1, <2>2 DEF AnswersAgree, SameCompany, CompanyOf, Exists
  <2>5. DecisionsAgree'
    BY <1>0, <1>1, <2>1, <2>2 DEF DecisionsAgree, Exists
  <2>6. CutEndsEntries'
    BY <1>0, <1>2, <2>2 DEF CutEndsEntries
  <2> QED
    BY <1>3, <2>3, <2>4, <2>5, <2>6 DEF LinkInv
<1>5. CASE WriteLink(k)
  <2> DEFINE d == decision[k]
             revokes == d.before # Free /\ d.to # d.before
             after == IF revokes THEN [d EXCEPT !.pc = "revoke"] ELSE Asleep
  <2>1. /\ d.pc = "write" /\ d.company \in Companies /\ d.to \in Accounts \cup {Free}
        /\ slug[d.company] # 0 /\ link[d.company] = d.before
    BY <1>0, <1>2, <1>5 DEF WriteLink, Relink, DecisionsAgree, Exists
  <2>2. /\ after \in DecisionRecords /\ (revokes => after.pc = "revoke" /\ after.company = d.company)
        /\ (~revokes => after = Asleep)
    BY <1>0, <1>2, <2>1 DEF DecisionRecords
  <2>3. UNCHANGED <<decisions, entries>>
    BY <1>5 DEF WriteLink, Relink
  <2>4. CASE Vacant(d.to, d.company)
    <3>1. /\ link' = [link EXCEPT ![d.company] = d.to]
          /\ answered' = [a \in Accounts |-> IF a \in {d.to, link[d.company]} THEN {} ELSE answered[a]]
          /\ decision' = [decision EXCEPT ![k] = after]
      BY <1>5, <2>4 DEF WriteLink, Relink
    <3>2. \A c \in Companies : d.to # Free /\ link[c] = d.to => c = d.company
      BY <2>4 DEF Vacant, CompanyOf
    <3> HIDE DEF d, revokes, after
    <3>3. LinkTypeOK'
      <4>1. /\ link' \in [Companies -> Accounts \cup {Free}] /\ answered' \in [Accounts -> SUBSET Companies]
            /\ decision' \in [Desks -> DecisionRecords]
        BY <1>0, <2>1, <2>2, <3>1
      <4> QED
        BY <1>0, <1>1, <2>3, <4>1 DEF LinkTypeOK, DecisionRecords
    <3>4. AnswersAgree'
      <4>1. \A c, f \in Companies : link'[c] = link'[f] /\ link'[c] # Free => c = f
        BY <1>0, <2>1, <3>1, <3>2 DEF AnswersAgree
      <4>2. \A c \in Companies : slug'[c] = 0 => link'[c] = Free
        BY <1>0, <1>1, <2>1, <3>1 DEF AnswersAgree, Exists
      <4>3. ASSUME NEW a \in Accounts, NEW c \in answered'[a]
            PROVE  c \in Companies /\ link'[c] = a
        <5>1. c \in answered[a] /\ a # link[d.company]
          BY <3>1, <4>3
        <5>2. c \in Companies /\ link[c] = a
          BY <1>0, <5>1 DEF AnswersAgree, CompanyOf
        <5> QED
          BY <1>0, <3>1, <5>1, <5>2
      <4> QED
        BY <4>1, <4>2, <4>3 DEF AnswersAgree, Exists, CompanyOf
    <3>5. SameCompany'
      BY <3>3, <3>4, AnsweredOnce, PTL
    <3>6. DecisionsAgree'
      <4>1. decision'[k] # Asleep => decision'[k].pc = "revoke" /\ slug[decision'[k].company] # 0
        BY <1>0, <2>1, <2>2, <3>1
      <4> QED
        BY <1>0, <1>1, <4>1 DEF DecisionsAgree, Exists
    <3>7. CutEndsEntries'
      <4> SUFFICES ASSUME NEW x \in entries
                   PROVE  \/ link'[x.company] = x.account \/ x.late
                          \/ \E q \in Desks : decision'[q].pc = "revoke" /\ decision'[q].company = x.company
        BY <2>3 DEF CutEndsEntries
      <4>1. link[x.company] = x.account \/ x.late
        BY <1>0, <2>1 DEF CutEndsEntries, d
      <4>2. CASE x.company # d.company
        BY <1>0, <3>1, <4>1, <4>2
      <4>3. CASE x.company = d.company
        BY <1>0, <2>1, <2>2, <3>1, <4>1, <4>3 DEF revokes
      <4> QED
        BY <4>2, <4>3
    <3> QED
      BY <1>3, <3>3, <3>4, <3>5, <3>6, <3>7 DEF LinkInv
  <2>5. CASE ~Vacant(d.to, d.company)
    <3>1. decision' = [decision EXCEPT ![k] = Asleep] /\ UNCHANGED <<link, answered>>
      BY <1>5, <2>5 DEF WriteLink, Relink
    <3>2. LinkTypeOK'
      BY <1>0, <1>1, <1>2, <2>3, <3>1 DEF LinkTypeOK, DecisionRecords
    <3>3. AnswersAgree' /\ SameCompany' /\ DecisionsAgree'
      BY <1>0, <1>1, <3>1 DEF AnswersAgree, SameCompany, DecisionsAgree, CompanyOf, Exists
    <3>4. CutEndsEntries'
      BY <1>0, <2>1, <2>3, <3>1 DEF CutEndsEntries
    <3> QED
      BY <1>3, <3>2, <3>3, <3>4 DEF LinkInv
  <2> QED
    BY <2>4, <2>5
<1>6. CASE RevokeEntries(k)
  <2>1. /\ entries' = {x \in entries : x.company # decision[k].company}
        /\ decision' = [decision EXCEPT ![k] = Asleep]
        /\ UNCHANGED <<link, decisions, answered>>
    BY <1>6 DEF RevokeEntries
  <2>2. LinkTypeOK'
    <3>1. entries' \subseteq Entries /\ decision' \in [Desks -> DecisionRecords]
      BY <1>0, <1>2, <2>1
    <3> QED
      BY <1>0, <1>1, <2>1, <3>1 DEF LinkTypeOK, DecisionRecords
  <2>3. AnswersAgree' /\ SameCompany' /\ DecisionsAgree'
    BY <1>0, <1>1, <2>1 DEF AnswersAgree, SameCompany, DecisionsAgree, CompanyOf, Exists
  <2>4. CutEndsEntries'
    BY <1>0, <2>1 DEF CutEndsEntries
  <2> QED
    BY <1>3, <2>2, <2>3, <2>4 DEF LinkInv
<1> QED
  BY <1>4, <1>5, <1>6

\* A connection of the bearer of an account.
LEMMA VisitStep ==
    ASSUME LinkInv, NEW v \in Visits,
           (\E a \in Accounts : ResolveVisit(v, a)) \/ OpenEntry(v) \/ GiveUpVisit(v)
    PROVE  LinkInv'
<1>0. /\ link \in [Companies -> Accounts \cup {Free}]
      /\ resident \in [Accounts -> Companies \cup {Free}]
      /\ visit \in [Visits -> VisitRecords]
      /\ AnswersAgree /\ SlugsTried /\ DecisionsAgree /\ LinkTypeOK /\ CutEndsEntries /\ SameCompany
      /\ entries \subseteq Entries
  BY DEF LinkInv, LinkTypeOK, VisitRecords
<1>1. UNCHANGED <<slug, link, call, decision, decisions, answered>>
  BY DEF ResolveVisit, OpenEntry, GiveUpVisit
<1>2. AnswersAgree' /\ SlugsTried' /\ SameCompany'
  BY <1>0, <1>1 DEF AnswersAgree, SlugsTried, SameCompany, CompanyOf, Exists, SlugTaken
<1>3. Asleep \in VisitRecords
  BY DEF VisitRecords
<1>4. ASSUME NEW a \in Accounts, ResolveVisit(v, a)
      PROVE  LinkInv'
  <2>1. PICK c \in CompanyOf(a) :
            /\ visit' = [visit EXCEPT ![v] = [pc |-> "open", account |-> a, found |-> c]]
            /\ resident' = IF resident[a] = Free THEN [resident EXCEPT ![a] = c] ELSE resident
    BY <1>4 DEF ResolveVisit
  <2> DEFINE x == [pc |-> "open", account |-> a, found |-> c]
  <2>2. x \in VisitRecords /\ x.account = a /\ c \in Companies
    BY DEF VisitRecords, CompanyOf
  <2>3. visit' = [visit EXCEPT ![v] = x] /\ UNCHANGED entries
    BY <1>4, <2>1 DEF ResolveVisit
  <2> HIDE DEF x
  <2>4. /\ resident' \in [Accounts -> Companies \cup {Free}] /\ resident'[a] \in Companies
        /\ \A b \in Accounts : resident[b] \in Companies => resident'[b] \in Companies
    BY <1>0, <2>1, <2>2
  <2>5. LinkTypeOK'
    <3>1. visit' \in [Visits -> VisitRecords]
      BY <1>0, <2>2, <2>3
    <3> QED
      BY <1>0, <1>1, <2>3, <2>4, <3>1 DEF LinkTypeOK, VisitRecords
  <2>6. DecisionsAgree'
    <3>1. ASSUME NEW w \in Visits, visit'[w] # Asleep
          PROVE  resident'[visit'[w].account] \in Companies
      <4>1. CASE w = v
        BY <1>0, <2>2, <2>3, <2>4, <4>1
      <4>2. CASE w # v
        <5>1. visit'[w] = visit[w] /\ visit[w].account \in Accounts
          BY <1>0, <2>3, <3>1, <4>2 DEF VisitRecords
        <5> QED
          BY <1>0, <2>4, <3>1, <5>1 DEF DecisionsAgree
      <4> QED
        BY <4>1, <4>2
    <3> QED
      BY <1>0, <1>1, <3>1 DEF DecisionsAgree, Exists
  <2>7. CutEndsEntries'
    BY <1>0, <1>1, <2>3 DEF CutEndsEntries
  <2> QED
    BY <1>2, <2>5, <2>6, <2>7 DEF LinkInv
<1>5. CASE OpenEntry(v) \/ GiveUpVisit(v)
  <2>1. visit' = [visit EXCEPT ![v] = Asleep] /\ UNCHANGED resident
    BY <1>5 DEF OpenEntry, GiveUpVisit
  <2>2. /\ entries' \subseteq Entries
        /\ \A x \in entries' : x \in entries \/ x.late \/ link[x.company] = x.account
    <3>1. CASE GiveUpVisit(v)
      BY <1>0, <3>1 DEF GiveUpVisit
    <3>2. CASE OpenEntry(v)
      <4> DEFINE a == visit[v].account
                 x == [account |-> a, company |-> resident[a], found |-> visit[v].found,
                       late |-> link[resident[a]] # a]
      <4>1. a \in Accounts /\ visit[v].found \in Companies /\ resident[a] \in Companies
        BY <1>0, <3>2 DEF OpenEntry, VisitRecords, Asleep, DecisionsAgree
      <4>2. entries' = entries \cup {x}
        BY <3>2 DEF OpenEntry
      <4>3. x.late \/ link[x.company] = x.account
        OBVIOUS
      <4>4. x \in Entries
        BY <4>1 DEF Entries
      <4> HIDE DEF x
      <4> QED
        BY <1>0, <4>2, <4>3, <4>4
    <3> QED
      BY <1>5, <3>1, <3>2
  <2>3. LinkTypeOK'
    <3>1. visit' \in [Visits -> VisitRecords]
      BY <1>0, <1>3, <2>1
    <3> QED
      BY <1>0, <1>1, <2>1, <2>2, <3>1 DEF LinkTypeOK, VisitRecords
  <2>4. DecisionsAgree'
    BY <1>0, <1>1, <2>1 DEF DecisionsAgree, Exists
  <2>5. CutEndsEntries'
    BY <1>0, <1>1, <2>2 DEF CutEndsEntries
  <2> QED
    BY <1>2, <2>3, <2>4, <2>5 DEF LinkInv
<1> QED
  BY <1>4, <1>5

\* As long as one operator works at a time, an account of Trajelys has one company, however
\* many of its requests race for it, and the tokens a link gave go with the link; a request
\* finds a free slug within as many tries as there are companies (trajelys-integration.service.ts,
\* companies.controller.ts).
THEOREM OneCompanyByAccount ==
    ASSUME NEW k, Desks = {k}
    PROVE  LinkSpec => []LinkInv
<1>1. LinkInit => LinkInv
  <2> SUFFICES ASSUME LinkInit
               PROVE  LinkInv
    OBVIOUS
  <2>1. LinkTypeOK
    <3>1. Cardinality(Companies) \in Nat /\ MaxDecisions \in Nat
      BY LinkAssumption, FS_CardinalityType
    <3> QED
      BY <3>1 DEF LinkInit, LinkTypeOK
  <2>2. AnswersAgree /\ SlugsTried /\ DecisionsAgree /\ CutEndsEntries
    BY DEF LinkInit, AnswersAgree, SlugsTried, DecisionsAgree, CutEndsEntries
  <2> QED
    BY <2>1, <2>2, AnsweredOnce DEF LinkInv
<1>2. LinkInv /\ [LinkNext]_linkVars => LinkInv'
  <2> SUFFICES ASSUME LinkInv, [LinkNext]_linkVars
               PROVE  LinkInv'
    OBVIOUS
  <2>1. CASE UNCHANGED linkVars
    BY <2>1 DEF linkVars, LinkInv, LinkTypeOK, AnswersAgree, SlugsTried, DecisionsAgree, SameCompany,
                CutEndsEntries, CompanyOf, Exists, SlugTaken
  <2> QED
    BY <2>1, RequestStep, CreationStep, DeskStep, VisitStep DEF LinkNext
<1> QED
  BY <1>1, <1>2, PTL DEF LinkSpec

-----------------------------------------------------------------------------
(* Alerts *)

AlertRow == [key : Keys, status : Statuses4]

\* What a pass agrees with.
PassAgrees(m) ==
    /\ silent \subseteq watch[m].start.silent
    /\ \A i \in watch[m].start.handled : i \in Alerts /\ alerts[i].status # "OPEN"
    /\ watch[m].pc = "write" => \A i \in watch[m].close :
           i \in Alerts /\ alerts[i].key \in {"offline"} \X (Handhelds \ silent)
    /\ watch[m].start.alone =>
           /\ \A n \in Monitors \ {m} : watch[n] = Resting
           /\ \A p \in watch[m].start.silent :
                  \/ watch[m].pc \in {"raise", "insert", "conflict"} /\ p \in watch[m].left
                  \/ watch[m].pc \in {"insert", "conflict"} /\ p = watch[m].phone
                  \/ Warned(m, p)
           /\ watch[m].pc = "write" =>
                  \A p \in Handhelds \ watch[m].start.silent :
                      OpenAlerts(<<"offline", p>>) \subseteq watch[m].close
           /\ watch[m].pc = "done" =>
                  \A p \in Handhelds \ watch[m].start.silent : OpenAlerts(<<"offline", p>>) = {}

\* The rows keep their keys, none is opened again, and those that come are open.
RowsKept ==
    /\ alerts' \in Seq(AlertRow) /\ Len(alerts') <= MaxAlerts
    /\ Alerts \subseteq Alerts'
    /\ \A i \in Alerts : /\ alerts'[i].key = alerts[i].key
                         /\ alerts'[i].status = "OPEN" => alerts[i].status = "OPEN"

\* No alert of a silent phone is closed by the server, and none comes.
OfflineKept ==
    \A p \in Handhelds :
        /\ \A i \in Alerts : alerts[i].key = <<"offline", p>> /\ alerts'[i].status = "AUTO_CLOSED"
                             => alerts[i].status = "AUTO_CLOSED"
        /\ \A i \in Alerts' \ Alerts : alerts'[i].key # <<"offline", p>>

\* No alert of a battery comes.
BatteryKept ==
    \A p \in Handhelds, i \in Alerts' \ Alerts : alerts'[i].key # <<"battery", p>>

\* The rows, by their numbers.
LEMMA AlertRows ==
    ASSUME AlertTypeOK
    PROVE  /\ Len(alerts) \in Nat /\ Alerts = 1..Len(alerts) /\ Alerts \subseteq 1..MaxAlerts
           /\ \A i \in Alerts : alerts[i] \in AlertRow
           /\ alerts \in Seq(AlertRow)
<1>1. alerts \in Seq(AlertRow) /\ Len(alerts) <= MaxAlerts
  BY DEF AlertTypeOK, AlertRow
<1> QED
  BY <1>1, AlertAssumption DEF Alerts

\* A pass is one of these, by its program point.
LEMMA WatchForms ==
    ASSUME AlertTypeOK, NEW m \in Monitors
    PROVE  /\ watch[m] \in Passes
           /\ watch[m].pc \in {"idle", "raise", "insert", "conflict", "write", "done"}
           /\ watch[m].pc = "idle" <=> watch[m] = Resting
           /\ watch[m] # Resting => watch[m].start \in Starts
           /\ watch[m].pc = "raise" =>
                 watch[m] \in [pc : {"raise"}, left : SUBSET Handhelds, start : Starts]
           /\ watch[m].pc \in {"insert", "conflict"} =>
                 watch[m] \in [pc : {"insert", "conflict"}, phone : Handhelds,
                               left : SUBSET Handhelds, start : Starts]
           /\ watch[m].pc = "write" =>
                 watch[m] \in [pc : {"write"}, close : SUBSET (1..MaxAlerts), start : Starts]
           /\ watch[m].pc = "done" => watch[m] \in [pc : {"done"}, start : Starts]
<1>1. watch[m] \in Passes
  BY DEF AlertTypeOK
<1> QED
  BY <1>1 DEF Passes, Resting

\* Some rows get a status, from an administrator or from the server.
Written(S, status) ==
    [i \in Alerts |-> IF i \in S THEN [alerts[i] EXCEPT !.status = status] ELSE alerts[i]]

LEMMA StatusesWritten ==
    ASSUME AlertTypeOK, NEW rows, NEW S, NEW status \in Statuses4 \ {"OPEN"},
           rows = Written(S, status)
    PROVE  /\ rows \in Seq(AlertRow) /\ Len(rows) = Len(alerts) /\ DOMAIN rows = Alerts
           /\ \A i \in Alerts : /\ rows[i].key = alerts[i].key
                                /\ i \in S => rows[i].status = status
                                /\ i \notin S => rows[i] = alerts[i]
<1>1. /\ Len(alerts) \in Nat /\ Alerts = 1..Len(alerts)
      /\ \A i \in Alerts : alerts[i] \in AlertRow
  BY AlertRows
<1>2. \A i \in Alerts : rows[i] \in AlertRow
  BY <1>1 DEF AlertRow, Written
<1>3. rows \in [1..Len(alerts) -> AlertRow]
  BY <1>1, <1>2 DEF Written
<1>4. rows \in Seq(AlertRow) /\ Len(rows) = Len(alerts) /\ DOMAIN rows = Alerts
  BY <1>1, <1>3
<1> QED
  BY <1>1, <1>4 DEF AlertRow, Written

\* A row is created: it is the last, and open.
LEMMA RowCreated ==
    ASSUME AlertTypeOK, NEW key \in Keys, Create(key)
    PROVE  /\ alerts' \in Seq(AlertRow) /\ Len(alerts') <= MaxAlerts
           /\ \E n : /\ Alerts' = Alerts \cup {n} /\ n \notin Alerts
                     /\ alerts'[n] = [key |-> key, status |-> "OPEN"]
                     /\ \A i \in Alerts : alerts'[i] = alerts[i]
<1> DEFINE row == [key |-> key, status |-> "OPEN"]
           n == Len(alerts) + 1
<1>1. row \in AlertRow
  BY DEF AlertRow, Statuses4
<1>2. alerts' = Append(alerts, row) /\ Len(alerts) < MaxAlerts
  BY DEF Create
<1>3. Len(alerts) \in Nat /\ Alerts = 1..Len(alerts) /\ alerts \in Seq(AlertRow)
  BY AlertRows
<1> HIDE DEF row
<1>4. /\ alerts' \in Seq(AlertRow) /\ Len(alerts') = n
      /\ alerts'[n] = row /\ \A i \in 1..Len(alerts) : alerts'[i] = alerts[i]
  BY <1>1, <1>2, <1>3
<1>5. Len(alerts') <= MaxAlerts
  BY <1>2, <1>3, <1>4, AlertAssumption
<1>6. Alerts' = Alerts \cup {n} /\ n \notin Alerts
  BY <1>3, <1>4 DEF Alerts
<1> QED
  BY <1>3, <1>4, <1>5, <1>6 DEF row

\* A pass that does nothing in a step.
LEMMA PassStays ==
    ASSUME AlertTypeOK, RowsKept, silent' \subseteq silent,
           NEW m \in Monitors, watch[m] # Resting, PassAgrees(m), watch'[m] = watch[m],
           watch[m].start.alone =>
               OfflineKept /\ \A n \in Monitors \ {m} : watch'[n] = Resting
    PROVE  PassAgrees(m)'
<1>1. watch[m].start \in Starts
  BY WatchForms
<1>2. Alerts \subseteq Alerts' /\ \A i \in Alerts : alerts'[i].key = alerts[i].key
                  /\ (alerts'[i].status = "OPEN" => alerts[i].status = "OPEN")
  BY DEF RowsKept
<1>3. silent' \subseteq watch[m].start.silent
  BY DEF PassAgrees
<1>4. \A i \in watch[m].start.handled : i \in Alerts' /\ alerts'[i].status # "OPEN"
  BY <1>2 DEF PassAgrees
<1>5. watch[m].pc = "write" => \A i \in watch[m].close :
          i \in Alerts' /\ alerts'[i].key \in {"offline"} \X (Handhelds \ silent')
  BY <1>2 DEF PassAgrees
<1>6. ASSUME watch[m].start.alone
      PROVE  /\ \A n \in Monitors \ {m} : watch'[n] = Resting
             /\ \A p \in watch[m].start.silent : Warned(m, p) => Warned(m, p)'
             /\ \A p \in Handhelds : OpenAlerts(<<"offline", p>>)' \subseteq OpenAlerts(<<"offline", p>>)
  <2>1. \A n \in Monitors \ {m} : watch'[n] = Resting
    BY <1>6
  <2>2. \A p \in watch[m].start.silent : Warned(m, p) => Warned(m, p)'
    BY <1>1, <1>2, <1>6 DEF Warned, OfflineKept, Starts
  <2>3. \A p \in Handhelds : OpenAlerts(<<"offline", p>>)' \subseteq OpenAlerts(<<"offline", p>>)
    BY <1>2, <1>6 DEF OpenAlerts, OfflineKept
  <2> QED
    BY <2>1, <2>2, <2>3
<1>7. ASSUME watch[m].start.alone
      PROVE  /\ \A n \in Monitors \ {m} : watch'[n] = Resting
             /\ \A p \in watch[m].start.silent :
                    \/ watch[m].pc \in {"raise", "insert", "conflict"} /\ p \in watch[m].left
                    \/ watch[m].pc \in {"insert", "conflict"} /\ p = watch[m].phone
                    \/ Warned(m, p)'
             /\ watch[m].pc = "write" =>
                    \A p \in Handhelds \ watch[m].start.silent :
                        OpenAlerts(<<"offline", p>>)' \subseteq watch[m].close
             /\ watch[m].pc = "done" =>
                    \A p \in Handhelds \ watch[m].start.silent : OpenAlerts(<<"offline", p>>)' = {}
  <2>1. \A p \in watch[m].start.silent :
            \/ watch[m].pc \in {"raise", "insert", "conflict"} /\ p \in watch[m].left
            \/ watch[m].pc \in {"insert", "conflict"} /\ p = watch[m].phone
            \/ Warned(m, p)
    BY <1>7 DEF PassAgrees
  <2>2. watch[m].pc = "write" => \A p \in Handhelds \ watch[m].start.silent :
            OpenAlerts(<<"offline", p>>) \subseteq watch[m].close
    BY <1>7 DEF PassAgrees
  <2>3. watch[m].pc = "done" => \A p \in Handhelds \ watch[m].start.silent :
            OpenAlerts(<<"offline", p>>) = {}
    BY <1>7 DEF PassAgrees
  <2> QED
    BY <1>6, <1>7, <2>1, <2>2, <2>3
<1>8. watch'[m].start = watch[m].start /\ watch'[m].pc = watch[m].pc
      /\ watch'[m].close = watch[m].close /\ watch'[m].left = watch[m].left
      /\ watch'[m].phone = watch[m].phone
  OBVIOUS
<1> QED
  BY <1>3, <1>4, <1>5, <1>7, <1>8 DEF PassAgrees

\* The other passes, when one takes a step: none of them is alone.
LEMMA OthersStay ==
    ASSUME AlertTypeOK, PassesAgree, SilenceWatched, RowsKept, silent' = silent,
           NEW m \in Monitors, watch[m] # Resting, NEW r, watch' = [watch EXCEPT ![m] = r],
           NEW n \in Monitors \ {m}, watch'[n] # Resting
    PROVE  PassAgrees(n)'
<1>1. watch'[n] = watch[n]
  BY DEF AlertTypeOK
<1>2. PassAgrees(n)
  BY <1>1 DEF PassesAgree, SilenceWatched, PassAgrees
<1>3. ~ watch[n].start.alone
  BY <1>2 DEF PassAgrees
<1> QED
  BY <1>1, <1>2, <1>3, PassStays

\* Where the rows stay as they are.
LEMMA SameRows ==
    ASSUME AlertTypeOK, alerts' = alerts
    PROVE  RowsKept /\ OfflineKept /\ BatteryKept /\ Alerts' = Alerts
BY AlertRows DEF RowsKept, OfflineKept, BatteryKept, AlertTypeOK, AlertRow, Alerts

\* The batteries: no alert of a battery comes, or it is of one that is low.
LEMMA BatteryStays ==
    ASSUME AlertTypeOK, BatteryAlertTrue, RowsKept, BatteryKept, UNCHANGED <<lowBattery, beat>>
    PROVE  BatteryAlertTrue'
<1> SUFFICES ASSUME NEW p \in Handhelds, beat[p] = Resting, p \notin lowBattery
             PROVE  OpenAlerts(<<"battery", p>>)' = {}
  BY DEF BatteryAlertTrue
<1>1. OpenAlerts(<<"battery", p>>) = {}
  BY DEF BatteryAlertTrue
<1> QED
  BY <1>1 DEF RowsKept, BatteryKept, OpenAlerts

\* A pass agrees when its part of the two invariants holds.
LEMMA PassesOfInv ==
    ASSUME PassesAgree, SilenceWatched, NEW m \in Monitors, watch[m] # Resting
    PROVE  PassAgrees(m)
BY DEF PassesAgree, SilenceWatched, PassAgrees

\* And the two invariants hold when each pass agrees.
LEMMA InvOfPasses ==
    ASSUME \A m \in Monitors : watch'[m] # Resting => PassAgrees(m)'
    PROVE  PassesAgree' /\ SilenceWatched'
<1>1. \A m \in Monitors : watch'[m].pc = "done" => watch'[m] # Resting
  BY DEF Resting
<1>2. PassesAgree'
  BY DEF PassesAgree, PassAgrees
<1>3. SilenceWatched'
  <2> SUFFICES ASSUME NEW m \in Monitors, watch'[m].pc = "done", watch'[m].start.alone,
                      NEW p \in Handhelds
               PROVE  IF p \in watch'[m].start.silent THEN Warned(m, p)'
                      ELSE OpenAlerts(<<"offline", p>>)' = {}
    BY DEF SilenceWatched
  <2> QED
    BY <1>1 DEF PassAgrees
<1> QED
  BY <1>2, <1>3

-----------------------------------------------------------------------------
(* The phones and the administrators *)

\* A step outside the passes: whatever alert it closes, or makes, is of a battery.
LEMMA RestStays ==
    ASSUME AlertInv, RowsKept, silent' \subseteq silent, watch' = watch, OfflineKept
    PROVE  PassesAgree' /\ SilenceWatched'
<1>1. ASSUME NEW m \in Monitors, watch'[m] # Resting
      PROVE  PassAgrees(m)'
  <2>1. PassAgrees(m)
    BY <1>1, PassesOfInv DEF AlertInv
  <2>2. watch[m].start.alone => \A n \in Monitors \ {m} : watch'[n] = Resting
    BY <2>1 DEF PassAgrees
  <2> QED
    BY <1>1, <2>1, <2>2, PassStays DEF AlertInv
<1> QED
  BY <1>1, InvOfPasses

\* A phone falls silent: no pass is under way.
LEMMA FallStays ==
    ASSUME AlertInv, NEW p \in Handhelds, FallSilent(p)
    PROVE  AlertInv'
<1>1. AlertTypeOK' /\ BeatsAgree' /\ BatteryAlertTrue'
  BY DEF FallSilent, AlertInv, AlertTypeOK, BeatsAgree, BatteryAlertTrue, OpenAlerts, Alerts
<1>2. \A m \in Monitors : watch'[m] = Resting
  BY DEF FallSilent
<1> QED
  BY <1>1, <1>2, InvOfPasses DEF AlertInv

\* A phone is heard of.
LEMMA HeartbeatStays ==
    ASSUME AlertInv, NEW p \in Handhelds, NEW low \in BOOLEAN, Heartbeat(p, low)
    PROVE  AlertInv'
<1>1. AlertTypeOK'
  BY DEF Heartbeat, AlertInv, AlertTypeOK
<1>2. PassesAgree' /\ SilenceWatched'
  BY RestStays, SameRows DEF Heartbeat, AlertInv
<1>3. BeatsAgree'
  BY DEF Heartbeat, AlertInv, AlertTypeOK, BeatsAgree, Resting
<1>4. BatteryAlertTrue'
  BY DEF Heartbeat, AlertInv, AlertTypeOK, BatteryAlertTrue, Resting, OpenAlerts, Alerts
<1> QED
  BY <1>1, <1>2, <1>3, <1>4 DEF AlertInv

\* The server closes, or raises, the alert of a battery.
LEMMA CheckStays ==
    ASSUME AlertInv, NEW p \in Handhelds, CheckHealth(p)
    PROVE  AlertInv'
<1>1. /\ AlertTypeOK /\ beat \in [Handhelds -> {Resting, [pc |-> "raise"], [pc |-> "close"]}]
      /\ beat[p] # Resting /\ beat' = [beat EXCEPT ![p] = Resting]
      /\ UNCHANGED <<silent, lowBattery, watch>>
  BY DEF CheckHealth, AlertInv, AlertTypeOK
<1>2. BeatsAgree'
  BY <1>1 DEF AlertInv, BeatsAgree
<1>3. /\ RowsKept /\ OfflineKept
      /\ \A q \in Handhelds : q \notin lowBattery =>
             OpenAlerts(<<"battery", q>>)' \subseteq OpenAlerts(<<"battery", q>>)
      /\ p \notin lowBattery => OpenAlerts(<<"battery", p>>)' = {}
  <2>1. CASE beat[p].pc = "raise" /\ OpenAlerts(<<"battery", p>>) # {}
    <3>1. alerts' = alerts /\ p \in lowBattery
      BY <1>1, <2>1 DEF CheckHealth, Raise, AlertInv, BeatsAgree
    <3>2. \A q \in Handhelds : OpenAlerts(<<"battery", q>>)' = OpenAlerts(<<"battery", q>>)
      BY <3>1 DEF OpenAlerts, Alerts
    <3> QED
      BY <1>1, <3>1, <3>2, SameRows
  <2>2. CASE beat[p].pc = "raise" /\ OpenAlerts(<<"battery", p>>) = {}
    <3>1. Create(<<"battery", p>>) /\ p \in lowBattery
      BY <1>1, <2>2 DEF CheckHealth, Raise, AlertInv, BeatsAgree
    <3>2. <<"battery", p>> \in Keys
      BY DEF Keys
    <3>3. PICK n : /\ alerts' \in Seq(AlertRow) /\ Len(alerts') <= MaxAlerts
                   /\ Alerts' = Alerts \cup {n} /\ n \notin Alerts
                   /\ alerts'[n] = [key |-> <<"battery", p>>, status |-> "OPEN"]
                   /\ \A i \in Alerts : alerts'[i] = alerts[i]
      BY <1>1, <3>1, <3>2, RowCreated
    <3>4. RowsKept /\ OfflineKept
      BY <3>3 DEF RowsKept, OfflineKept
    <3>5. \A q \in Handhelds : q # p =>
              OpenAlerts(<<"battery", q>>)' \subseteq OpenAlerts(<<"battery", q>>)
      BY <3>3 DEF OpenAlerts
    <3> QED
      BY <3>1, <3>4, <3>5
  <2>3. CASE beat[p].pc # "raise"
    <3> DEFINE S == OpenAlerts(<<"battery", p>>)
    <3>1. alerts' = Written(S, "AUTO_CLOSED")
      BY <2>3 DEF CheckHealth, Written
    <3> HIDE DEF S
    <3>2. /\ alerts' \in Seq(AlertRow) /\ Len(alerts') = Len(alerts) /\ DOMAIN alerts' = Alerts
          /\ \A i \in Alerts : /\ alerts'[i].key = alerts[i].key
                               /\ i \in S => alerts'[i].status = "AUTO_CLOSED"
                               /\ i \notin S => alerts'[i] = alerts[i]
      BY <1>1, <3>1, StatusesWritten DEF Statuses4
    <3>3. RowsKept
      BY <1>1, <3>2 DEF RowsKept, Alerts, AlertTypeOK
    <3>4. OfflineKept
      BY <3>2 DEF OfflineKept, Alerts, S, OpenAlerts
    <3>5. /\ \A q \in Handhelds :
                 OpenAlerts(<<"battery", q>>)' \subseteq OpenAlerts(<<"battery", q>>)
          /\ OpenAlerts(<<"battery", p>>)' = {}
      BY <3>2 DEF OpenAlerts, Alerts, S
    <3> QED
      BY <3>3, <3>4, <3>5
  <2> QED
    BY <2>1, <2>2, <2>3
<1>4. AlertTypeOK'
  BY <1>1, <1>3 DEF AlertTypeOK, RowsKept, AlertRow
<1>5. BatteryAlertTrue'
  <2> SUFFICES ASSUME NEW q \in Handhelds, beat'[q] = Resting, q \notin lowBattery
               PROVE  OpenAlerts(<<"battery", q>>)' = {}
    BY <1>1 DEF BatteryAlertTrue
  <2>1. CASE q = p
    BY <1>3, <2>1
  <2>2. CASE q # p
    BY <1>1, <1>3, <2>2 DEF AlertInv, BatteryAlertTrue
  <2> QED
    BY <2>1, <2>2
<1>6. PassesAgree' /\ SilenceWatched'
  BY <1>1, <1>3, RestStays
<1> QED
  BY <1>2, <1>4, <1>5, <1>6 DEF AlertInv

\* An administrator handles an alert.
LEMMA HandledStays ==
    ASSUME AlertInv, NEW i \in 1..MaxAlerts, Acknowledge(i) \/ Resolve(i)
    PROVE  AlertInv'
<1>1. PICK status \in {"ACKNOWLEDGED", "RESOLVED"} : SetStatus(i, status)
  BY DEF Acknowledge, Resolve
<1>2. /\ AlertTypeOK /\ i \in Alerts
      /\ UNCHANGED <<silent, lowBattery, watch, beat>>
  BY DEF Acknowledge, Resolve, AlertInv
<1>3. alerts' = Written({i}, status)
  BY <1>1, <1>2 DEF SetStatus, Alerts, Written
<1>4. /\ alerts' \in Seq(AlertRow) /\ Len(alerts') = Len(alerts) /\ DOMAIN alerts' = Alerts
      /\ \A j \in Alerts : /\ alerts'[j].key = alerts[j].key
                           /\ j \in {i} => alerts'[j].status = status
                           /\ j \notin {i} => alerts'[j] = alerts[j]
  BY <1>2, <1>3, StatusesWritten DEF Statuses4
<1>5. RowsKept
  BY <1>1, <1>2, <1>4 DEF RowsKept, Alerts, AlertTypeOK
<1>6. OfflineKept /\ BatteryKept
  BY <1>1, <1>4 DEF OfflineKept, BatteryKept, Alerts
<1>7. AlertTypeOK'
  BY <1>2, <1>5 DEF AlertTypeOK, RowsKept, AlertRow
<1>8. BeatsAgree' /\ BatteryAlertTrue'
  BY <1>2, <1>5, <1>6, BatteryStays DEF AlertInv, BeatsAgree
<1>9. PassesAgree' /\ SilenceWatched'
  BY <1>2, <1>5, <1>6, RestStays
<1> QED
  BY <1>7, <1>8, <1>9 DEF AlertInv

-----------------------------------------------------------------------------
(* The passes of the monitor *)

\* A step of a pass that leaves the rows: what is left to prove is about the pass itself.
LEMMA PassMoves ==
    ASSUME AlertInv, UNCHANGED <<silent, lowBattery, beat, alerts>>,
           NEW m \in Monitors, watch[m] # Resting, NEW r \in Passes, watch' = [watch EXCEPT ![m] = r],
           r # Resting => PassAgrees(m)'
    PROVE  AlertInv'
<1>1. AlertTypeOK' /\ watch'[m] = r
  BY DEF AlertInv, AlertTypeOK
<1>2. RowsKept /\ BatteryKept
  BY SameRows DEF AlertInv
<1>3. BeatsAgree' /\ BatteryAlertTrue'
  BY <1>2, BatteryStays DEF AlertInv, BeatsAgree
<1>4. ASSUME NEW n \in Monitors, watch'[n] # Resting
      PROVE  PassAgrees(n)'
  <2>1. CASE n = m
    BY <1>1, <1>4, <2>1
  <2>2. CASE n # m
    BY <1>2, <1>4, <2>2, OthersStay DEF AlertInv
  <2> QED
    BY <2>1, <2>2
<1> QED
  BY <1>1, <1>3, <1>4, InvOfPasses DEF AlertInv

\* A pass begins: it is not alone if another is under way, which is not any more.
LEMMA StartStays ==
    ASSUME AlertInv, NEW m \in Monitors, StartWatch(m)
    PROVE  AlertInv'
<1> DEFINE others == {n \in Monitors : watch[n] # Resting}
           start == [silent |-> silent, alone |-> others = {},
                     handled |-> {i \in Alerts : alerts[i].status # "OPEN"}]
           mine == [pc |-> "raise", left |-> silent, start |-> start]
<1>1. /\ AlertTypeOK /\ watch[m] = Resting
      /\ watch' = [n \in Monitors |-> IF n = m THEN mine
                                      ELSE IF n \in others THEN [watch[n] EXCEPT !.start.alone = FALSE]
                                      ELSE Resting]
      /\ UNCHANGED <<silent, lowBattery, beat, alerts>>
  BY DEF StartWatch, Others, AlertInv
<1>2. start \in Starts /\ mine \in Passes
  <2>1. Alerts \subseteq 1..MaxAlerts /\ silent \subseteq Handhelds
    BY <1>1, AlertRows DEF AlertTypeOK
  <2>2. (others = {}) \in BOOLEAN
    OBVIOUS
  <2> HIDE DEF others
  <2>3. start \in Starts
    BY <2>1, <2>2 DEF Starts
  <2> HIDE DEF start
  <2> QED
    BY <2>1, <2>3 DEF Passes
<1>3. ASSUME NEW n \in others
      PROVE  LET new == [watch[n] EXCEPT !.start.alone = FALSE]
             IN  /\ new \in Passes /\ new.pc = watch[n].pc
                 /\ new.pc = "write" => new.close = watch[n].close
                 /\ new.start.silent = watch[n].start.silent /\ ~ new.start.alone
                 /\ new.start.handled = watch[n].start.handled
  <2> DEFINE w == watch[n]
             begun == [w.start EXCEPT !.alone = FALSE]
  <2>1. /\ w.start \in Starts
        /\ \/ w \in [pc : {"raise"}, left : SUBSET Handhelds, start : Starts]
           \/ w \in [pc : {"insert", "conflict"}, phone : Handhelds,
                     left : SUBSET Handhelds, start : Starts]
           \/ w \in [pc : {"write"}, close : SUBSET (1..MaxAlerts), start : Starts]
           \/ w \in [pc : {"done"}, start : Starts]
    BY <1>1, WatchForms
  <2>2. /\ begun \in Starts /\ begun.silent = w.start.silent /\ ~ begun.alone
        /\ begun.handled = w.start.handled
    BY <2>1 DEF Starts
  <2>3. [w EXCEPT !.start.alone = FALSE] = [w EXCEPT !.start = begun]
    OBVIOUS
  <2> HIDE DEF w, begun
  <2>4. /\ [w EXCEPT !.start = begun] \in Passes
        /\ [w EXCEPT !.start = begun].pc = w.pc
        /\ [w EXCEPT !.start = begun].start = begun
        /\ w.pc = "write" => [w EXCEPT !.start = begun].close = w.close
    BY <2>1, <2>2 DEF Passes
  <2> QED
    BY <2>2, <2>3, <2>4 DEF w
<1>4. m \notin others
  BY <1>1
<1>5. /\ watch'[m] = mine
      /\ \A n \in others : watch'[n] = [watch[n] EXCEPT !.start.alone = FALSE]
      /\ \A n \in Monitors \ (others \cup {m}) : watch'[n] = Resting
  BY <1>1, <1>4
<1>6. AlertTypeOK'
  BY <1>1, <1>2, <1>3, <1>4 DEF AlertTypeOK, Passes
<1>7. BeatsAgree' /\ BatteryAlertTrue'
  BY <1>1, SameRows, BatteryStays DEF AlertInv, BeatsAgree
<1>8. PassAgrees(m)'
  BY <1>1, <1>5 DEF PassAgrees, Alerts
<1>9. ASSUME NEW n \in others
      PROVE  PassAgrees(n)'
  <2>1. PassAgrees(n)
    BY PassesOfInv DEF AlertInv
  <2>2. /\ watch'[n].pc = watch[n].pc
        /\ watch'[n].pc = "write" => watch'[n].close = watch[n].close
        /\ watch'[n].start.silent = watch[n].start.silent /\ ~ watch'[n].start.alone
        /\ watch'[n].start.handled = watch[n].start.handled
    BY <1>3, <1>5, <1>9
  <2> QED
    BY <1>1, <2>1, <2>2 DEF PassAgrees, Alerts
<1> QED
  BY <1>5, <1>6, <1>7, <1>8, <1>9, InvOfPasses DEF AlertInv

\* An alert of the phone is open already: the phone is warned of.
LEMMA LookStays ==
    ASSUME AlertInv, NEW m \in Monitors, NEW p \in Handhelds, LookForAlert(m, p)
    PROVE  AlertInv'
<1> DEFINE w == watch[m]
           key == <<"offline", p>>
<1>1. /\ w \in [pc : {"raise"}, left : SUBSET Handhelds, start : Starts] /\ p \in w.left
      /\ w # Resting /\ PassAgrees(m)
      /\ UNCHANGED <<silent, lowBattery, beat, alerts>>
  BY WatchForms, PassesOfInv DEF LookForAlert, AlertInv, Others
<1>2. CASE OpenAlerts(key) # {}
  <2> DEFINE r == [w EXCEPT !.left = @ \ {p}]
  <2>1. watch' = [watch EXCEPT ![m] = r]
    BY <1>2 DEF LookForAlert, Watch
  <2>2. r \in Passes /\ r.pc = "raise" /\ r.start = w.start /\ r.left = w.left \ {p}
    BY <1>1 DEF Passes
  <2>3. Warned(m, p)
    BY <1>1, <1>2 DEF Warned, OpenAlerts, PassAgrees
  <2>4. watch'[m] = r
    BY <2>1 DEF AlertInv, AlertTypeOK
  <2> HIDE DEF r
  <2>5. \A q \in w.start.silent : Warned(m, q) => Warned(m, q)'
    BY <1>1, <2>2, <2>4 DEF Warned, Alerts
  <2>6. \A n \in Monitors \ {m} : watch'[n] = watch[n]
    BY <2>1 DEF AlertInv, AlertTypeOK
  <2>7. PassAgrees(m)'
    BY <1>1, <2>2, <2>3, <2>4, <2>5, <2>6 DEF PassAgrees, Alerts
  <2> QED
    BY <1>1, <2>1, <2>2, <2>7, PassMoves
<1>3. CASE OpenAlerts(key) = {}
  <2> DEFINE r == [pc |-> "insert", phone |-> p, left |-> w.left \ {p}, start |-> w.start]
  <2>1. watch' = [watch EXCEPT ![m] = r]
    BY <1>3 DEF LookForAlert, Watch
  <2>2. r \in Passes /\ r.pc = "insert" /\ r.start = w.start /\ r.left = w.left \ {p} /\ r.phone = p
    BY <1>1 DEF Passes
  <2>4. watch'[m] = r
    BY <2>1 DEF AlertInv, AlertTypeOK
  <2> HIDE DEF r
  <2>5. \A q \in w.start.silent : Warned(m, q) => Warned(m, q)'
    BY <1>1, <2>2, <2>4 DEF Warned, Alerts
  <2>6. \A n \in Monitors \ {m} : watch'[n] = watch[n]
    BY <2>1 DEF AlertInv, AlertTypeOK
  <2>7. PassAgrees(m)'
    BY <1>1, <2>2, <2>4, <2>5, <2>6 DEF PassAgrees, Alerts
  <2> QED
    BY <1>1, <2>1, <2>2, <2>7, PassMoves
<1> QED
  BY <1>2, <1>3

\* The new alert warns of the phone.
LEMMA InsertStays ==
    ASSUME AlertInv, NEW m \in Monitors, InsertAlert(m)
    PROVE  AlertInv'
<1> DEFINE w == watch[m]
           key == <<"offline", w.phone>>
<1>1. /\ w \in [pc : {"insert", "conflict"}, phone : Handhelds, left : SUBSET Handhelds, start : Starts]
      /\ w.pc = "insert" /\ w # Resting /\ PassAgrees(m)
      /\ UNCHANGED <<silent, lowBattery, beat>> /\ AlertTypeOK
  BY WatchForms, PassesOfInv DEF InsertAlert, AlertInv, Others
<1> PICK p \in Handhelds : p = w.phone
  BY <1>1
<1>2. CASE OpenAlerts(key) # {}
  <2> DEFINE r == [w EXCEPT !.pc = "conflict"]
  <2>1. watch' = [watch EXCEPT ![m] = r] /\ alerts' = alerts
    BY <1>2 DEF InsertAlert, Create, Watch
  <2>2. /\ r \in Passes /\ r.pc = "conflict" /\ r.start = w.start /\ r.left = w.left
        /\ r.phone = w.phone
    BY <1>1 DEF Passes
  <2>3. watch'[m] = r /\ \A n \in Monitors \ {m} : watch'[n] = watch[n]
    BY <2>1 DEF AlertInv, AlertTypeOK
  <2> HIDE DEF r
  <2>4. \A q \in w.start.silent : Warned(m, q) => Warned(m, q)'
    BY <1>1, <2>1, <2>2, <2>3 DEF Warned, Alerts
  <2>5. PassAgrees(m)'
    BY <1>1, <2>1, <2>2, <2>3, <2>4 DEF PassAgrees, Alerts
  <2> QED
    BY <1>1, <2>1, <2>2, <2>5, PassMoves
<1>3. CASE OpenAlerts(key) = {}
  <2> DEFINE r == NextPhone(m)
  <2>1. watch' = [watch EXCEPT ![m] = r] /\ Create(key)
    BY <1>3 DEF InsertAlert, Watch
  <2>2. r \in Passes /\ r.pc = "raise" /\ r.start = w.start /\ r.left = w.left
    BY <1>1 DEF Passes, NextPhone
  <2>3. watch'[m] = r /\ \A n \in Monitors \ {m} : watch'[n] = watch[n]
    BY <2>1 DEF AlertInv, AlertTypeOK
  <2> HIDE DEF r
  <2>4. key \in Keys
    BY <1>1 DEF Keys
  <2>5. /\ alerts' \in Seq(AlertRow) /\ Len(alerts') <= MaxAlerts
        /\ \E n : /\ Alerts' = Alerts \cup {n} /\ n \notin Alerts
                  /\ alerts'[n] = [key |-> key, status |-> "OPEN"]
                  /\ \A i \in Alerts : alerts'[i] = alerts[i]
    BY <1>1, <2>1, <2>4, RowCreated
  <2>6. PICK n : /\ Alerts' = Alerts \cup {n} /\ n \notin Alerts
                 /\ alerts'[n] = [key |-> key, status |-> "OPEN"]
                 /\ \A i \in Alerts : alerts'[i] = alerts[i]
    BY <2>5
  <2>7. RowsKept
    BY <2>5, <2>6 DEF RowsKept
  <2>8. AlertTypeOK'
    BY <1>1, <2>1, <2>2, <2>7 DEF AlertTypeOK, RowsKept, AlertRow
  <2>9. BeatsAgree' /\ BatteryAlertTrue'
    <3>1. BatteryKept
      BY <2>6 DEF BatteryKept
    <3> QED
      BY <1>1, <2>7, <3>1, BatteryStays DEF AlertInv, BeatsAgree
  <2>10. /\ \A q \in w.start.silent : Warned(m, q) => Warned(m, q)'
         /\ Warned(m, p)'
    <3>1. n \notin w.start.handled
      BY <1>1, <2>6 DEF PassAgrees
    <3>2. watch'[m].start = w.start /\ silent' = silent
      BY <1>1, <2>2, <2>3
    <3>3. ASSUME NEW q \in w.start.silent, q \in silent, Warned(m, q)
          PROVE  \E i \in Alerts' \ w.start.handled :
                     alerts'[i].key = <<"offline", q>> /\ alerts'[i].status # "AUTO_CLOSED"
      BY <2>6, <3>3 DEF Warned
    <3>4. n \in Alerts' /\ alerts'[n].key = <<"offline", p>> /\ alerts'[n].status # "AUTO_CLOSED"
      BY <2>6
    <3>5. \A q \in w.start.silent : Warned(m, q) => Warned(m, q)'
      BY <3>2, <3>3 DEF Warned
    <3>6. Warned(m, p)'
      BY <3>1, <3>2, <3>4 DEF Warned
    <3> QED
      BY <3>5, <3>6
  <2>11. PassAgrees(m)'
    <3>1. /\ silent' \subseteq watch'[m].start.silent
          /\ \A i \in watch'[m].start.handled : i \in Alerts' /\ alerts'[i].status # "OPEN"
      BY <1>1, <2>2, <2>3, <2>6 DEF PassAgrees
    <3>2. ASSUME w.start.alone
          PROVE  /\ \A o \in Monitors \ {m} : watch'[o] = Resting
                 /\ \A q \in w.start.silent : q \in w.left \/ Warned(m, q)'
      <4>1. \A o \in Monitors \ {m} : watch'[o] = Resting
        BY <1>1, <2>3, <3>2 DEF PassAgrees
      <4>2. \A q \in w.start.silent : q \in w.left \/ q = w.phone \/ Warned(m, q)
        BY <1>1, <3>2 DEF PassAgrees
      <4> QED
        BY <2>10, <4>1, <4>2
    <3>3. /\ watch'[m].pc = "raise" /\ watch'[m].start = w.start /\ watch'[m].left = w.left
      BY <2>2, <2>3
    <3> QED
      BY <3>1, <3>2, <3>3 DEF PassAgrees
  <2>12. ASSUME NEW o \in Monitors, watch'[o] # Resting
         PROVE  PassAgrees(o)'
    <3>1. CASE o = m
      BY <2>11, <3>1
    <3>2. CASE o # m
      BY <1>1, <2>1, <2>7, <2>12, <3>2, OthersStay DEF AlertInv
    <3> QED
      BY <3>1, <3>2
  <2> QED
    BY <2>8, <2>9, <2>12, InvOfPasses DEF AlertInv
<1> QED
  BY <1>2, <1>3

\* After a conflict, an open alert warns of the phone, or the pass throws.
LEMMA AgainStays ==
    ASSUME AlertInv, NEW m \in Monitors, LookAgain(m)
    PROVE  AlertInv'
<1> DEFINE w == watch[m]
           key == <<"offline", w.phone>>
<1>1. /\ w \in [pc : {"insert", "conflict"}, phone : Handhelds, left : SUBSET Handhelds, start : Starts]
      /\ w.pc = "conflict" /\ w # Resting /\ PassAgrees(m)
      /\ UNCHANGED <<silent, lowBattery, beat, alerts>> /\ AlertTypeOK
  BY WatchForms, PassesOfInv DEF LookAgain, AlertInv, Others
<1>2. CASE OpenAlerts(key) # {}
  <2> DEFINE r == NextPhone(m)
  <2>1. watch' = [watch EXCEPT ![m] = r]
    BY <1>2 DEF LookAgain, Watch
  <2>2. r \in Passes /\ r.pc = "raise" /\ r.start = w.start /\ r.left = w.left
    BY <1>1 DEF Passes, NextPhone
  <2>3. watch'[m] = r /\ \A n \in Monitors \ {m} : watch'[n] = watch[n]
    BY <2>1 DEF AlertInv, AlertTypeOK
  <2> HIDE DEF r
  <2>4. Warned(m, w.phone)
    BY <1>1, <1>2 DEF Warned, OpenAlerts, PassAgrees
  <2>5. \A q \in Handhelds : Warned(m, q) => Warned(m, q)'
    BY <1>1, <2>2, <2>3 DEF Warned, Alerts
  <2>6. PassAgrees(m)'
    BY <1>1, <2>2, <2>3, <2>4, <2>5 DEF PassAgrees, Alerts, Starts
  <2> QED
    BY <1>1, <2>1, <2>2, <2>6, PassMoves
<1>3. CASE OpenAlerts(key) = {}
  <2>1. watch' = [watch EXCEPT ![m] = Resting]
    BY <1>3 DEF LookAgain, Watch
  <2> QED
    BY <1>1, <2>1, PassMoves DEF Passes
<1> QED
  BY <1>2, <1>3

\* What is read is open, and of phones that are back.
LEMMA RecoveredStays ==
    ASSUME AlertInv, NEW m \in Monitors, ReadRecovered(m)
    PROVE  AlertInv'
<1> DEFINE w == watch[m]
           close == UNION {OpenAlerts(<<"offline", p>>) : p \in Handhelds \ silent}
           r == [pc |-> "write", start |-> w.start, close |-> close]
<1>1. /\ w \in [pc : {"raise"}, left : SUBSET Handhelds, start : Starts] /\ w.left = {}
      /\ w # Resting /\ PassAgrees(m)
      /\ watch' = [watch EXCEPT ![m] = r]
      /\ UNCHANGED <<silent, lowBattery, beat, alerts>> /\ AlertTypeOK
  BY WatchForms, PassesOfInv DEF ReadRecovered, AlertInv, Others, Watch
<1>2. /\ \A i \in close : i \in Alerts /\ alerts[i].key \in {"offline"} \X (Handhelds \ silent)
      /\ \A p \in Handhelds \ silent : OpenAlerts(<<"offline", p>>) \subseteq close
  BY DEF OpenAlerts
<1> HIDE DEF close
<1>3. close \subseteq 1..MaxAlerts
  BY <1>1, <1>2, AlertRows
<1>4. r \in Passes /\ r.pc = "write" /\ r.start = w.start /\ r.close = close
  BY <1>1, <1>3 DEF Passes
<1>5. watch'[m] = r /\ \A n \in Monitors \ {m} : watch'[n] = watch[n]
  BY <1>1 DEF AlertTypeOK
<1> HIDE DEF r
<1>6. \A q \in w.start.silent : Warned(m, q) => Warned(m, q)'
  BY <1>1, <1>4, <1>5 DEF Warned, Alerts
<1>7. \A p \in Handhelds : OpenAlerts(<<"offline", p>>)' = OpenAlerts(<<"offline", p>>)
  BY <1>1 DEF OpenAlerts, Alerts
<1>8. PassAgrees(m)'
  <2>1. /\ silent' \subseteq watch'[m].start.silent
        /\ \A i \in watch'[m].start.handled : i \in Alerts' /\ alerts'[i].status # "OPEN"
        /\ \A i \in watch'[m].close :
               i \in Alerts' /\ alerts'[i].key \in {"offline"} \X (Handhelds \ silent')
    BY <1>1, <1>2, <1>4, <1>5 DEF PassAgrees, Alerts
  <2>2. ASSUME w.start.alone
        PROVE  /\ \A n \in Monitors \ {m} : watch'[n] = Resting
               /\ \A p \in w.start.silent : Warned(m, p)'
               /\ \A p \in Handhelds \ w.start.silent : OpenAlerts(<<"offline", p>>)' \subseteq close
    <3>1. \A n \in Monitors \ {m} : watch'[n] = Resting
      BY <1>1, <1>5, <2>2 DEF PassAgrees
    <3>2. \A p \in w.start.silent : Warned(m, p)
      BY <1>1, <2>2 DEF PassAgrees
    <3>3. silent \subseteq w.start.silent
      BY <1>1 DEF PassAgrees
    <3> QED
      BY <1>2, <1>6, <1>7, <3>1, <3>2, <3>3
  <2> QED
    BY <1>4, <1>5, <2>1, <2>2 DEF PassAgrees
<1> QED
  BY <1>1, <1>4, <1>8, PassMoves

\* What is closed was read: no phone that is silent still loses its alert.
LEMMA CloseStays ==
    ASSUME AlertInv, NEW m \in Monitors, CloseRecovered(m)
    PROVE  AlertInv'
<1> DEFINE w == watch[m]
           r == [pc |-> "done", start |-> w.start]
<1>1. /\ w \in [pc : {"write"}, close : SUBSET (1..MaxAlerts), start : Starts]
      /\ w # Resting /\ PassAgrees(m)
      /\ watch' = [watch EXCEPT ![m] = r] /\ alerts' = Written(w.close, "AUTO_CLOSED")
      /\ UNCHANGED <<silent, lowBattery, beat>> /\ AlertTypeOK
  BY WatchForms, PassesOfInv DEF CloseRecovered, AlertInv, Others, Watch, Written
<1>2. /\ alerts' \in Seq(AlertRow) /\ Len(alerts') = Len(alerts) /\ Alerts' = Alerts
      /\ \A i \in Alerts : /\ alerts'[i].key = alerts[i].key
                           /\ i \in w.close => alerts'[i].status = "AUTO_CLOSED"
                           /\ i \notin w.close => alerts'[i] = alerts[i]
  BY <1>1, StatusesWritten DEF Statuses4, Alerts
<1>3. r \in Passes /\ r.pc = "done" /\ r.start = w.start
  BY <1>1 DEF Passes
<1>4. watch'[m] = r /\ \A n \in Monitors \ {m} : watch'[n] = watch[n]
  BY <1>1 DEF AlertTypeOK
<1> HIDE DEF r
<1>5. RowsKept /\ BatteryKept
  BY <1>1, <1>2 DEF RowsKept, BatteryKept, AlertTypeOK
<1>6. AlertTypeOK'
  BY <1>1, <1>3, <1>5 DEF AlertTypeOK, RowsKept, AlertRow
<1>7. BeatsAgree' /\ BatteryAlertTrue'
  BY <1>1, <1>5, BatteryStays DEF AlertInv, BeatsAgree
<1>8. \A p \in w.start.silent : Warned(m, p) => Warned(m, p)'
  <2>1. ASSUME NEW p \in w.start.silent, p \in silent, Warned(m, p)
        PROVE  \E i \in Alerts \ w.start.handled :
                   alerts'[i].key = <<"offline", p>> /\ alerts'[i].status # "AUTO_CLOSED"
    <3>1. PICK i \in Alerts \ w.start.handled :
              alerts[i].key = <<"offline", p>> /\ alerts[i].status # "AUTO_CLOSED"
      BY <2>1 DEF Warned
    <3>2. i \notin w.close
      BY <1>1, <2>1, <3>1 DEF PassAgrees
    <3> QED
      BY <1>2, <3>1, <3>2
  <2>2. watch'[m].start = w.start /\ silent' = silent /\ Alerts' = Alerts
    BY <1>1, <1>2, <1>3, <1>4
  <2> QED
    BY <2>1, <2>2 DEF Warned
<1>9. PassAgrees(m)'
  <2>1. /\ silent' \subseteq watch'[m].start.silent
        /\ \A i \in watch'[m].start.handled : i \in Alerts' /\ alerts'[i].status # "OPEN"
    BY <1>1, <1>2, <1>3, <1>4 DEF PassAgrees
  <2>2. ASSUME w.start.alone
        PROVE  /\ \A n \in Monitors \ {m} : watch'[n] = Resting
               /\ \A p \in w.start.silent : Warned(m, p)'
               /\ \A p \in Handhelds \ w.start.silent : OpenAlerts(<<"offline", p>>)' = {}
    <3>1. \A n \in Monitors \ {m} : watch'[n] = Resting
      BY <1>1, <1>4, <2>2 DEF PassAgrees
    <3>2. \A p \in w.start.silent : Warned(m, p)
      BY <1>1, <2>2 DEF PassAgrees
    <3>3. \A p \in Handhelds \ w.start.silent : OpenAlerts(<<"offline", p>>) \subseteq w.close
      BY <1>1, <2>2 DEF PassAgrees
    <3>4. \A p \in Handhelds \ w.start.silent : OpenAlerts(<<"offline", p>>)' = {}
      BY <1>2, <3>3 DEF OpenAlerts
    <3> QED
      BY <1>8, <3>1, <3>2, <3>4
  <2> QED
    BY <1>3, <1>4, <2>1, <2>2 DEF PassAgrees
<1>10. ASSUME NEW o \in Monitors, watch'[o] # Resting
       PROVE  PassAgrees(o)'
  <2>1. CASE o = m
    BY <1>9, <2>1
  <2>2. CASE o # m
    BY <1>1, <1>5, <1>10, <2>2, OthersStay DEF AlertInv
  <2> QED
    BY <2>1, <2>2
<1> QED
  BY <1>6, <1>7, <1>10, InvOfPasses DEF AlertInv

\* A pass that ends leaves nothing to agree with.
LEMMA EndStays ==
    ASSUME AlertInv, NEW m \in Monitors, EndWatch(m)
    PROVE  AlertInv'
<1>1. /\ watch[m] # Resting /\ watch' = [watch EXCEPT ![m] = Resting]
      /\ UNCHANGED <<silent, lowBattery, beat, alerts>>
  BY DEF EndWatch, Watch, Others, Resting
<1> QED
  BY <1>1, PassMoves DEF Passes

\* Whatever heartbeats, passes of the monitor and administrators overlap, the alerts that
\* are open say how the phones are: a pass that no other overlaps leaves an alert for each
\* silent phone and none for the others, and a battery is not said to be low once the
\* server has heard that it is not (health-monitor.job.ts, alerts.service.ts).
THEOREM AlertsTellTheTruth == AlertSpec => []AlertInv
<1>1. AlertInit => AlertInv
  BY AlertAssumption DEF AlertInit, AlertInv, AlertTypeOK, Passes, PassesAgree, SilenceWatched,
      BeatsAgree, BatteryAlertTrue, OpenAlerts, Alerts, Resting
<1>2. AlertInv /\ [AlertNext]_alertVars => AlertInv'
  <2> SUFFICES ASSUME AlertInv, [AlertNext]_alertVars
               PROVE  AlertInv'
    OBVIOUS
  <2>1. CASE \E p \in Handhelds :
                 FallSilent(p) \/ CheckHealth(p) \/ \E low \in BOOLEAN : Heartbeat(p, low)
    BY <2>1, FallStays, CheckStays, HeartbeatStays
  <2>2. CASE \E m \in Monitors :
                 \/ StartWatch(m) \/ InsertAlert(m) \/ LookAgain(m)
                 \/ ReadRecovered(m) \/ CloseRecovered(m) \/ EndWatch(m)
                 \/ \E p \in Handhelds : LookForAlert(m, p)
    BY <2>2, StartStays, InsertStays, AgainStays, RecoveredStays, CloseStays, EndStays, LookStays
  <2>3. CASE \E i \in 1..MaxAlerts : Acknowledge(i) \/ Resolve(i)
    BY <2>3, HandledStays
  <2>4. CASE UNCHANGED alertVars
    <3>1. UNCHANGED <<silent, lowBattery, alerts, watch, beat>>
      BY <2>4 DEF alertVars
    <3>2. AlertTypeOK' /\ BeatsAgree' /\ BatteryAlertTrue'
      BY <3>1 DEF AlertInv, AlertTypeOK, BeatsAgree, BatteryAlertTrue, OpenAlerts, Alerts
    <3> QED
      BY <3>1, <3>2, RestStays, SameRows DEF AlertInv
  <2> QED
    BY <2>1, <2>2, <2>3, <2>4 DEF AlertNext
<1> QED
  BY <1>1, <1>2, PTL DEF AlertSpec

-----------------------------------------------------------------------------
(* Administrators: coming in *)

\* The shapes of a request of the login.
LEMMA LoginShapes ==
    ASSUME LoginTypeOK, NEW r \in Logins
    PROVE  /\ login[r].pc \in {"verify", "fail", "succeed"} =>
                 login[r].read \in 0..MaxTries
                 /\ \A pc \in {"verify", "fail", "succeed"} :
                        /\ [login[r] EXCEPT !.pc = pc] \in LoginState
                        /\ [login[r] EXCEPT !.pc = pc].pc = pc
                        /\ [login[r] EXCEPT !.pc = pc].read = login[r].read
           /\ login[r].pc \in {"create", "resolve", "enter"} =>
                 login[r].code \in BOOLEAN
                 /\ \A pc \in {"create", "resolve", "enter"} :
                        /\ [login[r] EXCEPT !.pc = pc] \in LoginState
                        /\ [login[r] EXCEPT !.pc = pc].pc = pc
           /\ login[r].pc = "redeemed" => login[r].code \in Vouchers
<1>1. login[r] \in LoginState
  BY DEF LoginTypeOK
<1>2. CASE login[r] \in [pc : {"verify", "fail", "succeed"}, read : 0..MaxTries]
  BY <1>2 DEF LoginState
<1>3. CASE login[r] \in [pc : {"create", "resolve", "enter"}, code : BOOLEAN]
  BY <1>3 DEF LoginState
<1>4. CASE login[r] \in [pc : {"redeemed"}, code : Vouchers]
  BY <1>4
<1>5. CASE login[r] \in {AtRest} \cup [pc : {"in"}]
  BY <1>5 DEF AtRest
<1> QED
  BY <1>1, <1>2, <1>3, <1>4, <1>5 DEF LoginState

\* Where a request goes, the others stay.
LEMMA LoginMoves ==
    ASSUME LoginTypeOK, NEW r \in Logins, NEW s \in LoginState, To(r, s)
    PROVE  /\ login' \in [Logins -> LoginState]
           /\ login'[r] = s
           /\ \A q \in Logins : q # r => login'[q] = login[q]
BY DEF LoginTypeOK, To

\* The history of the failures.
LEMMA TriesType ==
    ASSUME NEW n \in 0..MaxTries, NEW b \in BOOLEAN
    PROVE  [count |-> n, overlap |-> b] \in [count : 0..MaxTries, overlap : BOOLEAN]
OBVIOUS

\* The types of the login.
LEMMA LoginTypeStep ==
    ASSUME LoginTypeOK, VouchersAgree, [LoginNext]_loginVars
    PROVE  LoginTypeOK'
<1> USE LoginAssumption
<1> DEFINE states == /\ AtRest \in LoginState
                     /\ [pc |-> "in"] \in LoginState
<1>1. states
  BY DEF LoginState
<1>2. Cardinality(Logins) \in Nat
  BY FS_CardinalityType
<1>3. ASSUME NEW r \in Logins, ReadAccount(r)
      PROVE  LoginTypeOK'
  <2>1. [pc |-> "verify", read |-> failures] \in LoginState
    BY DEF LoginState, LoginTypeOK
  <2>2. tries' \in [count : 0..MaxTries, overlap : BOOLEAN]
    BY <1>3 DEF ReadAccount, LoginTypeOK
  <2> QED
    BY <1>3, <2>1, <2>2, LoginMoves DEF ReadAccount, LoginTypeOK
<1>4. ASSUME NEW r \in Logins, VerifyPassword(r)
      PROVE  LoginTypeOK'
  BY <1>4, LoginShapes, LoginMoves DEF VerifyPassword, LoginTypeOK
<1>5. ASSUME NEW r \in Logins, WriteFailure(r)
      PROVE  LoginTypeOK'
  <2>1. failures' \in 0..MaxTries
    <3>1. login[r].read \in 0..MaxTries
      BY <1>5, LoginShapes DEF WriteFailure
    <3>2. failures' = IF login[r].read < MaxTries THEN login[r].read + 1 ELSE login[r].read
      BY <1>5 DEF WriteFailure, CountUp
    <3> QED
      BY <3>1, <3>2
  <2>2. lock' \in BOOLEAN
    <3>1. (login[r].read + 1 >= MaxFailures) \in BOOLEAN
      OBVIOUS
    <3> QED
      BY <1>5, <3>1, Zenon DEF WriteFailure
  <2>3. tries' \in [count : 0..MaxTries, overlap : BOOLEAN]
    <3>1. tries \in [count : 0..MaxTries, overlap : BOOLEAN] /\ tries.count < MaxTries
      BY <1>5 DEF WriteFailure, LoginTypeOK
    <3>2. tries' = [tries EXCEPT !.count = tries.count + 1]
      BY <1>5 DEF WriteFailure
    <3> QED
      BY <3>1, <3>2
  <2> QED
    BY <1>1, <1>5, <2>1, <2>2, <2>3, LoginMoves DEF WriteFailure, LoginTypeOK
<1>6. ASSUME Forgive
      PROVE  /\ failures' \in 0..MaxTries /\ lock' \in BOOLEAN
             /\ tries' \in [count : 0..MaxTries, overlap : BOOLEAN]
  <2>1. (Cardinality(Checking) > 1) \in BOOLEAN /\ 0 \in 0..MaxTries
    OBVIOUS
  <2>2. tries' \in [count : 0..MaxTries, overlap : BOOLEAN]
    BY <1>6, <2>1, TriesType, Zenon DEF Forgive
  <2> QED
    BY <1>6, <2>1, <2>2, Zenon DEF Forgive
<1>7. ASSUME NEW r \in Logins, WriteSuccess(r)
      PROVE  LoginTypeOK'
  BY <1>1, <1>6, <1>7, LoginMoves DEF WriteSuccess, LoginTypeOK
<1>8. ASSUME LockEnds
      PROVE  LoginTypeOK'
  <2>1. (Checking # {}) \in BOOLEAN /\ 0 \in 0..MaxTries
    OBVIOUS
  <2>2. tries' \in [count : 0..MaxTries, overlap : BOOLEAN]
    BY <1>8, <2>1, TriesType, Zenon DEF LockEnds
  <2> QED
    BY <1>8, <2>2 DEF LockEnds, LoginTypeOK
<1>9. ASSUME NEW r \in Logins, NEW code \in BOOLEAN, ResolveAccount(r, code)
      PROVE  LoginTypeOK'
  <2>1. [pc |-> IF account = "none" THEN "create" ELSE "resolve", code |-> code] \in LoginState
    BY DEF LoginState
  <2> QED
    BY <1>9, <2>1, LoginMoves DEF ResolveAccount, LoginTypeOK
<1>10. ASSUME NEW r \in Logins, CreateAccount(r)
       PROVE  LoginTypeOK'
  BY <1>1, <1>10, LoginShapes, LoginMoves DEF CreateAccount, LoginTypeOK
<1>11. ASSUME NEW r \in Logins, ForgiveSso(r)
       PROVE  LoginTypeOK'
  BY <1>6, <1>11, LoginShapes, LoginMoves DEF ForgiveSso, LoginTypeOK
<1>12. ASSUME NEW r \in Logins, Enter(r)
       PROVE  LoginTypeOK'
  BY <1>1, <1>12, LoginMoves DEF Enter, LoginTypeOK
<1>13. ASSUME NEW r \in Logins, NEW v \in Vouchers, Redeem(r, v)
       PROVE  LoginTypeOK'
  <2>1. [pc |-> "redeemed", code |-> v] \in LoginState
    BY DEF LoginState
  <2> QED
    BY <1>13, <2>1, LoginMoves DEF Redeem, LoginTypeOK
<1>14. ASSUME NEW r \in Logins, OpenByCode(r)
       PROVE  LoginTypeOK'
  <2>1. login[r].code \in Vouchers /\ opened[login[r].code] = 0
    BY <1>14, LoginShapes DEF OpenByCode, VouchersAgree
  <2>2. opened' \in [Vouchers -> 0..Cardinality(Logins) + 1]
    BY <1>2, <1>14, <2>1 DEF OpenByCode, LoginTypeOK
  <2> QED
    BY <1>1, <1>14, <2>2, LoginMoves DEF OpenByCode, LoginTypeOK
<1>15. ASSUME NEW r \in Logins, Issued(r)
       PROVE  LoginTypeOK'
  BY <1>1, <1>15, LoginMoves DEF Issued, LoginTypeOK
<1>16. ASSUME \/ \E v \in Vouchers : VoucherExpires(v)
              \/ Exclude \/ Attach \/ UNCHANGED loginVars
       PROVE  LoginTypeOK'
  BY <1>16 DEF VoucherExpires, Exclude, Attach, loginVars, LoginTypeOK
<1> QED
  BY <1>3, <1>4, <1>5, <1>7, <1>8, <1>9, <1>10, <1>11, <1>12, <1>13, <1>14, <1>15, <1>16
  DEF LoginNext

\* Where each action takes its request.
LEMMA LoginTargets ==
    ASSUME LoginTypeOK, NEW r \in Logins
    PROVE  /\ ReadAccount(r) => /\ login'[r].pc = "verify" /\ login'[r].read = failures
           /\ VerifyPassword(r) => /\ login'[r].pc \in {"fail", "succeed"}
                                   /\ login'[r].read = login[r].read
           /\ WriteFailure(r) => login'[r].pc = "idle"
           /\ WriteSuccess(r) => login'[r].pc = "in"
           /\ \A code \in BOOLEAN : ResolveAccount(r, code) =>
                 login'[r].pc = IF account = "none" THEN "create" ELSE "resolve"
           /\ CreateAccount(r) => login'[r].pc = IF account = "none" THEN "resolve" ELSE "idle"
           /\ ForgiveSso(r) => login'[r].pc = "enter"
           /\ Enter(r) => login'[r].pc \in {"idle", "in"}
           /\ \A v \in Vouchers : Redeem(r, v) => login'[r].pc = "redeemed" /\ login'[r].code = v
           /\ OpenByCode(r) => login'[r].pc \in {"idle", "in"}
           /\ Issued(r) => login'[r].pc = "idle"
<1>1. \A s : To(r, s) => login'[r] = s
  BY DEF To, LoginTypeOK
<1>2. AtRest.pc = "idle"
  BY DEF AtRest
<1>3. /\ ReadAccount(r) => login'[r].pc = "verify" /\ login'[r].read = failures
      /\ WriteSuccess(r) => login'[r].pc = "in"
      /\ \A v \in Vouchers : Redeem(r, v) => login'[r].pc = "redeemed" /\ login'[r].code = v
  BY <1>1 DEF ReadAccount, WriteSuccess, Redeem
<1>4. /\ WriteFailure(r) => login'[r].pc = "idle"
      /\ Issued(r) => login'[r].pc = "idle"
      /\ Enter(r) => login'[r].pc \in {"idle", "in"}
      /\ OpenByCode(r) => login'[r].pc \in {"idle", "in"}
  BY <1>1, <1>2 DEF WriteFailure, Issued, Enter, OpenByCode
<1>5. VerifyPassword(r) => login'[r].pc \in {"fail", "succeed"} /\ login'[r].read = login[r].read
  <2>1. SUFFICES ASSUME VerifyPassword(r)
                 PROVE  login'[r].pc \in {"fail", "succeed"} /\ login'[r].read = login[r].read
    OBVIOUS
  <2>2. PICK pc \in {"fail", "succeed"} : login'[r] = [login[r] EXCEPT !.pc = pc]
    BY <1>1, <2>1 DEF VerifyPassword
  <2>3. login[r].pc = "verify" /\ pc \in {"verify", "fail", "succeed"}
    BY <2>1 DEF VerifyPassword
  <2>4. login'[r].pc = pc /\ login'[r].read = login[r].read
    BY <2>2, <2>3, LoginShapes
  <2> QED
    BY <2>4
<1>6. \A code \in BOOLEAN : ResolveAccount(r, code) =>
          login'[r].pc = IF account = "none" THEN "create" ELSE "resolve"
  BY <1>1 DEF ResolveAccount
<1>7. CreateAccount(r) => login'[r].pc = IF account = "none" THEN "resolve" ELSE "idle"
  <2>1. SUFFICES ASSUME CreateAccount(r)
                 PROVE  login'[r].pc = IF account = "none" THEN "resolve" ELSE "idle"
    OBVIOUS
  <2>2. [login[r] EXCEPT !.pc = "resolve"].pc = "resolve"
    BY <2>1, LoginShapes DEF CreateAccount
  <2>3. login'[r] = IF account = "none" THEN [login[r] EXCEPT !.pc = "resolve"] ELSE AtRest
    BY <1>1, <2>1 DEF CreateAccount
  <2> QED
    BY <1>2, <2>2, <2>3
<1>8. ForgiveSso(r) => login'[r].pc = "enter"
  BY <1>1, LoginShapes DEF ForgiveSso
<1> QED
  BY <1>3, <1>4, <1>5, <1>6, <1>7, <1>8

\* The request of an action is the one that moves.
LEMMA LoginOthers ==
    ASSUME LoginTypeOK, NEW r \in Logins,
           \/ ReadAccount(r) \/ VerifyPassword(r) \/ WriteFailure(r) \/ WriteSuccess(r)
           \/ \E code \in BOOLEAN : ResolveAccount(r, code)
           \/ CreateAccount(r) \/ ForgiveSso(r) \/ Enter(r)
           \/ \E v \in Vouchers : Redeem(r, v)
           \/ OpenByCode(r) \/ Issued(r)
    PROVE  \A q \in Logins : q # r => login'[q] = login[q]
<1>1. \A s : To(r, s) => \A q \in Logins : q # r => login'[q] = login[q]
  BY DEF To, LoginTypeOK
<1> QED
  BY <1>1 DEF ReadAccount, VerifyPassword, WriteFailure, WriteSuccess, ResolveAccount,
     CreateAccount, ForgiveSso, Enter, Redeem, OpenByCode, Issued

LEMMA DoorsStep ==
    ASSUME LoginTypeOK, DoorsAgree, [LoginNext]_loginVars
    PROVE  DoorsAgree'
<1> DEFINE door(q, a) == /\ login[q].pc \in {"verify", "fail", "succeed"} => a = "PASSWORD"
                         /\ login[q].pc = "create" => a # "PASSWORD"
                         /\ login[q].pc \in {"resolve", "enter"} => a = "SSO"
<1>1. \A q \in Logins : door(q, account)
  BY DEF DoorsAgree, Checking
<1>2. SUFFICES \A q \in Logins : door(q, account)'
  BY <1>2 DEF DoorsAgree, Checking
<1>3. ASSUME NEW r \in Logins,
             \/ ReadAccount(r) \/ VerifyPassword(r) \/ WriteFailure(r) \/ WriteSuccess(r)
             \/ \E code \in BOOLEAN : ResolveAccount(r, code)
             \/ ForgiveSso(r) \/ Enter(r)
             \/ \E v \in Vouchers : Redeem(r, v)
             \/ OpenByCode(r) \/ Issued(r)
      PROVE  \A q \in Logins : door(q, account)'
  <2>1. account' = account
    BY <1>3 DEF ReadAccount, VerifyPassword, WriteFailure, WriteSuccess, ResolveAccount,
       ForgiveSso, Enter, Redeem, OpenByCode, Issued
  <2>2. \A q \in Logins : q # r => login'[q] = login[q]
    BY <1>3, LoginOthers
  <2>3. door(r, account)'
    BY <1>1, <1>3, <2>1, LoginTargets
    DEF ReadAccount, VerifyPassword, ResolveAccount, ForgiveSso
  <2> QED
    BY <1>1, <2>1, <2>2, <2>3
<1>4. ASSUME NEW r \in Logins, CreateAccount(r)
      PROVE  \A q \in Logins : door(q, account)'
  <2>1. \A q \in Logins : q # r => login'[q] = login[q]
    BY <1>4, LoginOthers
  <2>2. account' = IF account = "none" THEN "SSO" ELSE account
    BY <1>4 DEF CreateAccount
  <2> QED
    BY <1>1, <1>4, <2>1, <2>2, LoginTargets
<1>5. ASSUME \/ \E v \in Vouchers : VoucherExpires(v)
             \/ LockEnds \/ Exclude \/ Attach \/ UNCHANGED loginVars
      PROVE  \A q \in Logins : door(q, account)'
  BY <1>1, <1>5 DEF VoucherExpires, LockEnds, Exclude, Attach, loginVars
<1> QED
  BY <1>3, <1>4, <1>5 DEF LoginNext

LEMMA VouchersStep ==
    ASSUME LoginTypeOK, VouchersAgree, CodeOpensOnce, [LoginNext]_loginVars
    PROVE  VouchersAgree' /\ CodeOpensOnce'
<1> DEFINE redeems(q, v) == login[q].pc = "redeemed" /\ login[q].code = v
           agree == /\ \A v \in Vouchers : voucher[v] # "gone" => opened[v] = 0
                    /\ \A v \in Vouchers : opened[v] <= 1
                    /\ \A q \in Logins, v \in Vouchers :
                           redeems(q, v) => voucher[v] = "gone" /\ opened[v] = 0
                    /\ \A p, q \in Logins, v \in Vouchers :
                           redeems(p, v) /\ redeems(q, v) => p = q
<1>1. agree
  BY LoginShapes DEF VouchersAgree, CodeOpensOnce
<1>2. LoginTypeOK'
  BY LoginTypeStep
<1>3. SUFFICES agree'
  <2>1. \A q \in Logins : (login[q].pc = "redeemed" => login[q].code \in Vouchers)'
    <3> SUFFICES ASSUME NEW q \in Logins PROVE (login[q].pc = "redeemed" => login[q].code \in Vouchers)'
      OBVIOUS
    <3>1. login'[q] \in LoginState
      BY <1>2 DEF LoginTypeOK, LoginState
    <3>2. CASE login'[q] \in [pc : {"redeemed"}, code : Vouchers]
      BY <3>2
    <3>3. CASE login'[q].pc # "redeemed"
      BY <3>3
    <3> QED
      BY <3>1, <3>2, <3>3 DEF LoginState, AtRest
  <2> QED
    BY <1>3, <2>1 DEF VouchersAgree, CodeOpensOnce
<1>4. ASSUME NEW r \in Logins,
             \/ ReadAccount(r) \/ VerifyPassword(r) \/ WriteFailure(r) \/ WriteSuccess(r)
             \/ \E code \in BOOLEAN : ResolveAccount(r, code)
             \/ CreateAccount(r) \/ ForgiveSso(r) \/ Issued(r)
      PROVE  agree'
  <2>1. UNCHANGED <<voucher, opened>>
    BY <1>4 DEF ReadAccount, VerifyPassword, WriteFailure, WriteSuccess, ResolveAccount,
       CreateAccount, ForgiveSso, Issued
  <2>2. \A q \in Logins : q # r => login'[q] = login[q]
    BY <1>4, LoginOthers
  <2>3. login'[r].pc # "redeemed"
    BY <1>4, LoginTargets
  <2> QED
    BY <1>1, <2>1, <2>2, <2>3
<1>5. ASSUME NEW r \in Logins, Enter(r)
      PROVE  agree'
  <2>1. opened' = opened /\ \A v \in Vouchers : voucher'[v] # voucher[v] => voucher[v] = "none"
    BY <1>5 DEF Enter, LoginTypeOK
  <2>2. \A q \in Logins : q # r => login'[q] = login[q]
    BY <1>5, LoginOthers
  <2>3. login'[r].pc # "redeemed"
    BY <1>5, LoginTargets
  <2> QED
    BY <1>1, <2>1, <2>2, <2>3
<1>6. ASSUME NEW r \in Logins, NEW v \in Vouchers, Redeem(r, v)
      PROVE  agree'
  <2>1. /\ opened' = opened /\ voucher[v] = "live" /\ voucher'[v] = "gone"
        /\ \A w \in Vouchers : w # v => voucher'[w] = voucher[w]
    BY <1>6 DEF Redeem, LoginTypeOK
  <2>2. \A q \in Logins : q # r => login'[q] = login[q]
    BY <1>6, LoginOthers
  <2>3. login'[r].pc = "redeemed" /\ login'[r].code = v
    BY <1>6, LoginTargets
  <2> QED
    BY <1>1, <2>1, <2>2, <2>3
<1>7. ASSUME NEW r \in Logins, OpenByCode(r)
      PROVE  agree'
  <2>1. \A q \in Logins : q # r => login'[q] = login[q]
    BY <1>7, LoginOthers
  <2>2. login'[r].pc # "redeemed" /\ voucher' = voucher
    BY <1>7, LoginTargets DEF OpenByCode
  <2>3. CASE UNCHANGED opened
    BY <1>1, <2>1, <2>2, <2>3
  <2>4. CASE opened' = [opened EXCEPT ![login[r].code] = @ + 1]
    <3>1. PICK v \in Vouchers : redeems(r, v)
      BY <1>7, LoginShapes DEF OpenByCode
    <3>2. opened'[v] = 1 /\ \A w \in Vouchers : w # v => opened'[w] = opened[w]
      BY <1>1, <2>4, <3>1 DEF LoginTypeOK
    <3> QED
      BY <1>1, <2>1, <2>2, <3>1, <3>2
  <2> QED
    BY <1>7, <2>3, <2>4 DEF OpenByCode
<1>8. ASSUME NEW v \in Vouchers, VoucherExpires(v)
      PROVE  agree'
  <2>1. /\ opened' = opened /\ login' = login /\ voucher'[v] = "gone"
        /\ \A w \in Vouchers : w # v => voucher'[w] = voucher[w]
    BY <1>8 DEF VoucherExpires, LoginTypeOK
  <2> QED
    BY <1>1, <2>1
<1>9. ASSUME LockEnds \/ Exclude \/ Attach \/ UNCHANGED loginVars
      PROVE  agree'
  BY <1>1, <1>9 DEF LockEnds, Exclude, Attach, loginVars
<1> QED
  BY <1>4, <1>5, <1>6, <1>7, <1>8, <1>9 DEF LoginNext

LEMMA ChecksStep ==
    ASSUME LoginTypeOK, DoorsAgree, ChecksAgree, LockedAfterFailures, [LoginNext]_loginVars
    PROVE  ChecksAgree' /\ LockedAfterFailures'
<1> USE LoginAssumption
<1> DEFINE checks(q) == login[q].pc \in {"verify", "fail", "succeed"}
           agree == ~tries.overlap =>
                        /\ \A p, q \in Logins : checks(p) /\ checks(q) => p = q
                        /\ \A q \in Logins : checks(q) => login[q].read = failures
                        /\ tries.count <= failures
                        /\ tries.count >= MaxFailures => lock
<1>1. agree
  BY DEF ChecksAgree, Checking, LockedAfterFailures
<1>2. SUFFICES agree'
  BY <1>2 DEF ChecksAgree, Checking, LockedAfterFailures
<1>3. ASSUME NEW r \in Logins, ReadAccount(r)
      PROVE  agree'
  <2>1. \A q \in Logins : q # r => login'[q] = login[q]
    BY <1>3, LoginOthers
  <2>2. checks(r)' /\ login'[r].read = failures /\ UNCHANGED <<failures, lock>>
    BY <1>3, LoginTargets DEF ReadAccount
  <2>3. tries'.count = tries.count /\ (~tries'.overlap => ~tries.overlap /\ Checking = {})
    BY <1>3 DEF ReadAccount, LoginTypeOK
  <2> QED
    BY <1>1, <2>1, <2>2, <2>3 DEF Checking
<1>4. ASSUME NEW r \in Logins, VerifyPassword(r)
      PROVE  agree'
  <2>1. \A q \in Logins : q # r => login'[q] = login[q]
    BY <1>4, LoginOthers
  <2>2. checks(r) /\ login'[r].read = login[r].read /\ UNCHANGED <<failures, lock, tries>>
    BY <1>4, LoginTargets DEF VerifyPassword
  <2> QED
    BY <1>1, <2>1, <2>2
<1>5. ASSUME NEW r \in Logins, WriteFailure(r)
      PROVE  agree'
  <2>1. \A q \in Logins : q # r => login'[q] = login[q]
    BY <1>5, LoginOthers
  <2>2. checks(r) /\ ~checks(r)' /\ login[r].read \in 0..MaxTries
    BY <1>5, LoginTargets, LoginShapes DEF WriteFailure
  <2>3. /\ tries.count \in Nat /\ tries.count < MaxTries
        /\ tries'.count = tries.count + 1 /\ tries'.overlap = tries.overlap
    BY <1>5 DEF WriteFailure, LoginTypeOK
  <2>4. /\ failures' = IF login[r].read < MaxTries THEN login[r].read + 1 ELSE login[r].read
        /\ lock' = (login[r].read + 1 >= MaxFailures)
    BY <1>5 DEF WriteFailure, CountUp
  <2>5. SUFFICES ASSUME ~tries.overlap
                 PROVE  /\ tries'.count <= failures'
                        /\ tries'.count >= MaxFailures => lock'
    BY <1>1, <2>1, <2>2, <2>3, <2>5
  <2>6. login[r].read = failures /\ tries.count <= failures
    BY <1>1, <2>2, <2>5
  <2>7. tries'.count <= failures'
    BY <2>2, <2>3, <2>4, <2>6
  <2>8. tries'.count >= MaxFailures => login[r].read + 1 >= MaxFailures
    BY <2>2, <2>3, <2>6
  <2> QED
    BY <2>4, <2>7, <2>8, Zenon
<1>6. ASSUME Forgive, \A p, q \in Logins : ~tries'.overlap /\ checks(p)' => FALSE
      PROVE  agree'
  BY <1>6 DEF Forgive
<1>7. ASSUME NEW r \in Logins, WriteSuccess(r)
      PROVE  agree'
  <2>1. \A q \in Logins : q # r => login'[q] = login[q]
    BY <1>7, LoginOthers
  <2>2. r \in Checking /\ ~checks(r)'
    BY <1>7, LoginTargets DEF WriteSuccess, Checking
  <2>3. IsFiniteSet(Checking) /\ Cardinality(Checking) \in Nat
    BY FS_Subset, FS_CardinalityType DEF Checking
  <2>4. ASSUME Cardinality(Checking) <= 1
        PROVE  Checking = {r}
    <3>1. Cardinality({r}) = 1 /\ {r} \subseteq Checking
      BY <2>2, FS_Singleton
    <3> QED
      BY <2>3, <2>4, <3>1, FS_Subset
  <2>5. ~tries'.overlap => ~(Cardinality(Checking) > 1)
    BY <1>7 DEF WriteSuccess, Forgive
  <2>6. ~tries'.overlap => Checking = {r}
    BY <2>3, <2>4, <2>5
  <2>7. Forgive
    BY <1>7 DEF WriteSuccess
  <2> QED
    BY <1>6, <2>1, <2>2, <2>6, <2>7 DEF Checking
<1>8. ASSUME NEW r \in Logins, ForgiveSso(r)
      PROVE  agree'
  <2>1. \A q \in Logins : q # r => login'[q] = login[q]
    BY <1>8, LoginOthers
  <2>2. Forgive /\ ~checks(r)' /\ Checking = {}
    BY <1>8, LoginTargets DEF ForgiveSso, DoorsAgree
  <2> QED
    BY <1>6, <2>1, <2>2 DEF Checking
<1>9. ASSUME LockEnds
      PROVE  agree'
  <2>1. /\ login' = login /\ failures' = failures /\ failures \in Nat
    BY <1>9 DEF LockEnds, LoginTypeOK
  <2>2. tries'.count = 0 /\ (~tries'.overlap => Checking = {})
    BY <1>9 DEF LockEnds
  <2> QED
    BY <2>1, <2>2 DEF Checking
<1>10. ASSUME NEW r \in Logins,
             \/ \E code \in BOOLEAN : ResolveAccount(r, code)
             \/ CreateAccount(r) \/ Enter(r)
             \/ \E v \in Vouchers : Redeem(r, v)
             \/ OpenByCode(r) \/ Issued(r)
      PROVE  agree'
  <2>1. \A q \in Logins : q # r => login'[q] = login[q]
    BY <1>10, LoginOthers
  <2>2. ~checks(r)'
    BY <1>10, LoginTargets
  <2>3. UNCHANGED <<failures, lock, tries>>
    BY <1>10 DEF ResolveAccount, CreateAccount, Enter, Redeem, OpenByCode, Issued
  <2> QED
    BY <1>1, <2>1, <2>2, <2>3
<1>11. ASSUME \/ \E v \in Vouchers : VoucherExpires(v)
              \/ Exclude \/ Attach \/ UNCHANGED loginVars
       PROVE  agree'
  BY <1>1, <1>11 DEF VoucherExpires, Exclude, Attach, loginVars
<1> QED
  BY <1>3, <1>4, <1>5, <1>7, <1>8, <1>9, <1>10, <1>11 DEF LoginNext

LEMMA LoginStarts ==
    ASSUME LoginInit
    PROVE  LoginInv
<1> USE LoginAssumption
<1>1. AtRest \in LoginState /\ AtRest.pc = "idle"
  BY DEF LoginState, AtRest
<1>2. Cardinality(Logins) \in Nat
  BY FS_CardinalityType
<1>3. Untried \in [count : 0..MaxTries, overlap : BOOLEAN]
  BY DEF Untried
<1>4. LoginTypeOK
  <2>1. account \in {"none", "PASSWORD", "SSO"} /\ failures \in 0..MaxTries
    BY DEF LoginInit
  <2>2. login \in [Logins -> LoginState] /\ voucher \in [Vouchers -> {"none", "live", "gone"}]
    BY <1>1 DEF LoginInit
  <2>3. opened \in [Vouchers -> 0..Cardinality(Logins) + 1]
    BY <1>2 DEF LoginInit
  <2>4. company \in BOOLEAN /\ lock \in BOOLEAN /\ excluded \in BOOLEAN
    BY Zenon DEF LoginInit
  <2> QED
    BY <1>3, <2>1, <2>2, <2>3, <2>4 DEF LoginInit, LoginTypeOK
<1>5. \A r \in Logins : login[r].pc = "idle"
  BY <1>1 DEF LoginInit
<1>6. Checking = {}
  BY <1>5 DEF Checking
<1>7. tries.count = 0 /\ failures = 0 /\ \A v \in Vouchers : opened[v] = 0
  BY DEF LoginInit, Untried
<1> QED
  BY <1>4, <1>5, <1>6, <1>7
  DEF LoginInv, DoorsAgree, VouchersAgree, ChecksAgree, CodeOpensOnce, LockedAfterFailures

LEMMA LoginStep ==
    ASSUME LoginInv, [LoginNext]_loginVars
    PROVE  LoginInv'
BY LoginTypeStep, DoorsStep, VouchersStep, ChecksStep DEF LoginInv

-----------------------------------------------------------------------------
(* Administrators: staying in *)

\* A row of the refresh tokens.
GrantRow == [family : Grants, used : BOOLEAN, revoked : BOOLEAN, aged : BOOLEAN]

\* A row exists when it has a family.
LEMMA GrantShapes ==
    ASSUME DashboardTypeOK, NEW g \in Grants
    PROVE  /\ grant[g] # NoGrant <=> grant[g].family \in Grants
           /\ grant[g] = NoGrant <=> grant[g].family = Nil
           /\ grant[g] # NoGrant =>
                 /\ grant[g].used \in BOOLEAN
                 /\ grant[g].revoked \in BOOLEAN
                 /\ grant[g].aged \in BOOLEAN
                 /\ grant[g] \in GrantRow
<1>1. grant[g] \in {NoGrant} \cup GrantRow
  BY DEF DashboardTypeOK, GrantRow
<1>2. CASE grant[g] \in GrantRow
  BY <1>2, DashboardAssumption DEF NoGrant, GrantRow
<1>3. CASE grant[g] = NoGrant
  BY <1>3, DashboardAssumption DEF NoGrant
<1> QED
  BY <1>1, <1>2, <1>3

\* A request of the page that has not rotated, and one that has.
PlainPage == [pc : {"forward", "served", "rotate", "revoke", "use", "issue", "refused"},
              had : Cookies, barred : BOOLEAN]
FreshPage == [pc : {"replay", "reply", "served"}, had : Cookies, barred : BOOLEAN, new : Grants]

\* The shapes of a request of the page.
LEMMA PageShapes ==
    ASSUME DashboardTypeOK, NEW p \in Pages
    PROVE  /\ page[p] = Still <=> page[p].pc = "idle"
           /\ Rotated(p) => page[p].pc \in {"replay", "reply", "served"}
           /\ page[p].pc \in {"replay", "reply"} => Rotated(p)
           /\ page[p] # Still => page[p].had \in Cookies /\ page[p].barred \in BOOLEAN
           /\ Rotated(p) => page[p] \in FreshPage /\ page[p].new \in Grants
           /\ page[p] # Still /\ ~Rotated(p) => page[p] \in PlainPage
<1>1. page[p] \in {Still} \cup PlainPage \cup FreshPage
  BY DEF DashboardTypeOK, PageState, PlainPage, FreshPage
<1>2. CASE page[p] \in PlainPage
  BY <1>2 DEF Rotated, Still, PlainPage
<1>3. CASE page[p] \in FreshPage
  BY <1>3 DEF Rotated, Still, FreshPage
<1>4. CASE page[p] = Still
  BY <1>4 DEF Rotated, Still
<1> QED
  BY <1>1, <1>2, <1>3, <1>4

\* Where each action takes its request.
LEMMA DashboardTargets ==
    ASSUME DashboardTypeOK, NEW p \in Pages
    PROVE  /\ Ask(p) => /\ page'[p] \in PageState /\ page'[p].pc \in {"rotate", "forward"}
                        /\ page'[p].had = jar /\ page'[p].barred = ~allowed
                        /\ ~Rotated(p)'
           /\ Forward(p) => \/ page'[p] = Still
                            \/ /\ page'[p] \in PageState /\ page'[p].pc \in {"served", "rotate"}
                               /\ page'[p].had.refresh = page[p].had.refresh
                               /\ page'[p].barred = page[p].barred
                               /\ ~Rotated(p)'
                               /\ page'[p].pc = "served" => allowed
           /\ ReadGrant(p) \/ RevokeKin(p) \/ UseGrant(p) \/ RotationFails(p) =>
                 /\ page'[p] \in PageState
                 /\ page'[p].had.refresh = page[p].had.refresh
                 /\ page'[p].barred = page[p].barred
                 /\ ~Rotated(p)'
           /\ ReadGrant(p) => page'[p].pc = LET g == grant[page[p].had.refresh]
                                            IN  IF g.used \/ g.revoked THEN "revoke"
                                                ELSE IF g.aged \/ ~allowed THEN "refused" ELSE "use"
           /\ UseGrant(p) => page'[p].pc = "issue"
           /\ RevokeKin(p) \/ RotationFails(p) => page'[p].pc = "refused"
           /\ Replay(p) => /\ page'[p] \in PageState /\ page'[p].pc \in {"served", "reply"}
                           /\ page'[p].had.refresh = page[p].had.refresh
                           /\ page'[p].barred = page[p].barred
                           /\ Rotated(p)' /\ page'[p].new = page[p].new
                           /\ page'[p].pc = "served" => allowed
           /\ Relay(p) \/ Refuse(p) \/ LoseReply(p) => page'[p] = Still
<1>1. \A s : Turn(p, s) => page'[p] = s
  BY DEF Turn, DashboardTypeOK
<1>2. ASSUME Ask(p)
      PROVE  /\ page'[p] \in PageState /\ page'[p].pc \in {"rotate", "forward"}
             /\ page'[p].had = jar /\ page'[p].barred = ~allowed
             /\ ~Rotated(p)'
  <2>1. page'[p] = [pc |-> IF jar.access = Nil THEN "rotate" ELSE "forward", had |-> jar,
                    barred |-> ~allowed]
    BY <1>1, <1>2, Zenon DEF Ask
  <2>2. (~allowed) \in BOOLEAN /\ jar \in Cookies
    BY DEF DashboardTypeOK
  <2>3. page'[p].pc = IF jar.access = Nil THEN "rotate" ELSE "forward"
    BY <2>1
  <2>4. page'[p].barred = ~allowed
    BY <2>1
  <2> QED
    BY <2>1, <2>2, <2>3, <2>4 DEF PageState, Rotated
<1>3. ASSUME Forward(p), page'[p] # Still
      PROVE  /\ page'[p] \in PageState /\ page'[p].pc \in {"served", "rotate"}
             /\ page'[p].had.refresh = page[p].had.refresh
             /\ page'[p].barred = page[p].barred
             /\ ~Rotated(p)'
             /\ page'[p].pc = "served" => allowed
  <2>1. page[p].pc = "forward" /\ page[p] # Still /\ ~Rotated(p)
    BY <1>3, PageShapes DEF Forward
  <2>2. CASE Lets(page[p].had.access) /\ page'[p] = [page[p] EXCEPT !.pc = "served"]
    <3>1. "served" \in {"served", "rotate", "revoke", "use", "issue", "refused"} /\ allowed
      BY <2>2 DEF Lets
    <3>2. /\ page'[p] \in PageState /\ page'[p].pc = "served"
          /\ page'[p].had.refresh = page[p].had.refresh /\ page'[p].barred = page[p].barred
          /\ "new" \notin DOMAIN page'[p]
      BY <2>1, <2>2, PageShapes DEF PageState, PlainPage
    <3> QED
      BY <3>1, <3>2 DEF Rotated
  <2>3. CASE page'[p] = [pc |-> "rotate", had |-> [page[p].had EXCEPT !.access = Nil],
                        barred |-> page[p].barred]
    <3>1. page[p] \in PlainPage
      BY <2>1, PageShapes
    <3>2. /\ page'[p] \in PlainPage /\ page'[p].pc = "rotate"
          /\ page'[p].had.refresh = page[p].had.refresh /\ page'[p].barred = page[p].barred
          /\ "new" \notin DOMAIN page'[p]
      BY <2>3, <3>1 DEF PlainPage, Cookies
    <3> QED
      BY <3>2 DEF Rotated, PageState, PlainPage
  <2> QED
    BY <1>1, <1>3, <2>2, <2>3 DEF Forward
<1>4. ASSUME NEW s \in {"revoke", "refused", "use", "issue"},
             page[p].pc \in {"rotate", "revoke", "use"},
             Turn(p, [page[p] EXCEPT !.pc = s])
      PROVE  /\ page'[p] \in PageState
             /\ page'[p].had.refresh = page[p].had.refresh
             /\ page'[p].barred = page[p].barred
             /\ ~Rotated(p)'
             /\ page'[p].pc = s
  <2>1. page[p] # Still /\ ~Rotated(p)
    BY <1>4, PageShapes
  <2>2. page'[p] = [page[p] EXCEPT !.pc = s]
    BY <1>1, <1>4, Zenon
  <2>3. s \in {"served", "rotate", "revoke", "use", "issue", "refused"}
    BY <1>4
  <2>4. /\ page'[p] \in PageState /\ page'[p].pc = s
        /\ page'[p].had.refresh = page[p].had.refresh /\ page'[p].barred = page[p].barred
        /\ "new" \notin DOMAIN page'[p]
    BY <2>1, <2>2, <2>3, PageShapes DEF PageState, PlainPage
  <2> QED
    BY <2>4 DEF Rotated
<1>7. ReadGrant(p) => \E s \in {"revoke", "refused", "use", "issue"} :
          /\ Turn(p, [page[p] EXCEPT !.pc = s])
          /\ page[p].pc = "rotate"
          /\ s = LET g == grant[page[p].had.refresh]
                 IN  IF g.used \/ g.revoked THEN "revoke"
                     ELSE IF g.aged \/ ~allowed THEN "refused" ELSE "use"
  <2> DEFINE s == LET g == grant[page[p].had.refresh]
                  IN  IF g.used \/ g.revoked THEN "revoke"
                      ELSE IF g.aged \/ ~allowed THEN "refused" ELSE "use"
  <2>1. s \in {"revoke", "refused", "use", "issue"}
    OBVIOUS
  <2>2. ReadGrant(p) => Turn(p, [page[p] EXCEPT !.pc = s]) /\ page[p].pc = "rotate"
    BY Zenon DEF ReadGrant
  <2> HIDE DEF s
  <2>3. ReadGrant(p) => \E x \in {"revoke", "refused", "use", "issue"} :
          /\ Turn(p, [page[p] EXCEPT !.pc = x])
          /\ page[p].pc = "rotate"
          /\ x = s
    BY <2>1, <2>2, Zenon
  <2> QED
    BY <2>3, Zenon DEF s
<1>8. /\ UseGrant(p) => page[p].pc = "use" /\ Turn(p, [page[p] EXCEPT !.pc = "issue"])
      /\ RevokeKin(p) => page[p].pc = "revoke" /\ Turn(p, [page[p] EXCEPT !.pc = "refused"])
      /\ RotationFails(p) => page[p].pc = "rotate" /\ Turn(p, [page[p] EXCEPT !.pc = "refused"])
  BY Zenon DEF UseGrant, RevokeKin, RotationFails
<1>9. /\ UseGrant(p) => page'[p].pc = "issue"
      /\ RevokeKin(p) \/ RotationFails(p) => page'[p].pc = "refused"
      /\ UseGrant(p) \/ RevokeKin(p) \/ RotationFails(p) =>
             /\ page'[p] \in PageState
             /\ page'[p].had.refresh = page[p].had.refresh
             /\ page'[p].barred = page[p].barred
             /\ ~Rotated(p)'
  BY <1>4, <1>8, Zenon
<1>5. ASSUME Replay(p)
      PROVE  /\ page'[p] \in PageState /\ page'[p].pc \in {"served", "reply"}
             /\ page'[p].had.refresh = page[p].had.refresh
             /\ page'[p].barred = page[p].barred
             /\ Rotated(p)' /\ page'[p].new = page[p].new
             /\ page'[p].pc = "served" => allowed
  <2>1. page[p] # Still /\ Rotated(p)
    BY <1>5, PageShapes DEF Replay
  <2> DEFINE s == IF Lets(page[p].new) THEN "served" ELSE "reply"
  <2>2. page'[p] = [page[p] EXCEPT !.pc = s]
    BY <1>1, <1>5, Zenon DEF Replay
  <2>3. s \in {"served", "reply"} /\ (s = "served" => allowed)
    BY DEF Lets
  <2> HIDE DEF s
  <2> QED
    <3>1. /\ page'[p] \in PageState /\ page'[p].pc = s
          /\ page'[p].had.refresh = page[p].had.refresh /\ page'[p].barred = page[p].barred
          /\ "new" \in DOMAIN page'[p] /\ page'[p].new = page[p].new
      BY <2>1, <2>2, <2>3, PageShapes DEF PageState, FreshPage
    <3> QED
      BY <2>3, <3>1 DEF Rotated
<1>6. Relay(p) \/ Refuse(p) \/ LoseReply(p) => page'[p] = Still
  BY <1>1 DEF Relay, Refuse, LoseReply
<1> QED
  BY <1>2, <1>3, <1>4, <1>5, <1>6, <1>7, <1>9, Zenon

\* What each write does to the rows: a family stays, a mark stays.
LEMMA RevokedRows ==
    ASSUME DashboardTypeOK, NEW c \in Grants, grant[c] # NoGrant, grant' = Revoked(Kin(c))
    PROVE  /\ grant' \in [Grants -> {NoGrant} \cup GrantRow]
           /\ \A g \in Grants :
                 /\ grant'[g].family = grant[g].family
                 /\ grant'[g] = NoGrant <=> grant[g] = NoGrant
                 /\ grant[g] # NoGrant =>
                       /\ grant'[g].used = grant[g].used /\ grant'[g].aged = grant[g].aged
                       /\ grant'[g].revoked = (grant[g].revoked \/ grant[g].family = grant[c].family)
<1>1. ASSUME NEW g \in Grants
      PROVE  /\ grant'[g] \in {NoGrant} \cup GrantRow
             /\ grant'[g].family = grant[g].family
             /\ grant'[g] = NoGrant <=> grant[g] = NoGrant
             /\ grant[g] # NoGrant =>
                   /\ grant'[g].used = grant[g].used /\ grant'[g].aged = grant[g].aged
                   /\ grant'[g].revoked = (grant[g].revoked \/ grant[g].family = grant[c].family)
  <2>1. grant'[g] = IF g \in Kin(c) THEN [grant[g] EXCEPT !.revoked = TRUE] ELSE grant[g]
    BY DEF Revoked
  <2>2. CASE g \in Kin(c)
    <3>1. grant[g] \in GrantRow /\ grant[g].family = grant[c].family /\ grant[g] # NoGrant
      BY <2>2, GrantShapes DEF Kin
    <3>2. /\ grant'[g] \in GrantRow /\ grant'[g].family = grant[g].family
          /\ grant'[g].used = grant[g].used /\ grant'[g].aged = grant[g].aged
          /\ grant'[g].revoked = TRUE
      BY <2>1, <2>2, <3>1 DEF GrantRow
    <3>3. grant'[g] # NoGrant
      BY <3>2, DashboardAssumption DEF GrantRow, NoGrant
    <3> QED
      BY <3>1, <3>2, <3>3
  <2>3. CASE g \notin Kin(c)
    BY <2>1, <2>3, GrantShapes DEF Kin
  <2> QED
    BY <2>2, <2>3
<1>2. grant' = [g \in Grants |-> grant'[g]]
  BY DEF Revoked
<1> QED
  BY <1>1, <1>2

LEMMA UsedRow ==
    ASSUME DashboardTypeOK, NEW c \in Grants, grant[c] # NoGrant,
           grant' = [grant EXCEPT ![c].used = TRUE]
    PROVE  /\ grant' \in [Grants -> {NoGrant} \cup GrantRow]
           /\ \A g \in Grants :
                 /\ g # c => grant'[g] = grant[g]
                 /\ grant'[g].family = grant[g].family
                 /\ grant'[g] = NoGrant <=> grant[g] = NoGrant
                 /\ grant[g] # NoGrant => grant'[g].revoked = grant[g].revoked
           /\ grant'[c].used = TRUE /\ grant'[c].aged = grant[c].aged
<1>1. grant[c] \in GrantRow
  BY GrantShapes
<1>2. grant \in [Grants -> {NoGrant} \cup GrantRow]
  BY DEF DashboardTypeOK, GrantRow
<1>3. /\ grant'[c] \in GrantRow /\ grant'[c].family = grant[c].family
      /\ grant'[c].revoked = grant[c].revoked /\ grant'[c].used = TRUE
      /\ grant'[c].aged = grant[c].aged
  BY <1>1, <1>2 DEF GrantRow
<1>4. grant'[c] # NoGrant
  BY <1>3, DashboardAssumption DEF GrantRow, NoGrant
<1> QED
  BY <1>1, <1>2, <1>3, <1>4

LEMMA AgedRow ==
    ASSUME DashboardTypeOK, NEW c \in Grants, grant[c] # NoGrant,
           grant' = [grant EXCEPT ![c].aged = TRUE]
    PROVE  /\ grant' \in [Grants -> {NoGrant} \cup GrantRow]
           /\ \A g \in Grants :
                 /\ g # c => grant'[g] = grant[g]
                 /\ grant'[g].family = grant[g].family
                 /\ grant'[g] = NoGrant <=> grant[g] = NoGrant
                 /\ grant[g] # NoGrant => grant'[g].revoked = grant[g].revoked
           /\ grant'[c].aged = TRUE /\ grant'[c].used = grant[c].used
<1>1. grant[c] \in GrantRow
  BY GrantShapes
<1>2. grant \in [Grants -> {NoGrant} \cup GrantRow]
  BY DEF DashboardTypeOK, GrantRow
<1>3. /\ grant'[c] \in GrantRow /\ grant'[c].family = grant[c].family
      /\ grant'[c].revoked = grant[c].revoked /\ grant'[c].aged = TRUE
      /\ grant'[c].used = grant[c].used
  BY <1>1, <1>2 DEF GrantRow
<1>4. grant'[c] # NoGrant
  BY <1>3, DashboardAssumption DEF GrantRow, NoGrant
<1> QED
  BY <1>1, <1>2, <1>3, <1>4

LEMMA NewRow ==
    ASSUME DashboardTypeOK, NEW g \in Grants, grant[g] = NoGrant, NEW family \in Grants,
           grant' = [grant EXCEPT ![g] = NewGrant(family)]
    PROVE  /\ grant' \in [Grants -> {NoGrant} \cup GrantRow]
           /\ grant'[g] # NoGrant /\ grant'[g].family = family
           /\ grant'[g].used = FALSE /\ grant'[g].revoked = FALSE /\ grant'[g].aged = FALSE
           /\ \A h \in Grants : h # g => grant'[h] = grant[h]
<1>1. NewGrant(family) \in GrantRow /\ NewGrant(family) # NoGrant
  BY DashboardAssumption DEF NewGrant, GrantRow, NoGrant
<1>2. grant \in [Grants -> {NoGrant} \cup GrantRow]
  BY DEF DashboardTypeOK, GrantRow
<1> QED
  BY <1>1, <1>2 DEF NewGrant

\* The tokens that are carried are rows.
LEMMA CarriedRows ==
    ASSUME DashboardTypeOK, GrantsAgree
    PROVE  /\ jar.refresh # Nil => jar.refresh \in Grants /\ grant[jar.refresh] # NoGrant
           /\ \A p \in Pages : page[p] # Still =>
                 /\ page[p].had.refresh \in Grants
                 /\ grant[page[p].had.refresh] # NoGrant
                 /\ page[p].had.refresh \in Current
                 /\ grant[page[p].had.refresh].family \in Grants
<1>1. jar.refresh # Nil => jar.refresh \in Grants /\ jar.refresh \in Current
  BY DEF DashboardTypeOK, Cookies, Current
<1>2. ASSUME NEW p \in Pages, page[p] # Still
      PROVE  page[p].had.refresh \in Grants /\ page[p].had.refresh \in Current
  <2>1. page[p].had \in Cookies /\ page[p].had.refresh # Nil
    BY <1>2, PageShapes DEF GrantsAgree, Busy
  <2> QED
    BY <1>2, <2>1 DEF Cookies, Current, Busy
<1>3. \A c \in Current : grant[c] # NoGrant
  BY DEF GrantsAgree
<1> QED
  BY <1>1, <1>2, <1>3, GrantShapes

\* A row stays, in its family.
LEMMA GrantsGrow ==
    ASSUME DashboardTypeOK, GrantsAgree, [DashboardNext]_dashboardVars
    PROVE  /\ grant' \in [Grants -> {NoGrant} \cup GrantRow]
           /\ \A g \in Grants : grant[g] # NoGrant =>
                 grant'[g] # NoGrant /\ grant'[g].family = grant[g].family
<1> DEFINE goal == /\ grant' \in [Grants -> {NoGrant} \cup GrantRow]
                   /\ \A g \in Grants : grant[g] # NoGrant =>
                         grant'[g] # NoGrant /\ grant'[g].family = grant[g].family
<1>1. CASE UNCHANGED grant
  BY <1>1 DEF DashboardTypeOK, GrantRow
<1>2. CASE SignIn
  BY <1>2, NewRow DEF SignIn, Unused
<1>3. CASE LogoutRevoke
  BY <1>1, <1>3, CarriedRows, RevokedRows DEF LogoutRevoke
<1>4. ASSUME NEW p \in Pages, RevokeKin(p)
      PROVE  goal
  BY <1>4, CarriedRows, PageShapes, RevokedRows DEF RevokeKin
<1>5. ASSUME NEW p \in Pages, UseGrant(p)
      PROVE  goal
  BY <1>5, CarriedRows, PageShapes, UsedRow DEF UseGrant
<1>6. ASSUME NEW p \in Pages, IssueGrant(p)
      PROVE  goal
  <2>1. grant[page[p].had.refresh].family \in Grants
    BY <1>6, CarriedRows, PageShapes DEF IssueGrant
  <2> QED
    BY <1>6, <2>1, NewRow DEF IssueGrant, Unused
<1>7. ASSUME NEW g \in Grants, GrantAges(g)
      PROVE  goal
  BY <1>7, DashboardAssumption, CarriedRows, AgedRow DEF GrantAges
<1>8. CASE dashboardVars' = dashboardVars
  BY <1>1, <1>8 DEF dashboardVars
<1>9. CASE LogoutClear \/ ExcludeAdmin \/ \E g \in Grants : AccessRunsOut(g)
  BY <1>1, <1>9 DEF LogoutClear, ExcludeAdmin, AccessRunsOut
<1>10. ASSUME NEW p \in Pages,
             \/ Ask(p) \/ Forward(p) \/ ReadGrant(p) \/ Replay(p) \/ Relay(p) \/ Refuse(p)
             \/ LoseReply(p) \/ RotationFails(p)
       PROVE  goal
  <2>1. UNCHANGED grant
    BY <1>10 DEF Ask, Forward, ReadGrant, Replay, Relay, Refuse, LoseReply, RotationFails
  <2> QED
    BY <1>1, <2>1
<1> HIDE DEF goal
<1>11. goal
  BY <1>1, <1>2, <1>3, <1>4, <1>5, <1>6, <1>7, <1>8, <1>9, <1>10 DEF DashboardNext, goal
<1> QED
  BY <1>11 DEF goal

\* A request moves alone.
LEMMA PageMoves ==
    ASSUME DashboardTypeOK, NEW p \in Pages,
           \/ Ask(p) \/ Forward(p) \/ ReadGrant(p) \/ RevokeKin(p) \/ UseGrant(p)
           \/ IssueGrant(p) \/ Replay(p) \/ Relay(p) \/ Refuse(p) \/ LoseReply(p)
           \/ RotationFails(p)
    PROVE  /\ \A q \in Pages : q # p => page'[q] = page[q] /\ Rotated(q)' = Rotated(q)
           /\ page'[p] \in PageState => page' \in [Pages -> PageState]
<1>1. ASSUME NEW s, Turn(p, s)
      PROVE  /\ \A q \in Pages : q # p => page'[q] = page[q] /\ Rotated(q)' = Rotated(q)
             /\ page'[p] \in PageState => page' \in [Pages -> PageState]
  BY <1>1 DEF Turn, DashboardTypeOK, Rotated
<1>2. \E s : Turn(p, s)
  BY Zenon DEF Ask, Forward, ReadGrant, RevokeKin, UseGrant, IssueGrant, Replay, Relay, Refuse, LoseReply,
     RotationFails
<1> QED
  BY <1>1, <1>2

\* The new token of a rotation.
LEMMA IssueTargets ==
    ASSUME DashboardTypeOK, GrantsAgree, NEW p \in Pages, IssueGrant(p)
    PROVE  /\ page'[p] \in PageState /\ page'[p].pc = "replay"
           /\ page'[p].had = page[p].had /\ page'[p].barred = page[p].barred
           /\ Rotated(p)' /\ page'[p].new \in Grants
           /\ grant[page'[p].new] = NoGrant
           /\ grant' = [grant EXCEPT ![page'[p].new] =
                            NewGrant(grant[page[p].had.refresh].family)]
<1>1. PICK g \in Unused :
          /\ grant' = [grant EXCEPT ![g] = NewGrant(grant[page[p].had.refresh].family)]
          /\ Turn(p, [pc |-> "replay", had |-> page[p].had, barred |-> page[p].barred, new |-> g])
  BY Zenon DEF IssueGrant
<1>2. page'[p] = [pc |-> "replay", had |-> page[p].had, barred |-> page[p].barred, new |-> g]
  BY <1>1 DEF Turn, DashboardTypeOK
<1>3. /\ g \in Grants /\ grant[g] = NoGrant
      /\ page[p].had \in Cookies /\ page[p].barred \in BOOLEAN
  BY PageShapes DEF Unused, IssueGrant
<1>4. /\ page'[p].pc = "replay" /\ page'[p].had = page[p].had
      /\ page'[p].barred = page[p].barred /\ page'[p].new = g /\ "new" \in DOMAIN page'[p]
  BY <1>2
<1>5. page'[p] \in PageState
  BY <1>2, <1>3 DEF PageState
<1> QED
  BY <1>1, <1>3, <1>4, <1>5 DEF Rotated

\* The cookies after each action.
LEMMA JarMoves ==
    ASSUME DashboardTypeOK, GrantsAgree, [DashboardNext]_dashboardVars
    PROVE  /\ jar' \in Cookies
           /\ jar'.refresh = Nil => jar' = Empty
           /\ \/ jar'.refresh = jar.refresh
              \/ jar'.refresh = Nil
              \/ jar.refresh = Nil /\ SignIn
              \/ \E p \in Pages : Relay(p) /\ Rotated(p) /\ jar'.refresh = page[p].new
<1> DEFINE goal == /\ jar' \in Cookies
                   /\ jar'.refresh = Nil => jar' = Empty
                   /\ \/ jar'.refresh = jar.refresh
                      \/ jar'.refresh = Nil
                      \/ jar.refresh = Nil /\ SignIn
                      \/ \E p \in Pages : Relay(p) /\ Rotated(p) /\ jar'.refresh = page[p].new
<1>1. jar \in Cookies /\ (jar.refresh = Nil => jar = Empty)
  BY DEF DashboardTypeOK, GrantsAgree
<1>2. Empty \in Cookies /\ Empty.refresh = Nil
  BY DEF Empty, Cookies
<1>3. CASE UNCHANGED jar
  BY <1>1, <1>3
<1>4. CASE SignIn
  <2>1. PICK g \in Unused : jar' = [access |-> g, refresh |-> g]
    BY <1>4 DEF SignIn
  <2>2. g \in Grants /\ g # Nil /\ jar'.refresh = g
    BY <2>1, DashboardAssumption DEF Unused
  <2>3. jar' \in Cookies
    BY <2>1, <2>2 DEF Cookies
  <2> QED
    BY <1>4, <2>2, <2>3 DEF SignIn
<1>5. CASE LogoutClear \/ \E p \in Pages : Refuse(p)
  BY <1>2, <1>5 DEF LogoutClear, Refuse
<1>6. ASSUME NEW p \in Pages, Relay(p)
      PROVE  goal
  <2>1. CASE Rotated(p)
    <3>1. page[p].new \in Grants /\ page[p].new # Nil
      BY <2>1, PageShapes, DashboardAssumption
    <3>2. jar' = [access |-> page[p].new, refresh |-> page[p].new]
      BY <1>6, <2>1 DEF Relay
    <3>3. jar'.refresh = page[p].new
      BY <3>2
    <3>4. jar' \in Cookies
      BY <3>1, <3>2 DEF Cookies
    <3> QED
      BY <1>6, <2>1, <3>1, <3>3, <3>4
  <2>2. CASE ~Rotated(p)
    BY <1>3, <1>6, <2>2 DEF Relay
  <2> QED
    BY <2>1, <2>2
<1>7. ASSUME NEW g \in Grants, AccessRunsOut(g)
      PROVE  goal
  <2>1. jar' = [jar EXCEPT !.access = Nil] /\ jar.access # Nil
    BY <1>7, DashboardAssumption DEF AccessRunsOut
  <2>2. jar' \in Cookies /\ jar'.refresh = jar.refresh
    BY <1>1, <2>1 DEF Cookies
  <2>3. jar.refresh # Nil
    BY <1>1, <2>1 DEF Empty
  <2> QED
    BY <2>2, <2>3
<1>8. CASE LogoutRevoke \/ ExcludeAdmin \/ (\E g \in Grants : GrantAges(g)) \/ UNCHANGED dashboardVars
  BY <1>3, <1>8 DEF LogoutRevoke, ExcludeAdmin, GrantAges, dashboardVars
<1>9. ASSUME NEW p \in Pages,
             \/ Ask(p) \/ Forward(p) \/ ReadGrant(p) \/ RevokeKin(p) \/ UseGrant(p) \/ IssueGrant(p)
             \/ Replay(p) \/ LoseReply(p) \/ RotationFails(p)
      PROVE  goal
  <2>1. UNCHANGED jar
    BY <1>9 DEF Ask, Forward, ReadGrant, RevokeKin, UseGrant, IssueGrant, Replay, LoseReply,
       RotationFails
  <2> QED
    BY <1>3, <2>1
<1> HIDE DEF goal
<1>10. goal
  BY <1>4, <1>5, <1>6, <1>7, <1>8, <1>9, Zenon DEF DashboardNext, goal
<1> QED
  BY <1>10 DEF goal

\* What a request of the page becomes: nothing, or the same request further on; or it is new.
LEMMA PageSteps ==
    ASSUME DashboardTypeOK, GrantsAgree, [DashboardNext]_dashboardVars, NEW p \in Pages
    PROVE  /\ page'[p] \in PageState
           /\ \/ page'[p] = page[p] /\ Rotated(p)' = Rotated(p)
              \/ page'[p] = Still
              \/ /\ page[p] = Still /\ jar # Empty /\ ~Rotated(p)' /\ page'[p] # Still
                 /\ page'[p].had = jar /\ page'[p].barred = ~allowed
                 /\ page'[p].pc \in {"rotate", "forward"} /\ UNCHANGED <<grant, allowed>>
              \/ /\ page[p] # Still /\ page'[p] # Still
                 /\ page'[p].had.refresh = page[p].had.refresh
                 /\ page'[p].barred = page[p].barred
                 /\ page'[p].pc = "served" => allowed
                 /\ \/ ~Rotated(p)'
                    \/ Rotated(p) /\ Rotated(p)' /\ page'[p].new = page[p].new
                    \/ IssueGrant(p)
<1> DEFINE goal == /\ page'[p] \in PageState
           /\ \/ page'[p] = page[p] /\ Rotated(p)' = Rotated(p)
              \/ page'[p] = Still
              \/ /\ page[p] = Still /\ jar # Empty /\ ~Rotated(p)' /\ page'[p] # Still
                 /\ page'[p].had = jar /\ page'[p].barred = ~allowed
                 /\ page'[p].pc \in {"rotate", "forward"} /\ UNCHANGED <<grant, allowed>>
              \/ /\ page[p] # Still /\ page'[p] # Still
                 /\ page'[p].had.refresh = page[p].had.refresh
                 /\ page'[p].barred = page[p].barred
                 /\ page'[p].pc = "served" => allowed
                 /\ \/ ~Rotated(p)'
                    \/ Rotated(p) /\ Rotated(p)' /\ page'[p].new = page[p].new
                    \/ IssueGrant(p)
<1>1. page[p] \in PageState /\ Still \in PageState /\ Still.pc = "idle"
  BY DEF DashboardTypeOK, PageState, Still
<1>2. CASE page' = page
  BY <1>1, <1>2 DEF Rotated
<1>3. CASE Ask(p)
  BY <1>1, <1>3, DashboardTargets DEF Ask
<1>4. CASE Forward(p)
  BY <1>1, <1>4, DashboardTargets DEF Forward
<1>5. CASE ReadGrant(p)
  <2>1. page'[p].pc \in {"revoke", "refused", "use"}
    BY <1>5, DashboardTargets
  <2> QED
    BY <1>1, <1>5, <2>1, DashboardTargets DEF ReadGrant
<1>6. CASE RevokeKin(p) \/ UseGrant(p) \/ RotationFails(p)
  BY <1>1, <1>6, DashboardTargets DEF RevokeKin, UseGrant, RotationFails
<1>7. CASE IssueGrant(p)
  BY <1>1, <1>7, IssueTargets DEF IssueGrant
<1>8. CASE Replay(p)
  BY <1>1, <1>8, DashboardTargets, PageShapes DEF Replay
<1>9. CASE Relay(p) \/ Refuse(p) \/ LoseReply(p)
  BY <1>1, <1>9, DashboardTargets
<1>10. ASSUME NEW q \in Pages, q # p,
              \/ Ask(q) \/ Forward(q) \/ ReadGrant(q) \/ RevokeKin(q) \/ UseGrant(q)
              \/ IssueGrant(q) \/ Replay(q) \/ Relay(q) \/ Refuse(q) \/ LoseReply(q)
              \/ RotationFails(q)
       PROVE  goal
  BY <1>1, <1>10, PageMoves
<1>11. CASE \/ SignIn \/ LogoutRevoke \/ LogoutClear \/ ExcludeAdmin
            \/ \E g \in Grants : AccessRunsOut(g) \/ GrantAges(g)
            \/ UNCHANGED dashboardVars
  <2>1. page' = page
    BY <1>11 DEF SignIn, LogoutRevoke, LogoutClear, ExcludeAdmin, AccessRunsOut, GrantAges,
       dashboardVars
  <2> QED
    BY <1>2, <2>1
<1> HIDE DEF goal
<1>12. goal
  BY <1>3, <1>4, <1>5, <1>6, <1>7, <1>8, <1>9, <1>10, <1>11, Zenon DEF DashboardNext, goal
<1> QED
  BY <1>12 DEF goal

LEMMA DashboardTypeStep ==
    ASSUME DashboardTypeOK, GrantsAgree, [DashboardNext]_dashboardVars
    PROVE  DashboardTypeOK'
<1>1. page' \in [Pages -> PageState]
  <2>1. \A p \in Pages : page'[p] \in PageState
    BY PageSteps
  <2>2. CASE page' = page
    BY <2>2 DEF DashboardTypeOK
  <2>3. ASSUME NEW p \in Pages,
               \/ Ask(p) \/ Forward(p) \/ ReadGrant(p) \/ RevokeKin(p) \/ UseGrant(p)
               \/ IssueGrant(p) \/ Replay(p) \/ Relay(p) \/ Refuse(p) \/ LoseReply(p)
               \/ RotationFails(p)
        PROVE  page' \in [Pages -> PageState]
    BY <2>1, <2>3, PageMoves
  <2>4. CASE \/ SignIn \/ LogoutRevoke \/ LogoutClear \/ ExcludeAdmin
             \/ \E g \in Grants : AccessRunsOut(g) \/ GrantAges(g)
             \/ UNCHANGED dashboardVars
    <3>1. page' = page
      BY <2>4 DEF SignIn, LogoutRevoke, LogoutClear, ExcludeAdmin, AccessRunsOut, GrantAges,
         dashboardVars
    <3> QED
      BY <2>2, <3>1
  <2> QED
    BY <2>3, <2>4 DEF DashboardNext
<1>2. grant' \in [Grants -> {NoGrant} \cup GrantRow] /\ jar' \in Cookies
  BY GrantsGrow, JarMoves
<1>3. /\ allowed' \in BOOLEAN /\ spent' \subseteq Grants
      /\ exit' \in {"no", "revoked", "done"}
      /\ left' \subseteq {"new", "logout", "excluded", "aged", "overlap", "lost", "error"}
  <2>1. /\ allowed \in BOOLEAN /\ spent \subseteq Grants
        /\ exit \in {"no", "revoked", "done"}
        /\ left \subseteq {"new", "logout", "excluded", "aged", "overlap", "lost", "error"}
    BY DEF DashboardTypeOK
  <2>2. allowed' \in BOOLEAN
    BY <2>1 DEF DashboardNext, SignIn, LogoutRevoke, LogoutClear, ExcludeAdmin, Ask, Forward, ReadGrant,
       RevokeKin, UseGrant, IssueGrant, Replay, Relay, Refuse, LoseReply, RotationFails,
       AccessRunsOut, GrantAges, dashboardVars
  <2>3. spent' \subseteq Grants
    BY <2>1 DEF DashboardNext, SignIn, LogoutRevoke, LogoutClear, ExcludeAdmin, Ask, Forward, ReadGrant,
       RevokeKin, UseGrant, IssueGrant, Replay, Relay, Refuse, LoseReply, RotationFails,
       AccessRunsOut, GrantAges, dashboardVars
  <2>4. exit' \in {"no", "revoked", "done"}
    BY <2>1 DEF DashboardNext, SignIn, LogoutRevoke, LogoutClear, ExcludeAdmin, Ask, Forward, ReadGrant,
       RevokeKin, UseGrant, IssueGrant, Replay, Relay, Refuse, LoseReply, RotationFails,
       AccessRunsOut, GrantAges, dashboardVars
  <2>5. left' \subseteq {"new", "logout", "excluded", "aged", "overlap", "lost", "error"}
    BY <2>1 DEF DashboardNext, SignIn, LogoutRevoke, LogoutClear, ExcludeAdmin, Ask, Forward, ReadGrant,
       RevokeKin, UseGrant, IssueGrant, Replay, Relay, Refuse, LoseReply, RotationFails,
       AccessRunsOut, GrantAges, dashboardVars
  <2> QED
    BY <2>2, <2>3, <2>4, <2>5
<1> QED
  BY <1>1, <1>2, <1>3 DEF DashboardTypeOK, GrantRow

LEMMA GrantsStep ==
    ASSUME DashboardTypeOK, GrantsAgree, [DashboardNext]_dashboardVars
    PROVE  GrantsAgree'
<1> DEFINE carried(p) == page[p] # Still => /\ page[p].had.refresh \in Grants
                                            /\ grant[page[p].had.refresh] # NoGrant
           rotated(p) == Rotated(p) =>
               /\ grant[page[p].new] # NoGrant
               /\ grant[page[p].new].family = grant[page[p].had.refresh].family
<1>1. \A p \in Pages : carried(p) /\ rotated(p)
  BY CarriedRows DEF GrantsAgree
<1>2. jar.refresh # Nil => jar.refresh \in Grants /\ grant[jar.refresh] # NoGrant
  BY CarriedRows
<1>3. \A g \in Grants : grant[g] # NoGrant =>
          grant'[g] # NoGrant /\ grant'[g].family = grant[g].family
  BY GrantsGrow
<1>4. DashboardTypeOK'
  BY DashboardTypeStep
<1>5. ASSUME NEW p \in Pages
      PROVE  carried(p)'
  <2>1. CASE page'[p] = page[p] \/ page'[p] = Still
    BY <1>1, <1>3, <2>1
  <2>2. CASE page[p] = Still /\ jar # Empty /\ page'[p].had = jar
    BY <1>2, <1>3, <2>2 DEF GrantsAgree
  <2>3. CASE page[p] # Still /\ page'[p].had.refresh = page[p].had.refresh
    BY <1>1, <1>3, <2>3
  <2> QED
    BY <2>1, <2>2, <2>3, PageSteps
<1>6. ASSUME NEW p \in Pages
      PROVE  rotated(p)'
  <2>1. CASE page'[p] = page[p] /\ Rotated(p)' = Rotated(p)
    <3>1. SUFFICES ASSUME Rotated(p)
                   PROVE  /\ grant'[page[p].new] # NoGrant
                          /\ grant'[page[p].new].family = grant'[page[p].had.refresh].family
      BY <2>1
    <3>2. page[p].new \in Grants /\ page[p] # Still
      BY <3>1, PageShapes DEF Still
    <3> QED
      BY <1>1, <1>3, <3>1, <3>2
  <2>2. CASE page'[p] = Still
    BY <2>2 DEF Rotated, Still
  <2>3. CASE ~Rotated(p)'
    BY <2>3
  <2>4. CASE /\ page[p] # Still /\ page'[p].had.refresh = page[p].had.refresh
             /\ Rotated(p) /\ Rotated(p)' /\ page'[p].new = page[p].new
    <3>1. page[p].new \in Grants
      BY <2>4, PageShapes
    <3> QED
      BY <1>1, <1>3, <2>4, <3>1
  <2>5. CASE IssueGrant(p)
    <3>1. page[p] # Still
      BY <2>5, PageShapes DEF IssueGrant
    <3>2. page[p].had.refresh \in Grants /\ grant[page[p].had.refresh] # NoGrant
      BY <1>1, <3>1
    <3>3. /\ page'[p].new \in Grants /\ grant[page'[p].new] = NoGrant
          /\ grant' = [grant EXCEPT ![page'[p].new] =
                           NewGrant(grant[page[p].had.refresh].family)]
          /\ page'[p].had = page[p].had
      BY <2>5, IssueTargets
    <3>4. grant[page[p].had.refresh].family \in Grants
      BY <3>2, GrantShapes
    <3>5. /\ grant'[page'[p].new] # NoGrant
          /\ grant'[page'[p].new].family = grant[page[p].had.refresh].family
      BY <3>3, <3>4, NewRow
    <3> QED
      BY <1>3, <3>2, <3>3, <3>5
  <2> QED
    BY <2>1, <2>2, <2>3, <2>4, <2>5, PageSteps
<1>7. jar'.refresh # Nil => grant'[jar'.refresh] # NoGrant
  <2>1. CASE jar'.refresh = jar.refresh
    BY <1>2, <1>3, <2>1
  <2>2. CASE SignIn
    <3>1. PICK g \in Unused : /\ grant' = [grant EXCEPT ![g] = NewGrant(g)]
                              /\ jar' = [access |-> g, refresh |-> g]
      BY <2>2 DEF SignIn
    <3>2. g \in Grants /\ grant[g] = NoGrant
      BY DEF Unused
    <3>3. grant'[g] # NoGrant
      BY <3>1, <3>2, NewRow
    <3> QED
      BY <3>1, <3>3
  <2>3. ASSUME NEW p \in Pages, Relay(p), Rotated(p), jar'.refresh = page[p].new
        PROVE  grant'[jar'.refresh] # NoGrant
    <3>1. page[p].new \in Grants
      BY <2>3, PageShapes
    <3> QED
      BY <1>1, <1>3, <2>3, <3>1
  <2> QED
    BY <2>1, <2>2, <2>3, JarMoves
<1>8. \A g \in Grants : grant'[g] # NoGrant => grant'[grant'[g].family] # NoGrant
  <2>1. ASSUME NEW g \in Grants, grant[g] # NoGrant
        PROVE  grant'[grant'[g].family] # NoGrant
    <3>1. grant[g].family \in Grants /\ grant[grant[g].family] # NoGrant
      BY <2>1, GrantShapes DEF GrantsAgree
    <3> QED
      BY <1>3, <2>1, <3>1
  <2>2. CASE UNCHANGED grant
    BY <2>1, <2>2
  <2>3. CASE \A g \in Grants : grant'[g] = NoGrant <=> grant[g] = NoGrant
    BY <2>1, <2>3
  <2>4. CASE SignIn
    <3>1. PICK g \in Unused : grant' = [grant EXCEPT ![g] = NewGrant(g)]
      BY <2>4 DEF SignIn
    <3>2. g \in Grants /\ grant[g] = NoGrant
      BY DEF Unused
    <3>3. /\ grant'[g] # NoGrant /\ grant'[g].family = g
          /\ \A h \in Grants : h # g => grant'[h] = grant[h]
      BY <3>1, <3>2, NewRow
    <3> QED
      BY <2>1, <3>3
  <2>5. ASSUME NEW p \in Pages, IssueGrant(p)
        PROVE  \A g \in Grants : grant'[g] # NoGrant => grant'[grant'[g].family] # NoGrant
    <3>1. page[p] # Still
      BY <2>5, PageShapes DEF IssueGrant
    <3>2. page[p].had.refresh \in Grants /\ grant[page[p].had.refresh] # NoGrant
      BY <1>1, <3>1
    <3>3. /\ page'[p].new \in Grants /\ grant[page'[p].new] = NoGrant
          /\ grant' = [grant EXCEPT ![page'[p].new] =
                           NewGrant(grant[page[p].had.refresh].family)]
      BY <2>5, IssueTargets
    <3>4. grant[page[p].had.refresh].family \in Grants
      BY <3>2, GrantShapes
    <3>5. /\ grant'[page'[p].new].family = grant[page[p].had.refresh].family
          /\ \A h \in Grants : h # page'[p].new => grant'[h] = grant[h]
      BY <3>3, <3>4, NewRow
    <3>6. grant'[grant[page[p].had.refresh].family] # NoGrant
      BY <1>3, <3>2, <3>4 DEF GrantsAgree
    <3> QED
      BY <2>1, <3>5, <3>6
  <2>6. CASE LogoutRevoke
    BY <2>2, <2>3, <2>6, <1>2, RevokedRows DEF LogoutRevoke
  <2>7. ASSUME NEW p \in Pages, RevokeKin(p) \/ UseGrant(p)
        PROVE  \A g \in Grants : grant'[g] = NoGrant <=> grant[g] = NoGrant
    <3>1. page[p].had.refresh \in Grants /\ grant[page[p].had.refresh] # NoGrant
      BY <1>1, <2>7, PageShapes DEF RevokeKin, UseGrant
    <3> QED
      BY <2>7, <3>1, RevokedRows, UsedRow DEF RevokeKin, UseGrant
  <2>8. ASSUME NEW g \in Grants, GrantAges(g)
        PROVE  \A h \in Grants : grant'[h] = NoGrant <=> grant[h] = NoGrant
    BY <1>2, <2>8, DashboardAssumption, AgedRow DEF GrantAges
  <2>9. CASE LogoutClear \/ ExcludeAdmin \/ (\E g \in Grants : AccessRunsOut(g))
             \/ UNCHANGED dashboardVars
    BY <2>2, <2>9 DEF LogoutClear, ExcludeAdmin, AccessRunsOut, dashboardVars
  <2>10. ASSUME NEW p \in Pages,
             \/ Ask(p) \/ Forward(p) \/ ReadGrant(p) \/ Replay(p) \/ Relay(p) \/ Refuse(p)
             \/ LoseReply(p) \/ RotationFails(p)
        PROVE  UNCHANGED grant
    BY <2>10 DEF Ask, Forward, ReadGrant, Replay, Relay, Refuse, LoseReply, RotationFails
  <2> QED
    BY <2>2, <2>3, <2>4, <2>5, <2>6, <2>7, <2>8, <2>9, <2>10 DEF DashboardNext
<1>9. exit' = "revoked" => "logout" \in left'
  BY DEF GrantsAgree, DashboardNext, SignIn, LogoutRevoke, LogoutClear, ExcludeAdmin, Ask, Forward,
     ReadGrant, RevokeKin, UseGrant, IssueGrant, Replay, Relay, Refuse, LoseReply, RotationFails,
     AccessRunsOut, GrantAges, dashboardVars
<1>10. jar'.refresh = Nil => jar' = Empty
  BY JarMoves
<1>11. \A p \in Busy' : page'[p].had.refresh # Nil
  BY <1>5, DashboardAssumption DEF Busy
<1>12. \A g \in Current' : grant'[g] # NoGrant
  BY <1>5, <1>7 DEF Current, Busy
<1> QED
  BY <1>6, <1>8, <1>9, <1>10, <1>11, <1>12 DEF GrantsAgree

\* An administrator who was excluded is not let in again.
LEMMA BarredStep ==
    ASSUME DashboardTypeOK, GrantsAgree, BarredStays, ExcludedNotServed,
           [DashboardNext]_dashboardVars
    PROVE  BarredStays' /\ ExcludedNotServed'
<1>1. ~allowed => ~allowed'
  BY DEF DashboardNext, SignIn, LogoutRevoke, LogoutClear, ExcludeAdmin, Ask, Forward, ReadGrant,
     RevokeKin, UseGrant, IssueGrant, Replay, Relay, Refuse, LoseReply, RotationFails,
     AccessRunsOut, GrantAges, dashboardVars
<1>2. ASSUME NEW p \in Pages
      PROVE  /\ page'[p] # Still /\ page'[p].barred => ~allowed'
             /\ page'[p].pc = "served" => ~page'[p].barred
  <2>1. page[p] # Still /\ page[p].barred => ~allowed
    BY DEF BarredStays, Busy
  <2>2. page[p].pc = "served" => ~page[p].barred
    BY DEF ExcludedNotServed
  <2>3. CASE page'[p] = page[p]
    BY <1>1, <2>1, <2>2, <2>3
  <2>4. CASE page'[p] = Still
    BY <2>4 DEF Still
  <2>5. CASE page'[p].barred = ~allowed /\ UNCHANGED allowed
             /\ page'[p].pc \in {"rotate", "forward"}
    BY <2>5
  <2>6. CASE /\ page[p] # Still /\ page'[p].barred = page[p].barred
             /\ page'[p].pc = "served" => allowed
    BY <1>1, <2>1, <2>6
  <2> QED
    BY <2>3, <2>4, <2>5, <2>6, PageSteps
<1> QED
  BY <1>2 DEF BarredStays, ExcludedNotServed, Busy

\* What the requests that rotate become.
LEMMA TurningSteps ==
    ASSUME DashboardTypeOK, GrantsAgree, [DashboardNext]_dashboardVars, NEW q \in Pages
    PROVE  /\ page'[q].pc = "use" => page'[q] = page[q] \/ ReadGrant(q)
           /\ page'[q].pc = "issue" => page'[q] = page[q] \/ UseGrant(q)
           /\ page'[q].pc \in {"revoke", "refused"} =>
                 page'[q] = page[q] \/ ReadGrant(q) \/ RevokeKin(q) \/ RotationFails(q)
           /\ Rotated(q)' => \/ /\ Rotated(q) /\ page'[q].new = page[q].new
                                /\ page'[q].had.refresh = page[q].had.refresh
                             \/ IssueGrant(q)
<1> DEFINE goal == /\ page'[q].pc = "use" => page'[q] = page[q] \/ ReadGrant(q)
                   /\ page'[q].pc = "issue" => page'[q] = page[q] \/ UseGrant(q)
                   /\ page'[q].pc \in {"revoke", "refused"} =>
                         page'[q] = page[q] \/ ReadGrant(q) \/ RevokeKin(q) \/ RotationFails(q)
                   /\ Rotated(q)' => \/ /\ Rotated(q) /\ page'[q].new = page[q].new
                                        /\ page'[q].had.refresh = page[q].had.refresh
                                     \/ IssueGrant(q)
<1>1. Still.pc = "idle" /\ "new" \notin DOMAIN Still
  BY DEF Still
<1>2. ASSUME page'[q] = page[q], Rotated(q)' = Rotated(q)
      PROVE  goal
  BY <1>2
<1>3. CASE Ask(q) \/ Forward(q) \/ Relay(q) \/ Refuse(q) \/ LoseReply(q)
  <2>1. page'[q].pc \in {"rotate", "forward", "served", "idle"} /\ ~Rotated(q)'
    BY <1>1, <1>3, DashboardTargets DEF Rotated
  <2> QED
    BY <2>1
<1>4. CASE ReadGrant(q)
  <2>1. page'[q].pc \in {"revoke", "refused", "use"} /\ ~Rotated(q)'
    BY <1>4, DashboardTargets
  <2> QED
    BY <1>4, <2>1
<1>5. CASE RevokeKin(q) \/ UseGrant(q) \/ RotationFails(q)
  BY <1>5, DashboardTargets
<1>6. CASE IssueGrant(q)
  BY <1>6, IssueTargets
<1>7. CASE Replay(q)
  BY <1>7, DashboardTargets, PageShapes DEF Replay
<1>8. ASSUME NEW p \in Pages, q # p,
             \/ Ask(p) \/ Forward(p) \/ ReadGrant(p) \/ RevokeKin(p) \/ UseGrant(p)
             \/ IssueGrant(p) \/ Replay(p) \/ Relay(p) \/ Refuse(p) \/ LoseReply(p)
             \/ RotationFails(p)
      PROVE  goal
  BY <1>2, <1>8, PageMoves
<1>9. CASE \/ SignIn \/ LogoutRevoke \/ LogoutClear \/ ExcludeAdmin
           \/ \E g \in Grants : AccessRunsOut(g) \/ GrantAges(g)
           \/ UNCHANGED dashboardVars
  <2>1. page' = page
    BY <1>9 DEF SignIn, LogoutRevoke, LogoutClear, ExcludeAdmin, AccessRunsOut, GrantAges,
       dashboardVars
  <2> QED
    BY <1>2, <2>1 DEF Rotated
<1> HIDE DEF goal
<1>10. goal
  BY <1>3, <1>4, <1>5, <1>6, <1>7, <1>8, <1>9, Zenon DEF DashboardNext, goal
<1> QED
  BY <1>10 DEF goal

\* The tokens in use: no other than before, but for a login and the end of a rotation.
LEMMA CurrentSteps ==
    ASSUME DashboardTypeOK, GrantsAgree, [DashboardNext]_dashboardVars, ~SignIn,
           NEW c \in Current'
    PROVE  \/ c \in Current
           \/ \E p \in Pages : Relay(p) /\ Rotated(p) /\ c = page[p].new /\ jar'.refresh = c
<1>1. c # Nil /\ (c = jar'.refresh \/ \E p \in Pages : page'[p] # Still /\ c = page'[p].had.refresh)
  BY DEF Current, Busy
<1>2. CASE c = jar'.refresh
  BY <1>1, <1>2, JarMoves DEF Current
<1>3. ASSUME NEW p \in Pages, page'[p] # Still, c = page'[p].had.refresh
      PROVE  c \in Current
  <2>1. CASE page[p] # Still /\ page'[p].had.refresh = page[p].had.refresh
    BY <1>1, <1>3, <2>1 DEF Current, Busy
  <2>2. CASE page'[p].had = jar
    BY <1>1, <1>3, <2>2 DEF Current
  <2> QED
    BY <1>3, <2>1, <2>2, PageSteps
<1> QED
  BY <1>1, <1>2, <1>3

\* What may have ended the session is remembered until the next login.
LEMMA LeftSteps ==
    ASSUME [DashboardNext]_dashboardVars, ~SignIn
    PROVE  /\ left \subseteq left'
           /\ \A p \in Pages : ReadGrant(p) /\ "overlap" \notin left' => ~Overlaps(p)
<1>1. left \subseteq left'
  BY DEF DashboardNext, LogoutRevoke, LogoutClear, ExcludeAdmin, Ask, Forward,
     ReadGrant, RevokeKin, UseGrant, IssueGrant, Replay, Relay, Refuse, LoseReply, RotationFails,
     AccessRunsOut, GrantAges, dashboardVars
<1>2. ASSUME NEW p \in Pages, ReadGrant(p), "overlap" \notin left'
      PROVE  ~Overlaps(p)
  BY <1>2 DEF ReadGrant
<1> QED
  BY <1>1, <1>2

\* A row comes into force only when it is drawn.
LEMMA ForceSteps ==
    ASSUME DashboardTypeOK, GrantsAgree, [DashboardNext]_dashboardVars, ~SignIn,
           \A p \in Pages : ~IssueGrant(p)
    PROVE  \A g \in Grants : /\ grant'[g].family = grant[g].family
                             /\ grant'[g] = NoGrant <=> grant[g] = NoGrant
                             /\ grant[g] # NoGrant /\ InForce(g)' => InForce(g)
<1> DEFINE goal == \A g \in Grants : /\ grant'[g].family = grant[g].family
                                     /\ grant'[g] = NoGrant <=> grant[g] = NoGrant
                                     /\ grant[g] # NoGrant /\ InForce(g)' => InForce(g)
<1>1. CASE UNCHANGED grant
  BY <1>1 DEF InForce
<1>2. ASSUME NEW c \in Grants, grant[c] # NoGrant, grant' = Revoked(Kin(c))
      PROVE  goal
  BY <1>2, RevokedRows DEF InForce
<1>3. CASE LogoutRevoke
  BY <1>1, <1>2, <1>3, CarriedRows DEF LogoutRevoke
<1>4. ASSUME NEW p \in Pages, RevokeKin(p)
      PROVE  goal
  BY <1>2, <1>4, CarriedRows, PageShapes DEF RevokeKin
<1>5. ASSUME NEW p \in Pages, UseGrant(p)
      PROVE  goal
  <2>1. page[p].had.refresh \in Grants /\ grant[page[p].had.refresh] # NoGrant
    BY <1>5, CarriedRows, PageShapes DEF UseGrant
  <2>2. grant' = [grant EXCEPT ![page[p].had.refresh].used = TRUE]
    BY <1>5 DEF UseGrant
  <2> QED
    BY <2>1, <2>2, UsedRow DEF InForce
<1>6. ASSUME NEW g \in Grants, GrantAges(g)
      PROVE  goal
  <2>1. grant[g] # NoGrant
    BY <1>6, CarriedRows, DashboardAssumption DEF GrantAges
  <2>2. grant' = [grant EXCEPT ![g].aged = TRUE]
    BY <1>6 DEF GrantAges
  <2> QED
    BY <2>1, <2>2, AgedRow DEF InForce
<1>7. CASE LogoutClear \/ ExcludeAdmin \/ (\E g \in Grants : AccessRunsOut(g))
           \/ UNCHANGED dashboardVars
  BY <1>1, <1>7 DEF LogoutClear, ExcludeAdmin, AccessRunsOut, dashboardVars
<1>8. ASSUME NEW p \in Pages,
             \/ Ask(p) \/ Forward(p) \/ ReadGrant(p) \/ Replay(p) \/ Relay(p) \/ Refuse(p)
             \/ LoseReply(p) \/ RotationFails(p)
      PROVE  goal
  <2>1. UNCHANGED grant
    BY <1>8 DEF Ask, Forward, ReadGrant, Replay, Relay, Refuse, LoseReply, RotationFails
  <2> QED
    BY <1>1, <2>1
<1> HIDE DEF goal
<1>9. goal
  BY <1>3, <1>4, <1>5, <1>6, <1>7, <1>8, Zenon DEF DashboardNext, goal
<1> QED
  BY <1>9 DEF goal

\* The parts of RotationsAgree, with the families in full.
OneTurns == \A p, q \in Pages : Turning(p) /\ Turning(q) => p = q
TurnsJar == \A p \in Pages : Turning(p) => page[p].had.refresh = jar.refresh \/ jar.refresh = Nil
OneFamily == \A c, d \in Current : grant[c].family = grant[d].family
OneInForce == \A c \in Current : \A g, h \in Grants :
                  /\ grant[g].family = grant[c].family /\ grant[h].family = grant[c].family
                  /\ InForce(g) /\ InForce(h)
                  => g = h
BeforeMark == \A p \in Pages : page[p].pc = "use" =>
                  \A g \in Grants : /\ grant[g].family = grant[page[p].had.refresh].family
                                    /\ InForce(g)
                                    => g = page[p].had.refresh
AfterMark == \A p \in Pages : page[p].pc = "issue" =>
                 \A g \in Grants : grant[g].family = grant[page[p].had.refresh].family => ~InForce(g)
Rotations == OneTurns /\ TurnsJar /\ OneFamily /\ OneInForce /\ BeforeMark /\ AfterMark

LEMMA RotationsParts ==
    /\ RotationsAgree <=> ("overlap" \notin left => Rotations)
    /\ RotationsAgree' <=> ("overlap" \notin left' => Rotations')
BY Zenon DEF RotationsAgree, Rotations, OneTurns, TurnsJar, OneFamily, OneInForce, BeforeMark, AfterMark, Kin

LEMMA SignInRotations ==
    ASSUME DashboardTypeOK, GrantsAgree, SignIn, "overlap" \notin left'
    PROVE  Rotations'
<1>1. PICK g \in Unused : /\ grant' = [grant EXCEPT ![g] = NewGrant(g)]
                          /\ jar' = [access |-> g, refresh |-> g]
  BY DEF SignIn
<1>2. g \in Grants /\ grant[g] = NoGrant
  BY DEF Unused
<1>3. /\ grant'[g].family = g
      /\ \A h \in Grants : h # g => grant'[h] = grant[h]
  BY <1>1, <1>2, NewRow
<1>4. page' = page /\ \A p \in Pages : page[p] = Still
  BY DEF SignIn
<1>5. \A p \in Pages : ~Turning(p)' /\ page'[p].pc = "idle"
  BY <1>4 DEF Turning, Rotated, Still
<1>6. Current' \subseteq {g}
  BY <1>1, <1>4 DEF Current, Busy
<1>7. \A h \in Grants : h # g => grant'[h].family # g
  BY <1>2, <1>3, GrantShapes DEF GrantsAgree
<1> QED
  BY <1>2, <1>3, <1>5, <1>6, <1>7
  DEF Rotations, OneTurns, TurnsJar, OneFamily, OneInForce, BeforeMark, AfterMark

\* The families of the tokens in use, when no row is drawn.
LEMMA FamiliesStay ==
    ASSUME DashboardTypeOK, GrantsAgree, OneFamily, OneInForce, [DashboardNext]_dashboardVars,
           ~SignIn, \A p \in Pages : ~IssueGrant(p)
    PROVE  OneFamily' /\ OneInForce'
<1>1. ASSUME NEW c \in Current'
      PROVE  \E d \in Current : grant'[c].family = grant[d].family /\ grant[d].family \in Grants
  <2>1. \A d \in Current : d \in Grants /\ grant[d].family \in Grants
    BY CarriedRows, GrantShapes DEF Current, Busy
  <2>2. CASE c \in Current
    BY <2>1, <2>2, ForceSteps
  <2>3. ASSUME NEW p \in Pages, Relay(p), Rotated(p), c = page[p].new
        PROVE  \E d \in Current : grant'[c].family = grant[d].family /\ grant[d].family \in Grants
    <3>1. page[p] # Still /\ page[p].new \in Grants
      BY <2>3, PageShapes DEF Still
    <3>2. page[p].had.refresh \in Current
      BY <3>1, CarriedRows
    <3>3. grant[c].family = grant[page[p].had.refresh].family
      BY <2>3 DEF GrantsAgree
    <3>4. grant'[c].family = grant[c].family
      BY <2>3, <3>1, ForceSteps
    <3> QED
      BY <2>1, <3>2, <3>3, <3>4
  <2> QED
    BY <2>2, <2>3, CurrentSteps
<1>2. OneFamily'
  BY <1>1 DEF OneFamily
<1>3. OneInForce'
  <2>1. SUFFICES ASSUME NEW c \in Current', NEW g \in Grants, NEW h \in Grants,
                        grant'[g].family = grant'[c].family, grant'[h].family = grant'[c].family,
                        InForce(g)', InForce(h)'
                 PROVE  g = h
    BY DEF OneInForce
  <2>2. PICK d \in Current : grant'[c].family = grant[d].family /\ grant[d].family \in Grants
    BY <1>1
  <2>3. /\ grant[g].family = grant[d].family /\ grant[h].family = grant[d].family
        /\ grant[g] # NoGrant /\ grant[h] # NoGrant
    BY <2>1, <2>2, ForceSteps, GrantShapes
  <2>4. InForce(g) /\ InForce(h)
    BY <2>1, <2>3, ForceSteps
  <2> QED
    BY <2>2, <2>3, <2>4 DEF OneInForce
<1> QED
  BY <1>2, <1>3

\* No request begins to rotate: those that do are as they were.
LEMMA TurningStays ==
    ASSUME DashboardTypeOK, GrantsAgree, Rotations, [DashboardNext]_dashboardVars,
           ~SignIn, \A p \in Pages : ~IssueGrant(p) /\ ~ReadGrant(p)
    PROVE  Rotations'
<1>1. ASSUME NEW q \in Pages, Turning(q)'
      PROVE  Turning(q) /\ page'[q].had.refresh = page[q].had.refresh
  <2>1. CASE UseGrant(q)
    BY <2>1, DashboardTargets DEF UseGrant, Turning
  <2>2. CASE Rotated(q)'
    BY <2>2, TurningSteps DEF Turning
  <2>3. CASE page'[q] = page[q]
    BY <1>1, <2>3 DEF Turning, Rotated
  <2> QED
    BY <1>1, <2>1, <2>2, <2>3, TurningSteps DEF Turning
<1>2. OneTurns'
  BY <1>1 DEF OneTurns, Rotations
<1>3. TurnsJar'
  <2>1. SUFFICES ASSUME NEW q \in Pages, Turning(q)'
                 PROVE  page'[q].had.refresh = jar'.refresh \/ jar'.refresh = Nil
    BY DEF TurnsJar
  <2>2. Turning(q) /\ (page'[q].had.refresh = jar.refresh \/ jar.refresh = Nil)
    BY <1>1, <2>1 DEF Rotations, TurnsJar
  <2>3. ASSUME NEW p \in Pages, Relay(p), Rotated(p)
        PROVE  FALSE
    <3>1. page'[q] = Still
      BY <2>2, <2>3, DashboardTargets DEF Turning, Rotations, OneTurns
    <3> QED
      BY <2>1, <3>1 DEF Turning, Rotated, Still
  <2>4. jar.refresh = Nil => jar'.refresh = Nil
    BY <2>3, JarMoves
  <2> QED
    BY <2>2, <2>3, <2>4, JarMoves
<1>4. OneFamily' /\ OneInForce'
  BY FamiliesStay DEF Rotations
<1>5. ASSUME NEW p \in Pages, page'[p] = page[p], page[p].pc \in {"use", "issue"}
      PROVE  /\ page[p].had.refresh \in Grants
             /\ \A g \in Grants : grant'[g].family = grant'[page'[p].had.refresh].family =>
                    /\ grant[g].family = grant[page[p].had.refresh].family
                    /\ InForce(g)' => InForce(g)
  <2>1. /\ page[p].had.refresh \in Grants
        /\ grant[page[p].had.refresh].family \in Grants
    BY <1>5, CarriedRows, PageShapes
  <2>2. \A g \in Grants : grant[g].family \in Grants => grant[g] # NoGrant
    BY GrantShapes
  <2> QED
    BY <1>5, <2>1, <2>2, ForceSteps
<1>6. BeforeMark'
  BY <1>5, TurningSteps DEF BeforeMark, Rotations
<1>7. AfterMark'
  <2>1. SUFFICES ASSUME NEW p \in Pages, page'[p].pc = "issue", NEW g \in Grants,
                        grant'[g].family = grant'[page'[p].had.refresh].family
                 PROVE  ~InForce(g)'
    BY DEF AfterMark
  <2>2. CASE page'[p] = page[p]
    BY <1>5, <2>1, <2>2 DEF AfterMark, Rotations
  <2>3. CASE UseGrant(p)
    <3>1. page[p].pc = "use" /\ page'[p].had.refresh = page[p].had.refresh
      BY <2>3, DashboardTargets DEF UseGrant
    <3>2. /\ page[p].had.refresh \in Grants /\ grant[page[p].had.refresh] # NoGrant
          /\ grant[page[p].had.refresh].family \in Grants
      BY <3>1, CarriedRows, PageShapes
    <3>3. grant' = [grant EXCEPT ![page[p].had.refresh].used = TRUE]
      BY <2>3 DEF UseGrant
    <3>4. g = page[p].had.refresh => ~InForce(g)'
      BY <3>2, <3>3, UsedRow DEF InForce
    <3>5. grant[g].family = grant[page[p].had.refresh].family /\ grant[g] # NoGrant
      BY <2>1, <3>1, <3>2, ForceSteps, GrantShapes
    <3>6. InForce(g)' => g = page[p].had.refresh
      BY <3>1, <3>5, ForceSteps DEF BeforeMark, Rotations
    <3> QED
      BY <3>4, <3>6
  <2> QED
    BY <2>1, <2>2, <2>3, TurningSteps
<1> QED
  BY <1>2, <1>3, <1>4, <1>6, <1>7 DEF Rotations

\* A rotation begins: no other is under way.
LEMMA ReadRotations ==
    ASSUME DashboardTypeOK, GrantsAgree, Rotations, NEW p \in Pages, ReadGrant(p), ~Overlaps(p)
    PROVE  /\ jar.refresh # Nil /\ page[p].had.refresh = jar.refresh
           /\ \A q \in Pages : ~Turning(q)
           /\ Rotations'
<1>1. page[p].pc = "rotate" /\ UNCHANGED <<grant, jar>>
  BY DEF ReadGrant
<1>2. /\ page[p] # Still /\ ~Rotated(p)
      /\ page[p].had.refresh \in Grants /\ page[p].had.refresh \in Current
  BY <1>1, PageShapes, CarriedRows
<1>3. page[p].had.refresh = jar.refresh /\ jar.refresh # Nil
  BY <1>2, DashboardAssumption DEF Overlaps
<1>4. ASSUME NEW q \in Pages, Turning(q)
      PROVE  FALSE
  <2>1. page[q].had.refresh = page[p].had.refresh /\ q # p
    BY <1>1, <1>2, <1>3, <1>4 DEF Rotations, TurnsJar, Turning
  <2> QED
    BY <1>4, <2>1 DEF Overlaps, Turning, Rotation
<1>5. \A q \in Pages : q # p => page'[q] = page[q] /\ ~Turning(q)'
  BY <1>4, PageMoves DEF Turning
<1>6. page'[p].had.refresh = page[p].had.refresh /\ ~Rotated(p)' /\ page'[p].pc # "issue"
  BY DashboardTargets
<1>7. OneTurns' /\ TurnsJar'
  BY <1>1, <1>3, <1>5, <1>6 DEF OneTurns, TurnsJar
<1>8. Current' \subseteq Current
  BY <1>1, <1>2, <1>5, <1>6 DEF Current, Busy
<1>9. OneFamily' /\ OneInForce'
  BY <1>1, <1>8 DEF Rotations, OneFamily, OneInForce, InForce
<1>10. BeforeMark'
  <2>1. SUFFICES ASSUME page'[p].pc = "use", NEW g \in Grants,
                        grant[g].family = grant[page[p].had.refresh].family, InForce(g)
                 PROVE  g = page[p].had.refresh
    BY <1>1, <1>5, <1>6 DEF BeforeMark, Turning, InForce
  <2>2. InForce(page[p].had.refresh)
    BY <2>1, DashboardTargets DEF InForce
  <2> QED
    BY <1>2, <2>1, <2>2 DEF Rotations, OneInForce
<1>11. AfterMark'
  BY <1>5, <1>6 DEF AfterMark, Turning
<1> QED
  BY <1>3, <1>4, <1>7, <1>9, <1>10, <1>11 DEF Rotations

\* The new token takes the place of the one that was marked.
LEMMA IssueRotations ==
    ASSUME DashboardTypeOK, GrantsAgree, Rotations, NEW p \in Pages, IssueGrant(p)
    PROVE  Rotations'
<1> DEFINE c == page[p].had.refresh
           n == page'[p].new
<1>1. page[p].pc = "issue" /\ UNCHANGED jar /\ Turning(p)
  BY DEF IssueGrant, Turning
<1>2. /\ page[p] # Still /\ c \in Grants /\ c \in Current
      /\ grant[c] # NoGrant /\ grant[c].family \in Grants
  BY <1>1, PageShapes, CarriedRows
<1>3. /\ page'[p].pc = "replay" /\ page'[p].had = page[p].had
      /\ n \in Grants /\ grant[n] = NoGrant
      /\ grant' = [grant EXCEPT ![n] = NewGrant(grant[c].family)]
  BY IssueTargets
<1>4. grant'[n].family = grant[c].family /\ \A g \in Grants : g # n => grant'[g] = grant[g]
  BY <1>2, <1>3, NewRow
<1>5. \A q \in Pages : q # p => page'[q] = page[q] /\ ~Turning(q)'
  BY <1>1, PageMoves DEF Rotations, OneTurns, Turning
<1>6. OneTurns' /\ TurnsJar' /\ BeforeMark' /\ AfterMark'
  BY <1>1, <1>3, <1>5 DEF Rotations, OneTurns, TurnsJar, BeforeMark, AfterMark, Turning
<1>7. Current' \subseteq Current
  BY <1>1, <1>2, <1>3, <1>5 DEF Current, Busy
<1>8. \A d \in Current : d \in Grants /\ d # n /\ grant[d].family = grant[c].family
  BY <1>2, <1>3, CarriedRows DEF Rotations, OneFamily, GrantsAgree, Current, Busy
<1>9. \A d \in Current' : grant'[d].family = grant[c].family
  BY <1>4, <1>7, <1>8
<1>10. \A g \in Grants : g # n /\ grant'[g].family = grant[c].family => ~InForce(g)'
  BY <1>1, <1>4 DEF Rotations, AfterMark, InForce
<1> HIDE DEF c, n
<1>11. OneFamily' /\ OneInForce'
  BY <1>9, <1>10 DEF OneFamily, OneInForce
<1> QED
  BY <1>6, <1>11 DEF Rotations

LEMMA RotationsStep ==
    ASSUME DashboardTypeOK, GrantsAgree, RotationsAgree, [DashboardNext]_dashboardVars
    PROVE  RotationsAgree'
<1>1. ("overlap" \notin left => Rotations) /\ (RotationsAgree' <=> ("overlap" \notin left' => Rotations'))
  BY RotationsParts
<1>2. SUFFICES ASSUME "overlap" \notin left'
               PROVE  Rotations'
  BY <1>1
<1>3. CASE SignIn
  BY <1>2, <1>3, SignInRotations
<1>4. ASSUME ~SignIn
      PROVE  Rotations'
  <2>1. Rotations
    BY <1>1, <1>2, <1>4, LeftSteps
  <2>2. CASE \E p \in Pages : IssueGrant(p)
    BY <2>1, <2>2, IssueRotations
  <2>3. ASSUME NEW p \in Pages, ReadGrant(p)
        PROVE  Rotations'
    BY <1>2, <1>4, <2>1, <2>3, LeftSteps, ReadRotations
  <2> QED
    BY <1>4, <2>1, <2>2, <2>3, TurningStays
<1> QED
  BY <1>3, <1>4

\* The parts of SessionStands.
JarServes == /\ jar.refresh # Nil /\ allowed
             /\ ~grant[jar.refresh].revoked /\ ~grant[jar.refresh].aged
Replaces(p) == (page[p].pc = "issue" \/ Rotated(p)) /\ page[p].had.refresh = jar.refresh
MarkedIsReplaced == grant[jar.refresh].used => \E p \in Pages : Replaces(p)
NoneRefused == \A p \in Pages : page[p].pc \notin {"revoke", "refused"}
FreshServes == \A p \in Pages : Rotated(p) => InForce(page[p].new) /\ ~grant[page[p].new].aged
Stands == JarServes /\ MarkedIsReplaced /\ NoneRefused /\ FreshServes

LEMMA StandsParts ==
    /\ SessionStands <=> (left = {} => Stands)
    /\ SessionStands' <=> (left' = {} => Stands')
BY Zenon DEF SessionStands, Stands, JarServes, Replaces, MarkedIsReplaced, NoneRefused, FreshServes

LEMMA SignInStands ==
    ASSUME DashboardTypeOK, SignIn, left' = {}
    PROVE  Stands'
<1>1. PICK g \in Unused : /\ grant' = [grant EXCEPT ![g] = NewGrant(g)]
                          /\ jar' = [access |-> g, refresh |-> g]
  BY DEF SignIn
<1>2. g \in Grants /\ grant[g] = NoGrant
  BY DEF Unused
<1>3. grant'[g].used = FALSE /\ grant'[g].revoked = FALSE /\ grant'[g].aged = FALSE
  BY <1>1, <1>2, NewRow
<1>4. jar'.refresh = g /\ g # Nil /\ allowed'
  BY <1>1, <1>2, DashboardAssumption DEF SignIn
<1>5. page' = page /\ \A p \in Pages : page[p] = Still
  BY DEF SignIn
<1>6. \A p \in Pages : ~Rotated(p)' /\ page'[p].pc = "idle"
  BY <1>5 DEF Rotated, Still
<1> QED
  BY <1>3, <1>4, <1>6 DEF Stands, JarServes, MarkedIsReplaced, NoneRefused, FreshServes

\* No row, no cookie changes, and no rotation comes nearer to its end.
LEMMA QuietStands ==
    ASSUME DashboardTypeOK, GrantsAgree, Stands, [DashboardNext]_dashboardVars,
           UNCHANGED <<grant, allowed>>, jar'.refresh = jar.refresh,
           \A p \in Pages : ~ReadGrant(p) /\ ~RevokeKin(p) /\ ~RotationFails(p) /\ ~IssueGrant(p),
           \A p \in Pages : Replaces(p) => Replaces(p)'
    PROVE  Stands'
<1>1. JarServes' /\ MarkedIsReplaced'
  BY DEF Stands, JarServes, MarkedIsReplaced
<1>2. NoneRefused'
  BY TurningSteps DEF Stands, NoneRefused
<1>3. FreshServes'
  BY TurningSteps DEF Stands, FreshServes, InForce
<1> QED
  BY <1>1, <1>2, <1>3 DEF Stands

LEMMA ReadStands ==
    ASSUME DashboardTypeOK, GrantsAgree, Rotations, Stands, [DashboardNext]_dashboardVars,
           NEW p \in Pages, ReadGrant(p), ~Overlaps(p)
    PROVE  Stands'
<1>1. /\ jar.refresh # Nil /\ page[p].had.refresh = jar.refresh
      /\ \A q \in Pages : ~Turning(q)
  BY ReadRotations
<1>2. UNCHANGED <<grant, allowed, jar>>
  BY DEF ReadGrant
<1>3. ~grant[jar.refresh].used
  BY <1>1 DEF Stands, MarkedIsReplaced, Replaces, Turning
<1>4. page'[p].pc = "use" /\ ~Rotated(p)'
  BY <1>1, <1>3, DashboardTargets DEF Stands, JarServes
<1>5. \A q \in Pages : q # p => page'[q] = page[q] /\ ~Rotated(q)'
  BY <1>1, PageMoves DEF Turning
<1>6. JarServes' /\ MarkedIsReplaced'
  BY <1>2, <1>3 DEF Stands, JarServes, MarkedIsReplaced
<1>7. NoneRefused' /\ FreshServes'
  BY <1>4, <1>5 DEF Stands, NoneRefused, FreshServes
<1> QED
  BY <1>6, <1>7 DEF Stands

LEMMA UseStands ==
    ASSUME DashboardTypeOK, GrantsAgree, Rotations, Stands, [DashboardNext]_dashboardVars,
           NEW p \in Pages, UseGrant(p)
    PROVE  Stands'
<1>1. page[p].pc = "use" /\ Turning(p) /\ UNCHANGED <<allowed, jar>>
  BY DEF UseGrant, Turning
<1>2. page[p].had.refresh = jar.refresh
  BY <1>1 DEF Rotations, TurnsJar, Stands, JarServes
<1>3. /\ jar.refresh \in Grants /\ grant[jar.refresh] # NoGrant
      /\ grant' = [grant EXCEPT ![jar.refresh].used = TRUE]
  BY <1>2, CarriedRows DEF UseGrant, Stands, JarServes
<1>4. /\ grant'[jar.refresh].revoked = grant[jar.refresh].revoked
      /\ grant'[jar.refresh].aged = grant[jar.refresh].aged
  BY <1>3, UsedRow
<1>5. /\ page'[p].pc = "issue" /\ ~Rotated(p)'
      /\ page'[p].had.refresh = page[p].had.refresh
  BY DashboardTargets
<1>6. \A q \in Pages : q # p => page'[q] = page[q] /\ ~Rotated(q)'
  BY <1>1, PageMoves DEF Turning, Rotations, OneTurns
<1>7. JarServes' /\ MarkedIsReplaced'
  BY <1>1, <1>2, <1>4, <1>5 DEF Stands, JarServes, MarkedIsReplaced, Replaces
<1>8. NoneRefused' /\ FreshServes'
  BY <1>5, <1>6 DEF Stands, NoneRefused, FreshServes
<1> QED
  BY <1>7, <1>8 DEF Stands

LEMMA IssueStands ==
    ASSUME DashboardTypeOK, GrantsAgree, Rotations, Stands, [DashboardNext]_dashboardVars,
           NEW p \in Pages, IssueGrant(p)
    PROVE  Stands'
<1> DEFINE n == page'[p].new
<1>1. page[p].pc = "issue" /\ Turning(p) /\ UNCHANGED <<allowed, jar>>
  BY DEF IssueGrant, Turning
<1>2. page[p].had.refresh = jar.refresh
  BY <1>1 DEF Rotations, TurnsJar, Stands, JarServes
<1>3. /\ jar.refresh \in Grants /\ grant[jar.refresh] # NoGrant
      /\ grant[jar.refresh].family \in Grants
  BY CarriedRows, GrantShapes DEF Stands, JarServes
<1>4. /\ page'[p].pc = "replay" /\ page'[p].had = page[p].had /\ Rotated(p)'
      /\ n \in Grants /\ grant[n] = NoGrant
      /\ grant' = [grant EXCEPT ![n] = NewGrant(grant[jar.refresh].family)]
  BY <1>2, IssueTargets
<1>5. /\ grant'[n].used = FALSE /\ grant'[n].revoked = FALSE /\ grant'[n].aged = FALSE
      /\ \A h \in Grants : h # n => grant'[h] = grant[h]
  BY <1>3, <1>4, NewRow
<1>6. \A q \in Pages : q # p => page'[q] = page[q] /\ ~Rotated(q)'
  BY <1>1, PageMoves DEF Turning, Rotations, OneTurns
<1>7. JarServes'
  BY <1>1, <1>3, <1>4, <1>5 DEF Stands, JarServes
<1>8. MarkedIsReplaced'
  BY <1>1, <1>2, <1>4 DEF MarkedIsReplaced, Replaces
<1>9. NoneRefused' /\ FreshServes'
  BY <1>4, <1>5, <1>6 DEF Stands, NoneRefused, FreshServes, InForce
<1> QED
  BY <1>7, <1>8, <1>9 DEF Stands

LEMMA RelayStands ==
    ASSUME DashboardTypeOK, GrantsAgree, Rotations, Stands, [DashboardNext]_dashboardVars,
           NEW p \in Pages, Relay(p), Rotated(p)
    PROVE  Stands'
<1>1. Turning(p) /\ UNCHANGED <<grant, allowed>>
  BY DEF Relay, Turning
<1>2. page[p].new \in Grants /\ page[p].new # Nil
  BY PageShapes, DashboardAssumption
<1>3. jar'.refresh = page[p].new
  BY DEF Relay
<1>4. page'[p] = Still
  BY DashboardTargets
<1>5. \A q \in Pages : ~Rotated(q)' /\ (q # p => page'[q] = page[q])
  BY <1>1, <1>4, PageMoves DEF Turning, Rotations, OneTurns, Rotated, Still
<1>6. JarServes' /\ MarkedIsReplaced'
  BY <1>1, <1>2, <1>3 DEF Stands, JarServes, MarkedIsReplaced, FreshServes, InForce
<1>7. NoneRefused' /\ FreshServes'
  BY <1>4, <1>5 DEF Stands, NoneRefused, FreshServes, Still
<1> QED
  BY <1>6, <1>7 DEF Stands

LEMMA StandsStep ==
    ASSUME DashboardTypeOK, GrantsAgree, RotationsAgree, SessionStands,
           [DashboardNext]_dashboardVars
    PROVE  SessionStands'
<1>1. SUFFICES ASSUME left' = {}
               PROVE  Stands'
  BY StandsParts
<1>2. CASE SignIn
  BY <1>1, <1>2, SignInStands
<1>3. ASSUME ~SignIn
      PROVE  Stands'
  <2>1. left = {} /\ Rotations /\ Stands
    BY <1>1, <1>3, LeftSteps, RotationsParts, StandsParts
  <2>2. ASSUME UNCHANGED <<grant, allowed>>, jar'.refresh = jar.refresh,
               \A p \in Pages : ~ReadGrant(p) /\ ~RevokeKin(p) /\ ~RotationFails(p)
                                /\ ~IssueGrant(p),
               \A p \in Pages : Replaces(p) => Replaces(p)'
        PROVE  Stands'
    BY <2>1, <2>2, QuietStands
  <2>3. ASSUME NEW p \in Pages, ReadGrant(p)
        PROVE  Stands'
    BY <1>1, <1>3, <2>1, <2>3, LeftSteps, ReadStands
  <2>4. CASE \E p \in Pages : UseGrant(p)
    BY <2>1, <2>4, UseStands
  <2>5. CASE \E p \in Pages : IssueGrant(p)
    BY <2>1, <2>5, IssueStands
  <2>6. CASE \E p \in Pages : Relay(p) /\ Rotated(p)
    BY <2>1, <2>6, RelayStands
  <2>7. ~LogoutRevoke /\ ~LogoutClear /\ ~ExcludeAdmin /\ \A g \in Grants : ~GrantAges(g)
    BY <1>1, <2>1 DEF LogoutRevoke, LogoutClear, ExcludeAdmin, GrantAges, GrantsAgree
  <2>8. \A p \in Pages : ~RevokeKin(p) /\ ~Refuse(p) /\ ~LoseReply(p) /\ ~RotationFails(p)
    BY <1>1, <2>1 DEF RevokeKin, Refuse, LoseReply, RotationFails, Stands, NoneRefused
  <2>9. ASSUME NEW p \in Pages, Ask(p) \/ Forward(p) \/ Replay(p) \/ (Relay(p) /\ ~Rotated(p))
        PROVE  Stands'
    <3>1. UNCHANGED <<grant, allowed, jar>>
      BY <2>9 DEF Ask, Forward, Replay, Relay
    <3>2. Replaces(p) => Replaces(p)'
      <4>1. Replaces(p) => Replay(p)
        BY <2>9, PageShapes DEF Ask, Forward, Relay, Replaces
      <4> QED
        BY <3>1, <4>1, DashboardTargets DEF Replaces
    <3>3. \A q \in Pages : q # p => page'[q] = page[q] /\ Rotated(q)' = Rotated(q)
      BY <2>9, PageMoves
    <3>4. \A q \in Pages : Replaces(q) => Replaces(q)'
      BY <3>1, <3>2, <3>3 DEF Replaces
    <3>5. CASE \E q \in Pages : ReadGrant(q) \/ IssueGrant(q)
      BY <2>3, <2>5, <3>5
    <3> QED
      BY <2>2, <2>8, <3>1, <3>4, <3>5
  <2>10. CASE (\E g \in Grants : AccessRunsOut(g)) \/ UNCHANGED dashboardVars
    <3>1. UNCHANGED <<grant, allowed, page>> /\ jar'.refresh = jar.refresh
      BY <2>10 DEF AccessRunsOut, dashboardVars, DashboardTypeOK, Cookies
    <3>2. \A q \in Pages : Replaces(q) => Replaces(q)'
      BY <3>1 DEF Replaces, Rotated
    <3>3. CASE \E q \in Pages : ReadGrant(q) \/ IssueGrant(q)
      BY <2>3, <2>5, <3>3
    <3> QED
      BY <2>2, <2>8, <3>1, <3>2, <3>3
  <2> QED
    BY <1>3, <2>3, <2>4, <2>5, <2>6, <2>7, <2>8, <2>9, <2>10 DEF DashboardNext
<1> QED
  BY <1>2, <1>3

LEMMA DashboardStarts ==
    ASSUME DashboardInit
    PROVE  DashboardInv
<1>1. Still.pc = "idle" /\ "new" \notin DOMAIN Still /\ Still \in PageState
  BY DEF Still, PageState
<1>2. \A p \in Pages : page[p] = Still /\ ~Rotated(p)
  BY <1>1 DEF DashboardInit, Rotated
<1>3. jar = Empty /\ Empty.refresh = Nil /\ Empty \in Cookies
  BY DEF DashboardInit, Empty, Cookies
<1>4. \A g \in Grants : grant[g] = NoGrant
  BY DEF DashboardInit
<1>5. DashboardTypeOK
  BY <1>1, <1>3 DEF DashboardInit, DashboardTypeOK
<1>6. Busy = {} /\ Current = {} /\ \A p \in Pages : ~Turning(p)
  BY <1>1, <1>2, <1>3 DEF Busy, Current, Turning
<1>7. left # {} /\ exit = "no"
  BY DEF DashboardInit
<1>8. GrantsAgree
  BY <1>2, <1>3, <1>4, <1>6, <1>7 DEF GrantsAgree
<1>9. RotationsAgree
  BY <1>1, <1>2, <1>6 DEF RotationsAgree
<1>10. SessionStands /\ BarredStays /\ SignedOutForCause /\ OneGrantInForce /\ ExcludedNotServed
  BY <1>1, <1>2, <1>3, <1>6, <1>7
  DEF SessionStands, BarredStays, SignedOutForCause, OneGrantInForce, ExcludedNotServed
<1> QED
  BY <1>5, <1>8, <1>9, <1>10 DEF DashboardInv

LEMMA DashboardStep ==
    ASSUME DashboardInv, [DashboardNext]_dashboardVars
    PROVE  DashboardInv'
<1>1. DashboardTypeOK' /\ GrantsAgree' /\ RotationsAgree' /\ SessionStands'
  BY DashboardTypeStep, GrantsStep, RotationsStep, StandsStep DEF DashboardInv
<1>2. BarredStays' /\ ExcludedNotServed'
  BY BarredStep DEF DashboardInv
<1>3. SignedOutForCause'
  BY <1>1 DEF SessionStands, SignedOutForCause
<1>4. OneGrantInForce'
  BY <1>1 DEF RotationsAgree, OneGrantInForce, Current
<1> QED
  BY <1>1, <1>2, <1>3, <1>4 DEF DashboardInv

\* However the requests of the administrators and of their pages overlap, whatever is lost,
\* refused or late: a code of Trajelys opens one session, repeated failures that do not
\* overlap lock the account, the pages of a browser do not sign it out unless their
\* rotations overlap, its token is then the one in force in its family, and an administrator
\* excluded before a request left is not served (admin-auth.service.ts, api/proxy/route.ts).
THEOREM AccessKept == LoginSpec /\ DashboardSpec => []AccessInv
<1>1. LoginInit => LoginInv
  BY LoginStarts
<1>2. LoginInv /\ [LoginNext]_loginVars => LoginInv'
  BY LoginStep
<1>3. DashboardInit => DashboardInv
  BY DashboardStarts
<1>4. DashboardInv /\ [DashboardNext]_dashboardVars => DashboardInv'
  BY DashboardStep
<1>5. LoginSpec => []LoginInv
  BY <1>1, <1>2, PTL DEF LoginSpec
<1>6. DashboardSpec => []DashboardInv
  BY <1>3, <1>4, PTL DEF DashboardSpec
<1>7. AccessInv <=> LoginInv /\ DashboardInv
  BY DEF AccessInv
<1> QED
  BY <1>5, <1>6, <1>7, PTL
=============================================================================
