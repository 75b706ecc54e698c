------------------------- MODULE DeviceStateMachine -------------------------
(***************************************************************************)
(* The pure state machine of the phone: `DeviceStateMachine.reduce`, one   *)
(* operator per event.  A context is what the screen is derived from.  The *)
(* notice to display, the alert flag and the effects are not part of it;   *)
(* PhoneSession gives the two effects the properties need, the start and   *)
(* the stop of the location service.                                       *)
(***************************************************************************)

CONSTANT NoSession   \* `session = null`

DeviceState == {"LOCKED", "SCANNING", "AUTHENTICATING",
                "ACTIVE", "RETURNED", "LOCKING"}

\* The states whose screen leaves the kiosk: MainActivity maps them to
\* AppScreen.ACTIVE, the only screen that does not enforce it.
Usable == {"ACTIVE", "RETURNED"}

\* DeviceContext: the state, the session's identifier (or NoSession) and
\* whether its returnedAt is set.
LockedContext == [state |-> "LOCKED", sid |-> NoSession, returned |-> FALSE]

-----------------------------------------------------------------------------

ScanRequested(c) ==
    IF c.state = "LOCKED" THEN [c EXCEPT !.state = "SCANNING"] ELSE c

ScanCancelled(c) ==
    IF c.state = "SCANNING" THEN [c EXCEPT !.state = "LOCKED"] ELSE c

BarcodeCaptured(c) ==
    IF c.state = "SCANNING" THEN [c EXCEPT !.state = "AUTHENTICATING"] ELSE c

\* Accepted in every state: nothing of the previous context survives.
AccessGranted(c, sid) ==
    [state |-> "ACTIVE", sid |-> sid, returned |-> FALSE]

\* Accepted in every state: the session, if there is one, is kept.
AccessDenied(c) == [c EXCEPT !.state = "LOCKED"]

\* Mutant: the test of the session is forgotten.
GeofenceConfirmedAlways(c, next, mark) ==
    [state    |-> IF next = "RETURNED" THEN "RETURNED" ELSE "ACTIVE",
     sid      |-> c.sid,
     returned |-> mark \/ c.returned]

\* next is the decision's nextSessionState, mark its markReturned.
GeofenceConfirmed(c, next, mark) ==
    IF c.sid = NoSession THEN c
    ELSE [state    |-> IF next = "RETURNED" THEN "RETURNED" ELSE "ACTIVE",
          sid      |-> c.sid,
          returned |-> mark \/ c.returned]

LockRequested(c) ==
    IF c.state = "LOCKED" THEN c ELSE [c EXCEPT !.state = "LOCKING"]

LockApplied(c) == LockedContext

=============================================================================
