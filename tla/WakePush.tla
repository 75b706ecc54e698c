------------------------------ MODULE WakePush ------------------------------
(***************************************************************************)
(* The wake-up of a phone for which a command was just enqueued: a message *)
(* of Firebase that says "come and see" and that nobody waits for.  Calls  *)
(* overlap, and each awaits the database, then Google.                     *)
(***************************************************************************)
EXTENDS Integers

CONSTANTS
    Wakes,          \* calls of wake, for one phone
    Interval,       \* MIN_INTERVAL_MS
    Lifetime,       \* expires_in of an access token
    Margin,         \* what the cache takes off it (60 s)
    MaxInstant      \* bound of the clock

VARIABLES
    instant,
    serviceAccount,    \* FCM_SERVICE_ACCOUNT
    fcmToken,   \* whether the phone has given its token
    lastWake,   \* lastWake of the phone
    wake,       \* where each call is
    cached      \* accessToken: when it expires for the cache, and for Google

wakeVars == <<instant, serviceAccount, fcmToken, lastWake, wake, cached>>

ASSUME WakeAssumption ==
    /\ Interval \in Nat /\ Lifetime \in Nat /\ Margin \in Nat /\ MaxInstant \in Nat
    /\ Margin < Lifetime

NoWake == -1
NoToken == [cache |-> 0, real |-> 0]

WakeTypeOK ==
    /\ instant \in 0..MaxInstant /\ serviceAccount \in {"absent", "malformed", "json", "base64"}
    /\ fcmToken \in BOOLEAN /\ lastWake \in {NoWake} \cup (0..MaxInstant)
    /\ wake \in [Wakes -> [pc : {"none", "lookup", "token", "send", "sent", "failed", "skipped"},
                           at : 0..MaxInstant, use : Nat]]
    /\ cached \in [cache : Nat, real : Nat]

WakeInit ==
    /\ instant = 0 /\ serviceAccount \in {"absent", "malformed", "json", "base64"}
    /\ fcmToken \in BOOLEAN /\ lastWake = NoWake /\ cached = NoToken
    /\ wake = [w \in Wakes |-> [pc |-> "none", at |-> 0, use |-> 0]]

\* A key that cannot be read leaves the transport disabled.
Configured == serviceAccount \in {"json", "base64"}

Step(w, r) == wake' = [wake EXCEPT ![w] = r]

\* wake, until it awaits the database.  The throttle is looked at first.
Wake(w) ==
    /\ wake[w].pc = "none"
    /\ Step(w, [pc |-> IF ~Configured \/ (lastWake # NoWake /\ instant - lastWake < Interval)
                       THEN "skipped" ELSE "lookup", at |-> instant, use |-> 0])
    /\ UNCHANGED <<instant, serviceAccount, fcmToken, lastWake, cached>>

\* The row is read; the throttle is set before the message is sent.
Lookup(w) ==
    /\ wake[w].pc = "lookup"
    /\ Step(w, [wake[w] EXCEPT !.pc = IF fcmToken THEN "token" ELSE "skipped"])
    /\ lastWake' = IF fcmToken THEN wake[w].at ELSE lastWake
    /\ UNCHANGED <<instant, serviceAccount, fcmToken, cached>>

\* token: the cached one, or one exchanged for the assertion, unless Google refuses.
Token(w) ==
    /\ wake[w].pc = "token"
    /\ \/ /\ cached.cache > instant
          /\ Step(w, [wake[w] EXCEPT !.pc = "send", !.use = cached.real, !.at = instant])
          /\ UNCHANGED cached
       \/ /\ cached.cache <= instant
          /\ cached' = [cache |-> instant + Lifetime - Margin, real |-> instant + Lifetime]
          /\ Step(w, [wake[w] EXCEPT !.pc = "send", !.use = instant + Lifetime, !.at = instant])
       \/ /\ cached.cache <= instant
          /\ Step(w, [wake[w] EXCEPT !.pc = "failed"]) /\ UNCHANGED cached
    /\ UNCHANGED <<instant, serviceAccount, fcmToken, lastWake>>

\* send: 404 and 400 mean that the token of the phone is stale.
SendMessage(w) ==
    /\ wake[w].pc = "send"
    /\ \E pc \in {"sent", "failed"} : Step(w, [wake[w] EXCEPT !.pc = pc])
    /\ UNCHANGED <<instant, serviceAccount, fcmToken, lastWake, cached>>

\* registerToken, and the heartbeat.
RegisterToken ==
    /\ fcmToken' = TRUE
    /\ UNCHANGED <<instant, serviceAccount, lastWake, wake, cached>>

\* The map and the cache live in the process.
RestartApi ==
    /\ lastWake' = NoWake /\ cached' = NoToken
    /\ wake' = [w \in Wakes |-> IF wake[w].pc \in {"lookup", "token", "send"}
                                THEN [wake[w] EXCEPT !.pc = "failed"] ELSE wake[w]]
    /\ UNCHANGED <<instant, serviceAccount, fcmToken>>

\* A message is on its way for less than Margin.
Clock ==
    /\ instant < MaxInstant
    /\ \A w \in Wakes : wake[w].pc = "send" => instant + 1 - wake[w].at <= Margin
    /\ instant' = instant + 1
    /\ UNCHANGED <<serviceAccount, fcmToken, lastWake, wake, cached>>

WakeNext ==
    \/ \E w \in Wakes : Wake(w) \/ Lookup(w) \/ Token(w) \/ SendMessage(w)
    \/ RegisterToken \/ RestartApi \/ Clock

WakeSpec == WakeInit /\ [][WakeNext]_wakeVars

-----------------------------------------------------------------------------
(* Properties *)

\* A message leaves with a token Google still accepts, though it was taken from the
\* cache before, and whatever other calls renewed meanwhile.
TokenAccepted == \A w \in Wakes : wake[w].pc = "send" => instant < wake[w].use

\* The cache gives its token up Margin before Google does, and a message is on its way
\* for less.
TokensAgree ==
    /\ cached = NoToken \/ cached.real = cached.cache + Margin
    /\ \A w \in Wakes : wake[w].pc = "send" =>
           instant - wake[w].at <= Margin /\ wake[w].at + Margin < wake[w].use

WakeInv == WakeTypeOK /\ TokensAgree /\ TokenAccepted

-----------------------------------------------------------------------------
(* Expected of the code, and not held by it *)

\* "Deux commandes simultanées ne doivent produire qu'un seul message": a call sends
\* only if no other has marked the phone within the interval.  The row of the phone
\* is awaited between the look at the throttle and the mark.
OneWakeByInterval ==
    [][\A w \in Wakes :
          wake[w].pc = "lookup" /\ wake'[w].pc = "token"
          => lastWake = NoWake \/ wake[w].at - lastWake >= Interval]_wakeVars
=============================================================================
