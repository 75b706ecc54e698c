---------------------------- MODULE RateLimiter ----------------------------
(***************************************************************************)
(* The limits of the scan of a badge: a quota by minute, then a lock after *)
(* repeated failures, kept in Redis under keys that expire.  A request     *)
(* reads the lock and its quota, is judged, and only then counts as a      *)
(* failure: requests sent together overlap.                                *)
(***************************************************************************)
EXTENDS Integers, FiniteSets

CONSTANTS
    Callers,            \* authenticated phones
    Codes,              \* badges they present
    Attempts,           \* requests handled at once
    CallerQuota, CodeQuota,   \* perDevicePerMinute, perBadgePerMinute
    LockoutFailures

VARIABLES
    flaky,      \* whether Redis may not answer
    attempt,    \* where each request is
    used,       \* rl:barcode:device, rl:barcode:badge
    fails,      \* fail:barcode
    lockedOut,  \* lock:barcode
    guesses     \* history: refusals since the failures or the lock were reset

limiterVars == <<flaky, attempt, used, fails, lockedOut, guesses>>

ASSUME LimiterAssumption ==
    /\ IsFiniteSet(Attempts) /\ Callers \cap Codes = {}
    /\ CallerQuota \in Nat \ {0} /\ CodeQuota \in Nat \ {0}
    /\ LockoutFailures \in Nat \ {0}

Idle == [pc |-> "idle"]

\* Bound: refusals are counted up to this number.
MaxGuesses == LockoutFailures + Cardinality(Attempts)

LimiterTypeOK ==
    /\ flaky \in BOOLEAN
    /\ attempt \in [Attempts -> {Idle} \cup
           [pc : {"judged", "refused", "locking", "granted"}, caller : Callers]]
    /\ used \in [Callers \cup Codes -> Nat]
    /\ \A c \in Callers : used[c] <= CallerQuota
    /\ \A k \in Codes : used[k] <= CodeQuota
    /\ fails \in [Callers -> 0..LockoutFailures]
    /\ lockedOut \subseteq Callers
    /\ guesses \in [Callers -> 0..MaxGuesses]

LimiterInit ==
    /\ flaky \in BOOLEAN
    /\ attempt = [a \in Attempts |-> Idle]
    /\ used = [k \in Callers \cup Codes |-> 0]
    /\ fails = [c \in Callers |-> 0] /\ lockedOut = {}
    /\ guesses = [c \in Callers |-> 0]

AttemptAt(a, pc) == attempt' = [attempt EXCEPT ![a].pc = pc]
Leave(a) == attempt' = [attempt EXCEPT ![a] = Idle]

\* isLockedOut and the two calls of consume.  Bound: past its limit a counter is
\* not counted any more.  A request refused here has no other effect.
Attempt(a, c, k) ==
    /\ attempt[a] = Idle
    /\ c \notin lockedOut
    /\ used[c] < CallerQuota
    /\ IF used[k] < CodeQuota
       THEN /\ used' = [used EXCEPT ![c] = @ + 1, ![k] = @ + 1]
            /\ attempt' = [attempt EXCEPT ![a] = [pc |-> "judged", caller |-> c]]
       ELSE /\ used' = [used EXCEPT ![c] = @ + 1]
            /\ UNCHANGED attempt
    /\ UNCHANGED <<flaky, fails, lockedOut, guesses>>

\* Without Redis a request is neither locked out nor counted.
AttemptUncounted(a, c) ==
    /\ flaky
    /\ attempt[a] = Idle
    /\ attempt' = [attempt EXCEPT ![a] = [pc |-> "judged", caller |-> c]]
    /\ UNCHANGED <<flaky, used, fails, lockedOut, guesses>>

\* The controls of the phone, then of the badge and its driver (BadgeScan).  A
\* refusal of the phone, or of a row of another company, is not counted.
Judge(a) ==
    /\ attempt[a].pc = "judged"
    /\ \/ AttemptAt(a, "granted") /\ UNCHANGED guesses
       \/ Leave(a) /\ UNCHANGED guesses
       \/ /\ AttemptAt(a, "refused")
          /\ guesses' = [guesses EXCEPT ![attempt[a].caller] =
                                        IF @ < MaxGuesses THEN @ + 1 ELSE @]
    /\ UNCHANGED <<flaky, used, fails, lockedOut>>

\* Mutant: the lock is set once the limit is exceeded.
RegisterFailureLate(a) ==
    /\ attempt[a].pc = "refused"
    /\ LET c == attempt[a].caller
       IN  /\ fails' = [fails EXCEPT ![c] = IF @ < LockoutFailures THEN @ + 1 ELSE @]
           /\ IF fails[c] >= LockoutFailures THEN AttemptAt(a, "locking") ELSE Leave(a)
    /\ UNCHANGED <<flaky, used, lockedOut, guesses>>

\* registerFailure: recordFailure; without Redis it answers 0,
RegisterFailure(a) ==
    /\ attempt[a].pc = "refused"
    /\ LET c == attempt[a].caller
       IN  \/ /\ fails' = [fails EXCEPT ![c] = IF @ < LockoutFailures THEN @ + 1 ELSE @]
              /\ IF fails[c] + 1 >= LockoutFailures THEN AttemptAt(a, "locking") ELSE Leave(a)
           \/ flaky /\ Leave(a) /\ UNCHANGED fails
    /\ UNCHANGED <<flaky, used, lockedOut, guesses>>

\* then lockOut.
LockOut(a) ==
    /\ attempt[a].pc = "locking"
    /\ \/ lockedOut' = lockedOut \cup {attempt[a].caller}
       \/ flaky /\ UNCHANGED lockedOut
    /\ Leave(a)
    /\ UNCHANGED <<flaky, used, fails, guesses>>

\* clearFailures.
ClearFailures(a) ==
    /\ attempt[a].pc = "granted"
    /\ LET c == attempt[a].caller
       IN  \/ /\ fails' = [fails EXCEPT ![c] = 0]
              /\ guesses' = [guesses EXCEPT ![c] = 0]
           \/ flaky /\ UNCHANGED <<fails, guesses>>
    /\ Leave(a)
    /\ UNCHANGED <<flaky, used, lockedOut>>

MinuteEnds(k) ==
    /\ used[k] # 0
    /\ used' = [used EXCEPT ![k] = 0]
    /\ UNCHANGED <<flaky, attempt, fails, lockedOut, guesses>>

\* The failures of the hour, or the lock, expire.
FailuresExpire(c) ==
    /\ fails[c] # 0
    /\ fails' = [fails EXCEPT ![c] = 0]
    /\ guesses' = [guesses EXCEPT ![c] = 0]
    /\ UNCHANGED <<flaky, attempt, used, lockedOut>>

LockExpires(c) ==
    /\ c \in lockedOut
    /\ lockedOut' = lockedOut \ {c}
    /\ guesses' = [guesses EXCEPT ![c] = 0]
    /\ UNCHANGED <<flaky, attempt, used, fails>>

LimiterNext ==
    \/ \E a \in Attempts :
           \/ \E c \in Callers : AttemptUncounted(a, c) \/ \E k \in Codes : Attempt(a, c, k)
           \/ Judge(a) \/ RegisterFailure(a) \/ LockOut(a) \/ ClearFailures(a)
    \/ \E k \in Callers \cup Codes : MinuteEnds(k)
    \/ \E c \in Callers : FailuresExpire(c) \/ LockExpires(c)

LimiterSpec == LimiterInit /\ [][LimiterNext]_limiterVars

-----------------------------------------------------------------------------
(* Properties *)

\* Requests sent together do not stretch the lock past the ones already under
\* way: between two resets a phone gets fewer refusals than the limit of failures
\* and the requests handled at once, as long as Redis answers.
GuessBound ==
    ~flaky => \A c \in Callers : guesses[c] < MaxGuesses

\* The requests of a phone at one of these points.
Under(c, pcs) == {a \in Attempts : attempt[a].pc \in pcs /\ attempt[a].caller = c}

\* Every refusal is a failure already counted, or one of a request still under way; once
\* the lock is set, only the requests judged before can add to them.
GuessesCounted ==
    ~flaky => \A c \in Callers :
        /\ c \in lockedOut =>
              guesses[c] + Cardinality(Under(c, {"judged"})) < MaxGuesses
        /\ c \notin lockedOut /\ fails[c] < LockoutFailures =>
              guesses[c] <= fails[c] + Cardinality(Under(c, {"refused"}))
        /\ c \notin lockedOut /\ fails[c] = LockoutFailures =>
              guesses[c] < LockoutFailures + Cardinality(Under(c, {"refused", "locking"}))

\* Types, how the guesses are counted, and their bound.
LimiterInv == LimiterTypeOK /\ GuessesCounted /\ GuessBound
=============================================================================
