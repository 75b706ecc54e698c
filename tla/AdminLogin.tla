----------------------------- MODULE AdminLogin -----------------------------
(***************************************************************************)
(* How an administrator comes in: by password, with a lock after repeated  *)
(* failures, or from Trajelys, directly or with a code that crosses from   *)
(* one origin to the other.  Each request reads the account, then writes   *)
(* it, and the requests of a browser and of its copies overlap.            *)
(***************************************************************************)
EXTENDS Integers, FiniteSets

CONSTANTS
    Logins,         \* requests handled at once
    Vouchers,       \* codes that may be drawn
    MaxFailures,    \* MAX_FAILED_ATTEMPTS
    MaxTries        \* bound of the passwords checked since the count was reset

VARIABLES
    company,    \* companies.trajelysUserId is set
    account,    \* the row of the administrator
    excluded,   \* it was made inactive, or deleted
    lock,       \* admins.lockedUntil is later than now
    failures,   \* admins.failedAttempts
    login,      \* where each request is
    voucher,    \* the codes in Redis
    tries,      \* history: failures since the count was last reset, and whether
                \* two password checks overlapped among them
    opened      \* history: the sessions each code has opened

loginVars == <<company, account, excluded, lock, failures, login, voucher, tries, opened>>

ASSUME LoginAssumption ==
    MaxFailures \in Nat \ {0} /\ MaxTries \in Nat /\ IsFiniteSet(Logins)

AtRest == [pc |-> "idle"]
Untried == [count |-> 0, overlap |-> FALSE]

LoginState ==
    {AtRest} \cup [pc : {"in"}] \cup
    [pc : {"verify", "fail", "succeed"}, read : 0..MaxTries] \cup
    [pc : {"create", "resolve", "enter"}, code : BOOLEAN] \cup
    [pc : {"redeemed"}, code : Vouchers]

LoginTypeOK ==
    /\ company \in BOOLEAN /\ lock \in BOOLEAN
    /\ account \in {"none", "PASSWORD", "SSO"} /\ excluded \in BOOLEAN
    /\ failures \in 0..MaxTries
    /\ login \in [Logins -> LoginState]
    /\ voucher \in [Vouchers -> {"none", "live", "gone"}]
    /\ tries \in [count : 0..MaxTries, overlap : BOOLEAN]
    /\ opened \in [Vouchers -> 0..Cardinality(Logins) + 1]

\* The account exists already, with a password, or is created at the first passage.
LoginInit ==
    /\ company \in BOOLEAN /\ account \in {"none", "PASSWORD"}
    /\ excluded = FALSE /\ lock = FALSE /\ failures = 0
    /\ login = [r \in Logins |-> AtRest]
    /\ voucher = [v \in Vouchers |-> "none"]
    /\ tries = Untried /\ opened = [v \in Vouchers |-> 0]

To(r, s) == login' = [login EXCEPT ![r] = s]
Usable == account # "none" /\ ~excluded
CountUp(n) == IF n < MaxTries THEN n + 1 ELSE n

-----------------------------------------------------------------------------
(* The password: admin-auth.service.ts, login *)

Checking == {r \in Logins : login[r].pc \in {"verify", "fail", "succeed"}}

\* The row is read.  One that is inactive, without password or locked is refused.
\* Bound: MaxTries.
ReadAccount(r) ==
    /\ login[r] = AtRest /\ tries.count < MaxTries
    /\ account = "PASSWORD" /\ ~excluded /\ ~lock
    /\ To(r, [pc |-> "verify", read |-> failures])
    /\ tries' = [tries EXCEPT !.overlap = @ \/ Checking # {}]
    /\ UNCHANGED <<company, account, excluded, lock, failures, voucher, opened>>

VerifyPassword(r) ==
    /\ login[r].pc = "verify"
    /\ \E pc \in {"fail", "succeed"} : To(r, [login[r] EXCEPT !.pc = pc])
    /\ UNCHANGED <<company, account, excluded, lock, failures, voucher, tries, opened>>

\* The count that was read, and one more; below the limit, lockedUntil is null.
WriteFailure(r) ==
    /\ login[r].pc = "fail" /\ tries.count < MaxTries
    /\ failures' = CountUp(login[r].read)
    /\ lock' = (login[r].read + 1 >= MaxFailures)
    /\ tries' = [tries EXCEPT !.count = @ + 1]
    /\ To(r, AtRest)
    /\ UNCHANGED <<company, account, excluded, voucher, opened>>

\* failedAttempts = 0, lockedUntil = null: what both doors write.
Forgive == /\ failures' = 0 /\ lock' = FALSE
           /\ tries' = [count |-> 0, overlap |-> Cardinality(Checking) > 1]

WriteSuccess(r) ==
    /\ login[r].pc = "succeed"
    /\ Forgive
    /\ To(r, [pc |-> "in"])
    /\ UNCHANGED <<company, account, excluded, voucher, opened>>

\* The fifteen minutes are over.  The count stays: the next failure locks again.
LockEnds ==
    /\ lock /\ lock' = FALSE
    /\ tries' = [count |-> 0, overlap |-> Checking # {}]
    /\ UNCHANGED <<company, account, excluded, failures, login, voucher, opened>>

-----------------------------------------------------------------------------
(* Trajelys: resoudreAdministrateurTrajelys, emettreCode, echangerCode *)

\* The company has to be attached; an account that was excluded stays out; one is
\* created at the first passage.
ResolveAccount(r, code) ==
    /\ login[r] = AtRest /\ company /\ account \in {"none", "SSO"} /\ ~excluded
    /\ To(r, [pc |-> IF account = "none" THEN "create" ELSE "resolve", code |-> code])
    /\ UNCHANGED <<company, account, excluded, lock, failures, voucher, tries, opened>>

\* One account by user of Trajelys: the loser of two first passages is refused.
CreateAccount(r) ==
    /\ login[r].pc = "create"
    /\ account' = IF account = "none" THEN "SSO" ELSE account
    /\ To(r, IF account = "none" THEN [login[r] EXCEPT !.pc = "resolve"] ELSE AtRest)
    /\ UNCHANGED <<company, excluded, lock, failures, voucher, tries, opened>>

ForgiveSso(r) ==
    /\ login[r].pc = "resolve"
    /\ Forgive
    /\ To(r, [login[r] EXCEPT !.pc = "enter"])
    /\ UNCHANGED <<company, account, excluded, voucher, opened>>

\* connecterParTrajelys issues tokens at once; emettreCodeTrajelys draws a code.
\* Bound: Vouchers.
Enter(r) ==
    /\ login[r].pc = "enter"
    /\ IF login[r].code
       THEN \E v \in Vouchers : /\ voucher[v] = "none"
                                /\ voucher' = [voucher EXCEPT ![v] = "live"]
                                /\ To(r, AtRest)
       ELSE To(r, [pc |-> "in"]) /\ UNCHANGED voucher
    /\ UNCHANGED <<company, account, excluded, lock, failures, tries, opened>>

\* consommerUneFois: GETDEL.
Redeem(r, v) ==
    /\ login[r] = AtRest /\ voucher[v] = "live"
    /\ voucher' = [voucher EXCEPT ![v] = "gone"]
    /\ To(r, [pc |-> "redeemed", code |-> v])
    /\ UNCHANGED <<company, account, excluded, lock, failures, tries, opened>>

\* The account may have been excluded since the code was drawn.
OpenByCode(r) ==
    /\ login[r].pc = "redeemed"
    /\ IF Usable
       THEN /\ To(r, [pc |-> "in"])
            /\ opened' = [opened EXCEPT ![login[r].code] = @ + 1]
       ELSE To(r, AtRest) /\ UNCHANGED opened
    /\ UNCHANGED <<company, account, excluded, lock, failures, voucher, tries>>

VoucherExpires(v) ==
    /\ voucher[v] = "live"
    /\ voucher' = [voucher EXCEPT ![v] = "gone"]
    /\ UNCHANGED <<company, account, excluded, lock, failures, login, tries, opened>>

\* issueTokens (DashboardSession), and the answer.
Issued(r) ==
    /\ login[r].pc = "in"
    /\ To(r, AtRest)
    /\ UNCHANGED <<company, account, excluded, lock, failures, voucher, tries, opened>>

\* Accounts are changed outside this API, to and fro.
Exclude ==
    /\ account # "none" /\ excluded' = ~excluded
    /\ UNCHANGED <<company, account, lock, failures, login, voucher, tries, opened>>

\* rattacherTrajelys (TrajelysLink): the company is attached, or detached.
Attach ==
    /\ company' = ~company
    /\ UNCHANGED <<account, excluded, lock, failures, login, voucher, tries, opened>>

-----------------------------------------------------------------------------

LoginNext ==
    \/ \E r \in Logins :
           \/ ReadAccount(r) \/ VerifyPassword(r) \/ WriteFailure(r) \/ WriteSuccess(r)
           \/ \E code \in BOOLEAN : ResolveAccount(r, code)
           \/ CreateAccount(r) \/ ForgiveSso(r) \/ Enter(r)
           \/ \E v \in Vouchers : Redeem(r, v)
           \/ OpenByCode(r) \/ Issued(r)
    \/ \E v \in Vouchers : VoucherExpires(v)
    \/ LockEnds \/ Exclude \/ Attach

LoginSpec == LoginInit /\ [][LoginNext]_loginVars

-----------------------------------------------------------------------------
(* Properties *)

\* A code opens one session, however many requests present it at once.
CodeOpensOnce == \A v \in Vouchers : opened[v] <= 1

\* Once the limit of failures is reached the account is locked, if the requests came
\* one after the other since the count was reset.
LockedAfterFailures ==
    tries.count >= MaxFailures /\ ~tries.overlap => lock

\* An account has one door: a password, or Trajelys.
DoorsAgree ==
    /\ Checking # {} => account = "PASSWORD"
    /\ \A r \in Logins : /\ login[r].pc = "create" => account # "PASSWORD"
                         /\ login[r].pc \in {"resolve", "enter"} => account = "SSO"

\* A code is taken by one request, once it has been drawn.
VouchersAgree ==
    /\ \A v \in Vouchers : voucher[v] # "gone" => opened[v] = 0
    /\ \A r \in Logins : login[r].pc = "redeemed" =>
           voucher[login[r].code] = "gone" /\ opened[login[r].code] = 0
    /\ \A q, r \in Logins :
           /\ login[q].pc = "redeemed" /\ login[r].pc = "redeemed"
           /\ login[q].code = login[r].code
           => q = r

\* While checks do not overlap, the one under way has read the count, which counts them all.
ChecksAgree ==
    ~tries.overlap =>
        /\ \A q, r \in Checking : q = r
        /\ \A r \in Checking : login[r].read = failures
        /\ tries.count <= failures

LoginInv == /\ LoginTypeOK /\ DoorsAgree /\ VouchersAgree /\ ChecksAgree
            /\ CodeOpensOnce /\ LockedAfterFailures

-----------------------------------------------------------------------------
(* Expected of the code, and not held by it *)

\* "Après cinq tentatives infructueuses, le compte est temporairement verrouillé":
\* requests that overlap read the same count, and a late one erases the lock.
LockedAnyway == tries.count >= MaxFailures => lock
=============================================================================
