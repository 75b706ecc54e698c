-------------------------- MODULE TenantIsolation --------------------------
(***************************************************************************)
(* How a request is kept inside its company: a context opened empty before *)
(* the guards, filled by the guard, followed through every await, and read *)
(* at each query by an extension of the client of the database.  Several   *)
(* requests are under way at once, and administrators move between         *)
(* companies meanwhile.                                                    *)
(***************************************************************************)
EXTENDS FiniteSets

CONSTANTS
    Firms,          \* companies
    Records,        \* rows of the database
    Flights,        \* requests and jobs handled at once
    Bearers         \* administrators and phones that may call

VARIABLES
    owner,      \* company_id of each row, NoFirm before it is created,
                \* Deleted after it is deleted
    listed,     \* the rows whose model is in TENANT_MODELS
    bearer,     \* of each bearer: its kind, its company, whether it is in order
    flight,     \* each request: its door, where it is, the company of req.admin or
                \* req.device, the row it works on
    context,    \* what AsyncLocalStorage gives each request
    touched     \* history: the companies whose rows each request read or wrote

isolationVars == <<owner, listed, bearer, flight, context, touched>>

NoFirm == "none"
Deleted == "deleted"

ASSUME IsolationAssumption ==
    /\ IsFiniteSet(Firms) /\ IsFiniteSet(Records) /\ IsFiniteSet(Flights) /\ IsFiniteSet(Bearers)
    /\ NoFirm \notin Firms /\ Deleted \notin Firms

Owners == Firms \cup {NoFirm}
HttpDoors == {"public", "service", "admin", "device"}
Contexts == [store : BOOLEAN, company : Owners, cross : BOOLEAN]
OutOfRequest == [store |-> FALSE, company |-> NoFirm, cross |-> FALSE]
Opened == [store |-> TRUE, company |-> NoFirm, cross |-> FALSE]
System == [store |-> TRUE, company |-> NoFirm, cross |-> TRUE]
Landed == [door |-> "none", pc |-> "idle", company |-> NoFirm, row |-> NoFirm]

IsolationTypeOK ==
    /\ owner \in [Records -> Owners \cup {Deleted}]
    /\ listed \in SUBSET Records
    /\ bearer \in [Bearers -> [kind : {"admin", "super", "device"}, company : Owners,
                               active : BOOLEAN]]
    /\ flight \in [Flights -> [door : HttpDoors \cup {"job", "none"},
                               pc : {"idle", "guard", "route", "owned"},
                               company : Owners, row : Records \cup {NoFirm}]]
    /\ context \in [Flights -> Contexts]
    /\ touched \in [Flights -> SUBSET Owners]

IsolationInit ==
    /\ owner \in [Records -> Owners]
    /\ listed \in SUBSET Records
    /\ bearer \in [Bearers -> [kind : {"admin", "super", "device"}, company : Owners,
                               active : {TRUE}]]
    /\ \A b \in Bearers : bearer[b].kind = "device" => bearer[b].company # NoFirm
    /\ flight = [f \in Flights |-> Landed]
    /\ context = [f \in Flights |-> OutOfRequest]
    /\ touched = [f \in Flights |-> {}]

-----------------------------------------------------------------------------
(* RequestContextMiddleware, TenantContext, AccessGuard *)

FlightAt(f, pc) == flight[f].pc = pc

\* Mutant: one context for the process.
AdoptShared(f, x) == context' = [g \in Flights |-> x]

\* TenantContext.run: the context of this request only.
Adopt(f, x) == context' = [context EXCEPT ![f] = x]

\* The answer, or a refusal thrown on the way.
Land(f) ==
    /\ flight' = [flight EXCEPT ![f] = Landed]
    /\ Adopt(f, OutOfRequest)
    /\ touched' = [touched EXCEPT ![f] = {}]
    /\ UNCHANGED <<owner, listed, bearer>>

\* Requests and jobs are alike: the first one free begins.
NextFree(f) == FlightAt(f, "idle") /\ f = CHOOSE g \in Flights : FlightAt(g, "idle")

\* Before the guards, the context is empty.
OpenRequest(f, door) ==
    /\ NextFree(f)
    /\ flight' = [flight EXCEPT ![f] = [Landed EXCEPT !.door = door, !.pc = "guard"]]
    /\ Adopt(f, Opened)
    /\ UNCHANGED <<owner, listed, bearer, touched>>

\* TenantContext.system: the jobs of the worker.
OpenJob(f) ==
    /\ NextFree(f)
    /\ flight' = [flight EXCEPT ![f] = [Landed EXCEPT !.door = "job", !.pc = "route"]]
    /\ Adopt(f, System)
    /\ UNCHANGED <<owner, listed, bearer, touched>>

\* Neither a public route nor the service of Trajelys gets a company.
canActivate(f) ==
    /\ FlightAt(f, "guard") /\ flight[f].door \in {"public", "service"}
    /\ flight' = [flight EXCEPT ![f].pc = "route"]
    /\ UNCHANGED <<owner, listed, bearer, context, touched>>

\* The account is read again at each request: its company is the one of now.
authenticateAdmin(f, b) ==
    LET crossing == bearer[b].kind = "super" /\ bearer[b].company = NoFirm IN
    /\ FlightAt(f, "guard") /\ flight[f].door = "admin" /\ bearer[b].kind # "device"
    /\ bearer[b].active /\ (crossing \/ bearer[b].company # NoFirm)
    /\ flight' = [flight EXCEPT ![f].pc = "route", ![f].company = bearer[b].company]
    /\ Adopt(f, [store |-> TRUE, company |-> bearer[b].company, cross |-> crossing])
    /\ UNCHANGED <<owner, listed, bearer, touched>>

authenticateDevice(f, b) ==
    /\ FlightAt(f, "guard") /\ flight[f].door = "device" /\ bearer[b].kind = "device"
    /\ bearer[b].active
    /\ flight' = [flight EXCEPT ![f].pc = "route", ![f].company = bearer[b].company]
    /\ Adopt(f, [store |-> TRUE, company |-> bearer[b].company, cross |-> FALSE])
    /\ UNCHANGED <<owner, listed, bearer, touched>>

\* A token that is refused, an account out of order or of no company.
refuse(f) == FlightAt(f, "guard") /\ flight[f].door # "public" /\ Land(f)

-----------------------------------------------------------------------------
(* createTenantExtension *)

Unfiltered(f) == ~context[f].store \/ context[f].cross

\* mergeWhere: the rows of the company of the context.  A model that is not listed is
\* filtered by its service, on the company of req.admin (requireCompany).
mergeWhere(f, wanted) ==
    {r \in wanted : owner[r] \in Firms /\
        IF r \notin listed THEN owner[r] = flight[f].company
        ELSE Unfiltered(f) \/ owner[r] = context[f].company}

\* A listed model without a company, an unlisted one without requireCompany.
Thrown(f, r) ==
    IF r \in listed THEN ~Unfiltered(f) /\ context[f].company = NoFirm
    ELSE flight[f].company = NoFirm

Touch(f, some) == touched' = [touched EXCEPT ![f] = @ \cup {owner[r] : r \in some}]

\* findMany, count, updateMany, and findUnique rewritten in findFirst.
findMany(f, wanted) ==
    /\ FlightAt(f, "route")
    /\ \A r \in wanted : ~Thrown(f, r)
    /\ Touch(f, mergeWhere(f, wanted))
    /\ UNCHANGED <<owner, listed, bearer, flight, context>>

\* update and delete: the row is looked for in the company first.
findOwned(f, r) ==
    /\ FlightAt(f, "route") /\ r \in mergeWhere(f, {r})
    /\ flight' = [flight EXCEPT ![f].pc = "owned", ![f].row = r]
    /\ UNCHANGED <<owner, listed, bearer, context, touched>>

\* Then by its key alone; the row may have gone.
update(f) ==
    /\ FlightAt(f, "owned")
    /\ Touch(f, {r \in {flight[f].row} : owner[r] \in Firms})
    /\ flight' = [flight EXCEPT ![f].pc = "route", ![f].row = NoFirm]
    /\ UNCHANGED <<owner, listed, bearer, context>>

delete(f) ==
    /\ FlightAt(f, "owned")
    /\ Touch(f, {r \in {flight[f].row} : owner[r] \in Firms})
    /\ owner' = [owner EXCEPT ![flight[f].row] = Deleted]
    /\ flight' = [flight EXCEPT ![f].pc = "route", ![f].row = NoFirm]
    /\ UNCHANGED <<listed, bearer, context>>

\* injectCompanyOnCreate: the company of the context, unless another one was given.
Given(f, r, stated) ==
    IF r \notin listed THEN flight[f].company
    ELSE IF Unfiltered(f) THEN stated ELSE context[f].company

create(f, r, stated) ==
    /\ FlightAt(f, "route") /\ owner[r] = NoFirm /\ ~Thrown(f, r)
    /\ r \in listed /\ ~Unfiltered(f) => stated \in {NoFirm, context[f].company}
    /\ Given(f, r, stated) # NoFirm
    /\ owner' = [owner EXCEPT ![r] = Given(f, r, stated)]
    /\ touched' = [touched EXCEPT ![f] = @ \cup {Given(f, r, stated)}]
    /\ UNCHANGED <<listed, bearer, flight, context>>

\* The end, or TenantIsolationError: no company, a row of another, upsert.
endRequest(f) == FlightAt(f, "route") /\ Land(f)

\* External: an administrator changes company (Trajelys) or leaves.
moveBearer(b, c) ==
    /\ bearer[b].kind = "admin"
    /\ bearer' = [bearer EXCEPT ![b].company = c]
    /\ UNCHANGED <<owner, listed, flight, context, touched>>
excludeBearer(b) ==
    /\ bearer' = [bearer EXCEPT ![b].active = FALSE]
    /\ UNCHANGED <<owner, listed, flight, context, touched>>

-----------------------------------------------------------------------------
FlightStep(f) ==
    \/ \E door \in HttpDoors : OpenRequest(f, door)
    \/ OpenJob(f) \/ canActivate(f) \/ refuse(f)
    \/ \E b \in Bearers : authenticateAdmin(f, b) \/ authenticateDevice(f, b)
    \/ \E wanted \in SUBSET Records : findMany(f, wanted)
    \/ \E r \in Records : findOwned(f, r) \/ \E c \in Owners : create(f, r, c)
    \/ update(f) \/ delete(f) \/ endRequest(f)

IsolationNext ==
    \/ \E f \in Flights : FlightStep(f)
    \/ \E b \in Bearers : excludeBearer(b) \/ \E c \in Firms : moveBearer(b, c)

IsolationSpec == IsolationInit /\ [][IsolationNext]_isolationVars

-----------------------------------------------------------------------------
Crossing(f) == flight[f].door = "job" \/ (flight[f].door = "admin" /\ flight[f].company = NoFirm)

(* A request reads and writes rows of the company its bearer had when the guard let it  *)
(* in, and of no other, whatever other requests do between its queries; a request       *)
(* without a company touches nothing (tenant-extension.ts:8-14, access.guard.ts:42-44). *)
Isolated ==
    \A f \in Flights : Crossing(f) \/ touched[f] \subseteq ({flight[f].company} \ {NoFirm})

\* A request that is let in carries its company in its own context, is filtered unless
\* it crosses the companies, and writes by its key only a row that was of its company.
ContextAgrees ==
    \A f \in Flights :
        /\ flight[f].pc \in {"idle", "guard"} =>
              flight[f].company = NoFirm /\ touched[f] = {}
        /\ flight[f].pc = "guard" => flight[f].door # "job" /\ ~context[f].cross
        /\ flight[f].pc # "idle" =>
              context[f].store /\ context[f].company = flight[f].company
        /\ flight[f].pc \in {"route", "owned"} => (context[f].cross <=> Crossing(f))
        /\ flight[f].pc = "owned" =>
              /\ flight[f].row \in Records /\ owner[flight[f].row] # NoFirm
              /\ Crossing(f) \/ owner[flight[f].row] \in {flight[f].company, Deleted}

\* Types, and the isolation of the companies.
IsolationInv == IsolationTypeOK /\ ContextAgrees /\ Isolated
=============================================================================
