---------------------------- MODULE TrajelysLink ----------------------------
(***************************************************************************)
(* The link between the accounts of Trajelys and the companies: an account *)
(* that buys the option gets its company, found or created, an operator    *)
(* cuts or moves a link, and the bearer of the account comes in as         *)
(* administrator.  Every request reads first and writes later.  Nothing in *)
(* the server deletes a company (deletedAt is written by hand only), so    *)
(* none is deleted here.                                                   *)
(***************************************************************************)
EXTENDS Integers, FiniteSets

CONSTANTS
    Accounts,       \* accounts of Trajelys, all of one trade name
    Companies,      \* companies that may exist
    Calls,          \* provisioning requests of one account handled at once
    Desks,          \* requests of operators handled at once
    Visits,         \* connections handled at once
    Tries,          \* suffixes that slugLibre tries
    MaxDecisions    \* bound of the decisions of the operator

VARIABLES
    slug,       \* companies.slug of each company, 0 before it exists
    link,       \* companies.trajelysUserId
    call,       \* where each provisioning request is
    decision,   \* the requests of the operators
    decisions,
    resident,   \* admins.companyId of the administrator born of each account
    visit,      \* the connections, from the account resolved to the tokens issued
    entries,    \* the live sessions of these administrators
    answered    \* history: the companies given to each account since its link was
                \* last decided by hand

linkVars == <<slug, link, call, decision, decisions, resident, visit, entries, answered>>

Free == "none"

ASSUME LinkAssumption ==
    /\ IsFiniteSet(Companies) /\ IsFiniteSet(Calls)
    /\ MaxDecisions \in Nat /\ Tries \in Nat \ {0}
    /\ Free \notin Accounts

Asleep == [pc |-> "idle"]
Slugs == 1 .. Cardinality(Companies) + 1
Requests == Accounts \X Calls
Entries == [account : Accounts, company : Companies, found : Companies, late : BOOLEAN]

LinkTypeOK ==
    /\ slug \in [Companies -> 0 .. Cardinality(Companies) + 1]
    /\ link \in [Companies -> Accounts \cup {Free}]
    /\ call \in [Requests -> {Asleep} \cup [pc : {"slug", "insert", "reread"}, slug : Slugs]]
    /\ decision \in [Desks -> {Asleep} \cup
           [pc : {"write", "revoke"}, company : Companies, before : Accounts \cup {Free},
            to : Accounts \cup {Free}]]
    /\ decisions \in 0..MaxDecisions
    /\ resident \in [Accounts -> Companies \cup {Free}]
    /\ visit \in [Visits -> {Asleep} \cup [pc : {"open"}, account : Accounts, found : Companies]]
    /\ entries \subseteq Entries
    /\ answered \in [Accounts -> SUBSET Companies]

Exists(c) == slug[c] # 0
CompanyOf(a) == {c \in Companies : link[c] = a}
Linked(a) == CompanyOf(a) # {}

LinkInit ==
    /\ slug = [c \in Companies |-> 0] /\ link = [c \in Companies |-> Free]
    /\ call = [p \in Requests |-> Asleep]
    /\ decision = [k \in Desks |-> Asleep] /\ decisions = 0
    /\ resident = [a \in Accounts |-> Free]
    /\ visit = [v \in Visits |-> Asleep] /\ entries = {}
    /\ answered = [a \in Accounts |-> {}]

linkDecided == <<decision, decisions, resident, visit, entries>>

-----------------------------------------------------------------------------
(* provisionner and slugLibre *)

Rest(p) == call' = [call EXCEPT ![p] = Asleep]
Give(p) ==
    /\ Rest(p)
    /\ answered' = [answered EXCEPT ![p[1]] = @ \cup CompanyOf(p[1])]
    /\ UNCHANGED <<slug, link, linkDecided>>

\* The company of the account, if it has one; a free slug is looked for otherwise.
provisionner(p) ==
    /\ call[p] = Asleep
    /\ IF Linked(p[1]) THEN Give(p)
       ELSE /\ call' = [call EXCEPT ![p] = [pc |-> "slug", slug |-> 1]]
            /\ UNCHANGED <<slug, link, linkDecided, answered>>

SlugTaken(n) == \E c \in Companies : slug[c] = n
NoSlugLeft == \A n \in 1..Tries : SlugTaken(n)

\* Mutant: the suffix does not advance.
slugLibreFixed(p) ==
    /\ call[p].pc = "slug"
    /\ call' = [call EXCEPT ![p].pc = "insert"]
    /\ UNCHANGED <<slug, link, linkDecided, answered>>

\* One read by suffix; the call fails after the last one.
slugLibre(p) ==
    /\ call[p].pc = "slug"
    /\ \/ ~SlugTaken(call[p].slug) /\ call' = [call EXCEPT ![p].pc = "insert"]
       \/ /\ SlugTaken(call[p].slug) /\ call[p].slug < Tries
          /\ call' = [call EXCEPT ![p].slug = @ + 1]
       \/ SlugTaken(call[p].slug) /\ call[p].slug >= Tries /\ Rest(p)
    /\ UNCHANGED <<slug, link, linkDecided, answered>>

Created(p, c) ==
    /\ ~Exists(c)
    /\ slug' = [slug EXCEPT ![c] = call[p].slug]
    /\ link' = [link EXCEPT ![c] = p[1]]
    /\ answered' = [answered EXCEPT ![p[1]] = @ \cup {c}]
    /\ Rest(p)
Conflict(p) ==
    /\ call' = [call EXCEPT ![p].pc = "reread"]
    /\ UNCHANGED <<slug, link, answered>>

\* The transaction: slug and account are unique, a conflict leads to the reread.
\* Bound: Companies.
Insert(p) ==
    /\ call[p].pc = "insert"
    /\ IF SlugTaken(call[p].slug) \/ Linked(p[1]) THEN Conflict(p)
       ELSE \E c \in Companies : Created(p, c)
    /\ UNCHANGED linkDecided

\* The concurrent request won the account, or only the slug: then the call fails.
Reread(p) ==
    /\ call[p].pc = "reread"
    /\ IF Linked(p[1]) THEN Give(p)
       ELSE Rest(p) /\ UNCHANGED <<slug, link, linkDecided, answered>>

-----------------------------------------------------------------------------
(* companies.controller: create, rattacherTrajelys *)

linkGiven == <<call, resident, visit>>

\* Bound: MaxDecisions, here and for the links.
CreateCompany(c) ==
    /\ decisions < MaxDecisions /\ ~Exists(c)
    /\ \E n \in Slugs : ~SlugTaken(n) /\ slug' = [slug EXCEPT ![c] = n]
    /\ decisions' = decisions + 1
    /\ UNCHANGED <<link, decision, entries, answered, linkGiven>>

Vacant(to, c) == to = Free \/ CompanyOf(to) \subseteq {c}

\* The row before, and a check that no other company holds the account.
DecideLink(k, c, to) ==
    /\ decision[k] = Asleep /\ decisions < MaxDecisions /\ Exists(c)
    /\ Vacant(to, c)
    /\ decision' = [decision EXCEPT ![k] =
                       [pc |-> "write", company |-> c, before |-> link[c], to |-> to]]
    /\ decisions' = decisions + 1
    /\ UNCHANGED <<slug, link, entries, answered, linkGiven>>

\* The update, or the end of the request when the account was taken meanwhile.
Relink(k, revokes) ==
    LET d == decision[k] IN
    /\ d.pc = "write"
    /\ IF Vacant(d.to, d.company)
       THEN /\ link' = [link EXCEPT ![d.company] = d.to]
            /\ answered' = [a \in Accounts |->
                               IF a \in {d.to, link[d.company]} THEN {} ELSE answered[a]]
            /\ decision' = [decision EXCEPT ![k] =
                               IF revokes THEN [d EXCEPT !.pc = "revoke"] ELSE Asleep]
       ELSE /\ decision' = [decision EXCEPT ![k] = Asleep]
            /\ UNCHANGED <<link, answered>>
    /\ UNCHANGED <<slug, decisions, entries, linkGiven>>

\* Mutant: only a link that is cut revokes, not one that changes hands.
WriteLinkCut(k) == Relink(k, decision[k].before # Free /\ decision[k].to = Free)

\* The sessions go if the link that was read is not the one that is written.
WriteLink(k) == Relink(k, decision[k].before # Free /\ decision[k].to # decision[k].before)

\* The tokens of the administrators born of a link, in this company.
RevokeEntries(k) ==
    /\ decision[k].pc = "revoke"
    /\ entries' = {e \in entries : e.company # decision[k].company}
    /\ decision' = [decision EXCEPT ![k] = Asleep]
    /\ UNCHANGED <<slug, link, decisions, answered, linkGiven>>

-----------------------------------------------------------------------------
(* resoudreAdministrateurTrajelys and issueTokens: in with the company of the      *)
(* administrator, whatever the company that was found                               *)

ResolveVisit(v, a) ==
    /\ visit[v] = Asleep /\ Linked(a)
    /\ \E c \in CompanyOf(a) :
        /\ visit' = [visit EXCEPT ![v] = [pc |-> "open", account |-> a, found |-> c]]
        /\ resident' = IF resident[a] = Free THEN [resident EXCEPT ![a] = c] ELSE resident
    /\ UNCHANGED <<slug, link, call, decision, decisions, entries, answered>>

OpenEntry(v) ==
    /\ visit[v].pc = "open"
    /\ LET a == visit[v].account IN
       entries' = entries \cup {[account |-> a, company |-> resident[a], found |-> visit[v].found,
                                 late |-> link[resident[a]] # a]}
    /\ visit' = [visit EXCEPT ![v] = Asleep]
    /\ UNCHANGED <<slug, link, call, decision, decisions, resident, answered>>

\* A code that is not exchanged in time, a refresh token that ends.
GiveUpVisit(v) ==
    /\ visit[v].pc = "open"
    /\ visit' = [visit EXCEPT ![v] = Asleep]
    /\ UNCHANGED <<slug, link, call, decision, decisions, resident, entries, answered>>

-----------------------------------------------------------------------------

ProvisionStep(p) == slugLibre(p) \/ Insert(p) \/ Reread(p)

LinkNext ==
    \/ \E p \in Requests : provisionner(p) \/ ProvisionStep(p)
    \/ \E c \in Companies :
           CreateCompany(c) \/ \E k \in Desks, to \in Accounts \cup {Free} : DecideLink(k, c, to)
    \/ \E k \in Desks : WriteLink(k) \/ RevokeEntries(k)
    \/ \E v \in Visits : (\E a \in Accounts : ResolveVisit(v, a)) \/ OpenEntry(v) \/ GiveUpVisit(v)

LinkSpec == LinkInit /\ [][LinkNext]_linkVars

\* A request that began ends, and Trajelys asks again at each click of its client.
LinkFairness ==
    \A p \in Requests : WF_linkVars(provisionner(p)) /\ WF_linkVars(ProvisionStep(p))
LinkFairSpec == LinkSpec /\ LinkFairness

-----------------------------------------------------------------------------
(* Properties *)

\* Until an operator decides otherwise, an account is always given the same company,
\* however many of its requests run at once.
SameCompany == \A a \in Accounts : Cardinality(answered[a]) <= 1

\* A link that is cut, or changes hands, takes with it the sessions it opened; those
\* that are being opened at that moment are another matter.
CutEndsEntries ==
    \A e \in entries :
        \/ link[e.company] = e.account \/ e.late
        \/ \E k \in Desks : decision[k].pc = "revoke" /\ decision[k].company = e.company

\* What the answers rest on: one company holds an account at most, none before it exists,
\* and an account was answered the company it has.
AnswersAgree ==
    /\ \A c, d \in Companies : link[c] = link[d] /\ link[c] # Free => c = d
    /\ \A c \in Companies : ~Exists(c) => link[c] = Free
    /\ \A a \in Accounts : answered[a] \subseteq CompanyOf(a)

\* Every slug a request has passed is taken for ever: it ends below the number of
\* companies and one.
SlugsTried ==
    \A p \in Requests : call[p] # Asleep =>
        \A n \in 1 .. call[p].slug - 1 : SlugTaken(n)

\* A decision under way concerns a company that exists, whose link is the one it read; a
\* connection under way has its administrator.
DecisionsAgree ==
    /\ \A k \in Desks : decision[k] # Asleep =>
          /\ Exists(decision[k].company)
          /\ decision[k].pc = "write" => link[decision[k].company] = decision[k].before
    /\ \A v \in Visits : visit[v] # Asleep => resident[visit[v].account] \in Companies

\* An account that keeps asking gets its company, though others take the slug it chose,
\* while one of the names that slugLibre tries is free.
AccountServed == \A a \in Accounts : []<>(Linked(a) \/ NoSlugLeft)

\* One company by account, no entry left by a link that was cut, and what both rest on.
LinkInv ==
    /\ LinkTypeOK /\ AnswersAgree /\ SlugsTried /\ DecisionsAgree
    /\ SameCompany /\ CutEndsEntries

-----------------------------------------------------------------------------
(* Expected of the code, and not held by it *)

\* The bearer of the account comes in the company the account is attached to.
EntersCompanyFound == \A e \in entries : e.company = e.found

\* No session opens once the link is cut.
NoLateEntry == \A e \in entries : ~e.late
=============================================================================
