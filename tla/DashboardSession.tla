-------------------------- MODULE DashboardSession --------------------------
(***************************************************************************)
(* The session of an administrator in the browser: two cookies it cannot   *)
(* read, a gateway that adds the access token to each request and rotates  *)
(* it when it has run out, and the refresh tokens of the server, in        *)
(* families.  The page sends several requests at once; each carries the    *)
(* cookies as they were when it left.                                      *)
(***************************************************************************)
EXTENDS AdminLogin

CONSTANTS
    Grants,         \* rows of `admin_refresh_tokens`
    Pages,          \* requests of the page under way at once
    Mishaps         \* faults: "lost", "error", "age"

VARIABLES
    allowed,    \* the administrator is active
    grant,      \* rows of `admin_refresh_tokens`
    spent,      \* grants whose access token has run out
    jar,        \* the cookies
    page,       \* where each request is
    exit,       \* the logout
    left        \* history: what may have ended the session since the login

dashboardVars == <<allowed, grant, spent, jar, page, exit, left>>

Nil == "none"

ASSUME DashboardAssumption == Nil \notin Grants

NoGrant == [family |-> Nil]
Still == [pc |-> "idle"]
Empty == [access |-> Nil, refresh |-> Nil]

Cookies == [access : Grants \cup {Nil}, refresh : Grants \cup {Nil}]
Rotation == {"rotate", "revoke", "use", "issue", "replay", "reply", "refused"}

PageState ==
    {Still} \cup
    [pc : {"forward", "served", "rotate", "revoke", "use", "issue", "refused"},
     had : Cookies, barred : BOOLEAN] \cup
    [pc : {"replay", "reply", "served"}, had : Cookies, barred : BOOLEAN, new : Grants]

DashboardTypeOK ==
    /\ allowed \in BOOLEAN
    /\ grant \in [Grants -> {NoGrant} \cup
           [family : Grants, used : BOOLEAN, revoked : BOOLEAN, aged : BOOLEAN]]
    /\ spent \subseteq Grants /\ jar \in Cookies
    /\ page \in [Pages -> PageState]
    /\ exit \in {"no", "revoked", "done"}
    /\ left \subseteq {"new", "logout", "excluded", "aged", "overlap", "lost", "error"}

DashboardInit ==
    /\ allowed = TRUE /\ grant = [g \in Grants |-> NoGrant] /\ spent = {}
    /\ jar = Empty /\ page = [p \in Pages |-> Still]
    /\ exit = "no" /\ left = {"new"}

Turn(p, s) == page' = [page EXCEPT ![p] = s]
Kin(g) == {h \in Grants : grant[h].family = grant[g].family}
InForce(g) == ~grant[g].used /\ ~grant[g].revoked
Unused == {g \in Grants : grant[g] = NoGrant}

\* The next row: which one it is changes nothing.
NextRow(g) == Unused # {} /\ g = CHOOSE h \in Unused : TRUE
NewGrant(family) == [family |-> family, used |-> FALSE, revoked |-> FALSE, aged |-> FALSE]
Revoked(gs) == [g \in Grants |-> IF g \in gs THEN [grant[g] EXCEPT !.revoked = TRUE] ELSE grant[g]]

\* authenticateAdmin: the signature and the age, then the row of the administrator.
Lets(g) == g # Nil /\ g \notin spent /\ allowed

-----------------------------------------------------------------------------
(* Login and logout: api/auth/login, sso, api/auth/logout *)

\* Requests of the session before may still be under way.  Bound: Grants.
SignIn ==
    /\ jar.refresh = Nil /\ allowed
    /\ \E g \in Unused :
           /\ NextRow(g)
           /\ grant' = [grant EXCEPT ![g] = NewGrant(g)]
           /\ jar' = [access |-> g, refresh |-> g]
    /\ exit' = "no"
    /\ left' = IF \E p \in Pages : page[p] # Still THEN {"overlap"} ELSE {}
    /\ UNCHANGED <<allowed, spent, page>>

\* The family is revoked on the server; one the server does not answer for is not.
LogoutRevoke ==
    /\ exit = "no" /\ jar.refresh # Nil
    /\ \/ grant' = Revoked(Kin(jar.refresh))
       \/ "error" \in Mishaps /\ UNCHANGED grant
    /\ exit' = "revoked" /\ left' = left \cup {"logout"}
    /\ UNCHANGED <<allowed, spent, jar, page>>

LogoutClear ==
    /\ exit = "revoked"
    /\ exit' = "done" /\ jar' = Empty
    /\ UNCHANGED <<allowed, grant, spent, page, left>>

-----------------------------------------------------------------------------
(* The gateway: api/proxy/[...path]/route.ts *)

\* A request that leaves without cookies is answered 401 at once.
Ask(p) ==
    /\ page[p] = Still /\ jar # Empty
    /\ Turn(p, [pc |-> IF jar.access = Nil THEN "rotate" ELSE "forward", had |-> jar,
                barred |-> ~allowed])
    /\ UNCHANGED <<allowed, grant, spent, jar, exit, left>>

\* A 401 of the API is answered as it is when there is nothing to rotate.
Forward(p) ==
    /\ page[p].pc = "forward"
    /\ Turn(p, IF Lets(page[p].had.access) THEN [page[p] EXCEPT !.pc = "served"]
               ELSE IF page[p].had.refresh = Nil THEN Still
               ELSE [pc |-> "rotate", had |-> [page[p].had EXCEPT !.access = Nil],
                     barred |-> page[p].barred])
    /\ UNCHANGED <<allowed, grant, spent, jar, exit, left>>

Rotated(p) == "new" \in DOMAIN page[p]

\* The pages that wait for an answer; those that rotate; the tokens in use.
Busy == {p \in Pages : page[p] # Still}
Turning(p) == page[p].pc \in {"use", "issue"} \/ Rotated(p)
Current == ({jar.refresh} \cup {page[p].had.refresh : p \in Busy}) \ {Nil}

\* The same refresh token is being rotated, or has been since the request left.
Overlaps(p) == \/ page[p].had.refresh # jar.refresh
               \/ \E q \in Pages \ {p} : /\ page[q].pc \in Rotation \/ Rotated(q)
                                         /\ page[q].had.refresh = page[p].had.refresh

\* refresh: the row and its administrator are read.
ReadGrant(p) ==
    /\ page[p].pc = "rotate"
    /\ LET g == grant[page[p].had.refresh]
       IN  Turn(p, [page[p] EXCEPT !.pc = IF g.used \/ g.revoked THEN "revoke"
                                          ELSE IF g.aged \/ ~allowed THEN "refused" ELSE "use"])
    /\ left' = left \cup (IF Overlaps(p) THEN {"overlap"} ELSE {})
    /\ UNCHANGED <<allowed, grant, spent, jar, exit>>

RevokeKin(p) ==
    /\ page[p].pc = "revoke"
    /\ grant' = Revoked(Kin(page[p].had.refresh))
    /\ Turn(p, [page[p] EXCEPT !.pc = "refused"])
    /\ UNCHANGED <<allowed, spent, jar, exit, left>>

\* Mutant: the token that was rotated still serves.
UseGrantUnmarked(p) ==
    /\ page[p].pc = "use"
    /\ Turn(p, [page[p] EXCEPT !.pc = "issue"])
    /\ UNCHANGED <<allowed, grant, spent, jar, exit, left>>

\* usedAt, whatever has become of the row.
UseGrant(p) ==
    /\ page[p].pc = "use"
    /\ grant' = [grant EXCEPT ![page[p].had.refresh].used = TRUE]
    /\ Turn(p, [page[p] EXCEPT !.pc = "issue"])
    /\ UNCHANGED <<allowed, spent, jar, exit, left>>

\* issueTokens, in the family.  Bound: Grants.
IssueGrant(p) ==
    /\ page[p].pc = "issue"
    /\ \E g \in Unused :
           /\ NextRow(g)
           /\ grant' = [grant EXCEPT ![g] = NewGrant(grant[page[p].had.refresh].family)]
           /\ Turn(p, [pc |-> "replay", had |-> page[p].had, barred |-> page[p].barred, new |-> g])
    /\ UNCHANGED <<allowed, spent, jar, exit, left>>

\* The request is made again, once; its answer is relayed whatever it is.
Replay(p) ==
    /\ page[p].pc = "replay"
    /\ Turn(p, [page[p] EXCEPT !.pc = IF Lets(page[p].new) THEN "served" ELSE "reply"])
    /\ UNCHANGED <<allowed, grant, spent, jar, exit, left>>

\* The answer, with the cookies of a rotation.
Relay(p) ==
    /\ page[p].pc \in {"served", "reply"}
    /\ jar' = IF Rotated(p) THEN [access |-> page[p].new, refresh |-> page[p].new] ELSE jar
    /\ Turn(p, Still)
    /\ UNCHANGED <<allowed, grant, spent, exit, left>>

\* 401: the cookies are deleted, the page goes to /login.
Refuse(p) ==
    /\ page[p].pc = "refused"
    /\ jar' = Empty
    /\ Turn(p, Still)
    /\ UNCHANGED <<allowed, grant, spent, exit, left>>

-----------------------------------------------------------------------------
(* Faults, and time *)

\* The page is left, or the network lost: the answer and its cookies reach nobody.
LoseReply(p) ==
    /\ "lost" \in Mishaps /\ page[p].pc \in {"served", "reply", "refused"}
    /\ Turn(p, Still)
    /\ left' = left \cup {"lost"}
    /\ UNCHANGED <<allowed, grant, spent, jar, exit>>

\* Any answer to the rotation that is not a success is taken for a refusal.
RotationFails(p) ==
    /\ "error" \in Mishaps /\ page[p].pc = "rotate"
    /\ Turn(p, [page[p] EXCEPT !.pc = "refused"])
    /\ left' = left \cup {"error"}
    /\ UNCHANGED <<allowed, grant, spent, jar, exit>>

\* The cookie lives as long as the token.
AccessRunsOut(g) ==
    /\ g = jar.access
    /\ spent' = spent \cup {g} /\ jar' = [jar EXCEPT !.access = Nil]
    /\ UNCHANGED <<allowed, grant, page, exit, left>>

\* Seven days.
GrantAges(g) ==
    /\ "age" \in Mishaps /\ g = jar.refresh /\ ~grant[g].aged
    /\ grant' = [grant EXCEPT ![g].aged = TRUE]
    /\ left' = left \cup {"aged"}
    /\ UNCHANGED <<allowed, spent, jar, page, exit>>

\* The account is made inactive, outside this API.
ExcludeAdmin ==
    /\ allowed /\ allowed' = FALSE
    /\ left' = left \cup {"excluded"}
    /\ UNCHANGED <<grant, spent, jar, page, exit>>

-----------------------------------------------------------------------------

DashboardNext ==
    \/ SignIn \/ LogoutRevoke \/ LogoutClear \/ ExcludeAdmin
    \/ \E p \in Pages :
           \/ Ask(p) \/ Forward(p) \/ ReadGrant(p) \/ RevokeKin(p) \/ UseGrant(p) \/ IssueGrant(p)
           \/ Replay(p) \/ Relay(p) \/ Refuse(p) \/ LoseReply(p) \/ RotationFails(p)
    \/ \E g \in Grants : AccessRunsOut(g) \/ GrantAges(g)

DashboardSpec == DashboardInit /\ [][DashboardNext]_dashboardVars

-----------------------------------------------------------------------------
(* Properties *)

\* The requests of a page that do not rotate the same token do not sign its
\* administrator out: the cookies go only after a logout, an exclusion, a week, an
\* answer that was lost, an error of the server, or rotations that overlap (two of the
\* same token, or one of the session before).
SignedOutForCause == jar.refresh = Nil => left # {}

\* The family of the browser's token has one token in force at most, unless two rotations
\* overlap.  (Of the families left before a login this is not said: rotations may have
\* overlapped in them.)
OneGrantInForce ==
    "overlap" \notin left /\ jar.refresh # Nil =>
        \A g, h \in Kin(jar.refresh) : InForce(g) /\ InForce(h) => g = h

\* An administrator excluded before a request left is not served by it, though the
\* access token lives on for some minutes and may be rotated.
ExcludedNotServed ==
    \A p \in Pages : page[p].pc = "served" => ~page[p].barred

\* What each request carries exists, in one family from its token to the new one.
GrantsAgree ==
    /\ jar.refresh = Nil => jar = Empty
    /\ \A g \in Grants : grant[g] # NoGrant => grant[grant[g].family] # NoGrant
    /\ \A p \in Busy : page[p].had.refresh # Nil
    /\ \A g \in Current : grant[g] # NoGrant
    /\ \A p \in Pages : Rotated(p) =>
           /\ grant[page[p].new] # NoGrant
           /\ grant[page[p].new].family = grant[page[p].had.refresh].family
    /\ exit = "revoked" => "logout" \in left

\* Unless rotations overlap, one request rotates the token of the cookies, and the family
\* has a token in force before it is marked and after the new one is drawn, not between.
RotationsAgree ==
    "overlap" \notin left =>
        /\ \A p, q \in Pages : Turning(p) /\ Turning(q) => p = q
        /\ \A p \in Pages : Turning(p) => page[p].had.refresh = jar.refresh \/ jar.refresh = Nil
        /\ \A c, d \in Current : grant[c].family = grant[d].family
        /\ \A c \in Current : \A g, h \in Kin(c) : InForce(g) /\ InForce(h) => g = h
        /\ \A p \in Pages : page[p].pc = "use" =>
               \A g \in Kin(page[p].had.refresh) : InForce(g) => g = page[p].had.refresh
        /\ \A p \in Pages : page[p].pc = "issue" =>
               \A g \in Kin(page[p].had.refresh) : ~InForce(g)

\* As long as nothing may have ended the session, its token serves, or is being rotated.
SessionStands ==
    left = {} =>
        /\ jar.refresh # Nil /\ allowed
        /\ ~grant[jar.refresh].revoked /\ ~grant[jar.refresh].aged
        /\ grant[jar.refresh].used =>
               \E p \in Pages : /\ page[p].pc = "issue" \/ Rotated(p)
                               /\ page[p].had.refresh = jar.refresh
        /\ \A p \in Pages : page[p].pc \notin {"revoke", "refused"}
        /\ \A p \in Pages : Rotated(p) =>
               InForce(page[p].new) /\ ~grant[page[p].new].aged

BarredStays == \A p \in Busy : page[p].barred => ~allowed

DashboardInv == /\ DashboardTypeOK /\ GrantsAgree /\ RotationsAgree /\ SessionStands
                /\ BarredStays /\ SignedOutForCause /\ OneGrantInForce /\ ExcludedNotServed

\* Who comes in, and stays: a code opens once, failures lock, requests of a page that do
\* not overlap do not sign out, an excluded administrator is not served.
AccessInv == LoginInv /\ DashboardInv

-----------------------------------------------------------------------------
(* Expected of the code, and not held by it *)

\* "Le proxy a déjà tenté la rotation : un 401 ici signifie que la session est
\* réellement terminée": of two requests that rotate the same token, one is refused
\* while the other gets a new one.
RefusedMeansOver ==
    \A p \in Pages :
        page[p].pc = "refused" /\ allowed =>
            \A g \in Kin(page[p].had.refresh) : InForce(g) => grant[g].aged

\* After a logout the browser holds no cookie until the next login: a rotation under
\* way brings them back, and its token, drawn after the revocation, is in force.
LogoutIsFinal == exit = "done" => jar.refresh = Nil
=============================================================================
