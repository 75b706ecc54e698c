---------------------------- MODULE Commissioning ----------------------------
(***************************************************************************)
(* Putting phones into service: the workshop tool (pcprov batch) and the   *)
(* page of the dashboard.  Both issue one enrolment token by phone and     *)
(* print it as a label.  The tool lists the phones page by page while      *)
(* others create some; the page rotates the tokens of its own session on   *)
(* the way.  First the content of a label, the QR code: how it is built    *)
(* from the profile of the deployment, what the check before the campaign  *)
(* refuses, and what a phone needs of it.  A profile is the one of the     *)
(* schema, then of the environment, which nothing checks again.            *)
(***************************************************************************)
EXTENDS Integers, Sequences, FiniteSets

CONSTANTS
    Tags,           \* asset tags, in their order
    PageSize,       \* PAGE_SIZE
    MaxTokens,      \* bound of the enrolment tokens
    MaxExpiries     \* bound of the expiries of an access token

VARIABLES
    profile,    \* the configuration of both
    declared,   \* the phones the server knows
    issued,     \* the asset tag of each enrolment token issued
    campaign,   \* the run of the tool
    sheet,      \* the labels of its last sheet, with the list they were printed for
    form,       \* the request of the page
    shown,      \* the labels the page shows, with the phones they were asked for
    cookies,    \* of the browser: its refresh token, whether its access token lives
    newest,     \* the refresh token that has not been used
    open,       \* whether the session is in force
    expiries

toolVars == <<campaign, sheet>>
formVars == <<form, shown, cookies, newest, open, expiries>>
commissionVars == <<profile, declared, issued, campaign, sheet, form, shown,
                    cookies, newest, open, expiries>>

ASSUME CommissionAssumption ==
    /\ IsFiniteSet(Tags) /\ Tags \subseteq Nat
    /\ PageSize \in Nat \ {0} /\ MaxTokens \in Nat /\ MaxExpiries \in Nat

-----------------------------------------------------------------------------
(* The content of a label *)

QR_MAX_BYTES == 2953        \* version 40, level L
QR_COMFORT_BYTES == 1200

\* What each level of correction leaves to the content.
Capacity == [L |-> 2953, M |-> 2331, Q |-> 1663, H |-> 1273]

Securities == {"NONE", "WEP", "WPA", "EAP"}

\* "absent" where the field is; one size in bytes on each side of each threshold.
Profiles ==
    [component : {"ours", "another", "malformed"}, checksum : {"absent", "sha256", "padded"},
     download : {"absent", "https", "http", "garbled"}, allowInsecure : BOOLEAN,
     wifi : Securities \cup {"absent"}, wifiPassword : BOOLEAN,
     server : {"https", "http", "garbled"}, size : {900, 1250, 1500, 2000, 2600, 3000},
     level : DOMAIN Capacity]

\* The token of the API, and the dummy one, follow the pattern of the contract.
Tokens == {"issued", "dummy", "typed"}

buildPayload(p, token) ==
    [component |-> p.component, checksum |-> p.checksum, download |-> p.download,
     security |-> p.wifi, password |-> p.wifi # "absent" /\ p.wifiPassword,
     server |-> p.server, token |-> token, size |-> p.size]

When(condition, name) == IF condition THEN {name} ELSE {}

\* validateWifi and validateAdminExtras, what makes the provisioning impossible.
WifiErrors(c) == When(c.security \notin {"absent", "NONE"} /\ ~c.password, "wifi")
ExtrasErrors(c) == When(c.server = "garbled", "server")

\* validatePayload: an error stops the command, a warning is only shown.
Errors(c, allowInsecure) ==
    When(c.component # "ours", "component") \cup When(c.checksum # "sha256", "checksum")
    \cup When(c.download = "garbled" \/ (c.download = "http" /\ ~allowInsecure), "download")
    \cup WifiErrors(c) \cup ExtrasErrors(c) \cup When(c.size > QR_MAX_BYTES, "size")

Warnings(c) ==
    When(c.download = "absent", "nothing to download")
    \cup When(c.download = "http", "download in clear")
    \cup When(c.security = "EAP", "no certificate") \cup When(c.password, "password in clear")
    \cup When(c.server = "http", "server in clear") \cup When(c.token = "typed", "token")
    \cup When(c.size \in QR_COMFORT_BYTES + 1 .. QR_MAX_BYTES, "dense")

\* qrMatrix, renderSvg, renderPng: too large a content for the level throws.
Renders(size, level) == size <= Capacity[level]

\* What the phone needs, from the scan to its first call: Android joins the network,
\* downloads and checks the application, then its receiver hands over the token.
Joins(c) == c.security \in {"absent", "NONE"} \/ (c.security \in {"WEP", "WPA"} /\ c.password)
Installs(c, there) ==
    c.component = "ours" /\ (there \/ (c.checksum = "sha256" /\ c.download \in {"https", "http"}))
Enrols(c) == c.token = "issued" /\ c.server # "garbled"
Provisions(c, there) == Joins(c) /\ Installs(c, there) /\ Enrols(c)

-----------------------------------------------------------------------------
(* The campaign and the page *)

Labels == [tag : Tags, token : 1..MaxTokens]
Nobody == [pc |-> "idle"]
BlankForm == [for |-> {}, labels |-> {}]
Fleets == (SUBSET Tags) \ {{}}

Campaigns == {Nobody} \cup
    [pc : {"list"}, fleet : Fleets, known : SUBSET Tags, skip : Nat] \cup
    [pc : {"issue"}, fleet : Fleets, known : SUBSET Tags, left : SUBSET Tags, labels : SUBSET Labels]
Forms == {Nobody} \cup
    [pc : {"issue"}, for : Fleets, left : SUBSET Tags, labels : SUBSET Labels,
     access : BOOLEAN, rotated : Nat]

CommissionTypeOK ==
    /\ profile \in Profiles /\ declared \subseteq Tags
    /\ issued \in Seq(Tags) /\ Len(issued) <= MaxTokens
    /\ campaign \in Campaigns /\ form \in Forms
    /\ {sheet, shown} \subseteq [for : SUBSET Tags, labels : SUBSET Labels]
    /\ cookies \in [refresh : Nat, access : BOOLEAN]
    /\ newest \in Nat /\ open \in BOOLEAN /\ expiries \in 0..MaxExpiries

CommissionInit ==
    /\ profile \in Profiles /\ declared \in SUBSET Tags /\ issued = <<>>
    /\ campaign = Nobody /\ sheet = BlankForm
    /\ form = Nobody /\ shown = BlankForm
    /\ cookies = [refresh |-> 1, access |-> TRUE]
    /\ newest = 1 /\ open = TRUE /\ expiries = 0

\* createToken: a new token of a phone, beside those it has.
Issue(t) == Len(issued) < MaxTokens /\ issued' = Append(issued, t)
Label(t) == [tag |-> t, token |-> Len(issued) + 1]

\* checkConfigurationUpfront and the dry run of the page, with the dummy token.
Sound == Errors(buildPayload(profile, "dummy"), profile.allowInsecure) = {}

-----------------------------------------------------------------------------
(* The workshop tool: batch.ts and its client *)

\* runBatch, runDevice: the list has each tag once, the configuration is checked.
RunBatch(fleet) ==
    /\ campaign = Nobody /\ Sound
    /\ campaign' = [pc |-> "list", fleet |-> fleet, known |-> {}, skip |-> 0]
    /\ UNCHANGED <<profile, declared, issued, sheet, formVars>>

\* The phones of one page: those of rank skip + 1 and more.
Rank(t) == Cardinality({s \in declared : s <= t})
Page(skip) == {t \in declared : Rank(t) > skip /\ Rank(t) <= skip + PageSize}

\* listDevices: pages until one is empty or the total is reached.
ListDevices ==
    /\ campaign.pc = "list"
    /\ LET page == Page(campaign.skip)
           known == campaign.known \cup page
           skip == campaign.skip + Cardinality(page)
       IN  campaign' = IF page = {} \/ skip >= Cardinality(declared)
                       THEN [pc |-> "issue", fleet |-> campaign.fleet, known |-> known,
                             left |-> campaign.fleet, labels |-> {}]
                       ELSE [campaign EXCEPT !.known = known, !.skip = skip]
    /\ UNCHANGED <<profile, declared, issued, sheet, formVars>>

\* One row of the list: its phone is created if it was not seen, then a token.
IssueToken(t) ==
    /\ campaign.pc = "issue" /\ t \in campaign.left
    /\ t \in campaign.known \/ t \notin declared
    /\ Issue(t)
    /\ declared' = declared \cup {t}
    /\ campaign' = [campaign EXCEPT !.left = @ \ {t}, !.labels = @ \cup {Label(t)}]
    /\ UNCHANGED <<profile, sheet, formVars>>

\* Mutant: a row that fails is left out of the sheet.
CallFailsSkipping ==
    /\ campaign.pc = "issue"
    /\ \E t \in campaign.left : campaign' = [campaign EXCEPT !.left = @ \ {t}]
    /\ UNCHANGED <<profile, declared, issued, sheet, formVars>>

\* What a call of the row of t may have done when its answer is lost: a tag that is
\* declared without having been seen is a conflict (409) and does nothing.
Served(t) ==
    /\ t \in campaign.known \/ t \notin declared
    /\ declared' = declared \cup {t}
    /\ Issue(t) \/ UNCHANGED issued

\* A call fails, with or without its effect: the tool stops without a sheet.
CallFails ==
    /\ campaign.pc = "list" \/ (campaign.pc = "issue" /\ campaign.left # {})
    /\ \/ UNCHANGED <<declared, issued>>
       \/ /\ campaign.pc = "issue"
          /\ \E t \in campaign.left : Served(t)
    /\ campaign' = Nobody
    /\ UNCHANGED <<profile, sheet, formVars>>

\* writeArtifacts, once every row has its token.
WriteArtifacts ==
    /\ campaign.pc = "issue" /\ campaign.left = {}
    /\ Renders(profile.size, profile.level)
    /\ sheet' = [for |-> campaign.fleet, labels |-> campaign.labels]
    /\ campaign' = Nobody
    /\ UNCHANGED <<profile, declared, issued, formVars>>

\* The first QR code cannot be drawn: nothing is printed.
WriteFails ==
    /\ campaign.pc = "issue" /\ campaign.left = {}
    /\ ~Renders(profile.size, profile.level)
    /\ campaign' = Nobody
    /\ UNCHANGED <<profile, declared, issued, sheet, formVars>>

\* Somebody declares a phone meanwhile.
Declare(t) ==
    /\ t \notin declared
    /\ declared' = declared \cup {t}
    /\ UNCHANGED <<profile, issued, toolVars, formVars>>

-----------------------------------------------------------------------------
(* The page of the dashboard: app/api/provisioning/route.ts *)

\* POST: the configuration is checked before any call.
Generate(for) ==
    /\ form = Nobody /\ Sound
    /\ form' = [pc |-> "issue", for |-> for, left |-> for, labels |-> {},
                access |-> cookies.access, rotated |-> 0]
    /\ UNCHANGED <<profile, declared, issued, toolVars, shown, cookies, newest, open, expiries>>

\* UpstreamSession: the refresh token of the request is exchanged.
Rotate ==
    /\ form.pc = "issue" /\ ~form.access
    /\ open /\ cookies.refresh = newest
    /\ newest' = newest + 1
    /\ form' = [form EXCEPT !.access = TRUE, !.rotated = newest + 1]
    /\ UNCHANGED <<profile, declared, issued, toolVars, shown, cookies, open, expiries>>

\* It was used already: the family is revoked, the page answers 401.
Replayed ==
    /\ form.pc = "issue" /\ ~form.access
    /\ ~open \/ cookies.refresh # newest
    /\ open' = FALSE /\ form' = Nobody
    /\ UNCHANGED <<profile, declared, issued, toolVars, shown, cookies, newest, expiries>>

\* One phone of the request: its token, then its QR code at level M.
IssueLabel(t) ==
    /\ form.pc = "issue" /\ form.access /\ t \in form.left /\ t \in declared
    /\ Issue(t)
    /\ form' = IF Renders(profile.size, "M")
               THEN [form EXCEPT !.left = @ \ {t}, !.labels = @ \cup {Label(t)}]
               ELSE Nobody
    /\ UNCHANGED <<profile, declared, toolVars, shown, cookies, newest, open, expiries>>

\* A call fails, with or without its effect: the answer carries no cookie.
IssueFails ==
    /\ form.pc = "issue" /\ form.left # {}
    /\ \/ UNCHANGED <<issued, newest>>
       \/ form.access /\ UNCHANGED newest /\ \E t \in form.left \cap declared : Issue(t)
       \/ ~form.access /\ open /\ cookies.refresh = newest /\ newest' = newest + 1 /\ UNCHANGED issued
    /\ form' = Nobody
    /\ UNCHANGED <<profile, declared, toolVars, shown, cookies, open, expiries>>

\* The labels, and the cookies when the tokens were rotated.
AnswerLabels ==
    /\ form.pc = "issue" /\ form.left = {}
    /\ shown' = [for |-> form.for, labels |-> form.labels]
    /\ cookies' = IF form.rotated = 0 THEN cookies
                  ELSE [refresh |-> form.rotated, access |-> form.access]
    /\ form' = Nobody
    /\ UNCHANGED <<profile, declared, issued, toolVars, newest, open, expiries>>

AccessEnds ==
    /\ expiries < MaxExpiries
    /\ expiries' = expiries + 1
    /\ cookies' = [cookies EXCEPT !.access = FALSE]
    /\ form' = IF form = Nobody THEN form ELSE [form EXCEPT !.access = FALSE]
    /\ UNCHANGED <<profile, declared, issued, toolVars, shown, newest, open>>

-----------------------------------------------------------------------------

CommissionNext ==
    \/ \E fleet \in Fleets : RunBatch(fleet) \/ Generate(fleet)
    \/ \E t \in Tags : IssueToken(t) \/ Declare(t) \/ IssueLabel(t)
    \/ ListDevices \/ CallFails \/ WriteArtifacts \/ WriteFails
    \/ Rotate \/ Replayed \/ IssueFails \/ AnswerLabels \/ AccessEnds

CommissionSpec == CommissionInit /\ [][CommissionNext]_commissionVars

-----------------------------------------------------------------------------
(* Properties *)

Complete(s) ==
    /\ s.for = {l.tag : l \in s.labels}
    /\ \A l \in s.labels : issued[l.token] = l.tag
    /\ \A k, l \in s.labels : k.token = l.token => k = l

\* A sheet, or the page, shows a label for each phone it was asked for, and each
\* label carries a token of that phone, printed on no other.
LabelsComplete == Complete(sheet) /\ Complete(shown)

\* A configuration that is not valid costs no token.
ConfigurationFirst == ~Sound => issued = <<>>

\* A label provisions its phone, unless the operator was warned of the reason.
AcceptedProvisions ==
    LET content == buildPayload(profile, "issued") IN
    Sound /\ "no certificate" \notin Warnings(content) =>
        Provisions(content, "nothing to download" \in Warnings(content))

\* A page that has received its labels holds a refresh token that was never used,
\* however many times the session was renewed on the way.
RotationKept == [][shown' # shown => cookies'.refresh = newest']_commissionVars

\* Labels carry tokens that were issued for their phones, each its own.
Sown(labels, tokens) ==
    /\ \A l \in labels : l.token \in DOMAIN tokens /\ tokens[l.token] = l.tag
    /\ \A k, l \in labels : k.token = l.token => k = l

\* The phones of a request have their label, or are left.
Ongoing(for, left, labels, tokens) ==
    for = left \cup {l.tag : l \in labels} /\ Sown(labels, tokens)

RequestsAgree ==
    /\ campaign.pc = "issue" => Ongoing(campaign.fleet, campaign.left, campaign.labels, issued)
    /\ form.pc = "issue" => Ongoing(form.for, form.left, form.labels, issued)
    /\ Ongoing(sheet.for, {}, sheet.labels, issued) /\ Ongoing(shown.for, {}, shown.labels, issued)

\* Nothing runs, and nothing was issued, with a configuration that was refused.
CheckedFirst == campaign # Nobody \/ form # Nobody \/ issued # <<>> => Sound

\* An access token lives only beside the refresh token not yet used, and a request that
\* rotated holds it.
CookiesAgree ==
    /\ cookies.access => cookies.refresh = newest
    /\ form.pc = "issue" =>
           /\ ~form.access => ~cookies.access
           /\ form.rotated # 0 => form.rotated = newest
           /\ form.rotated = 0 /\ (form.access \/ form.left # form.for) => cookies.refresh = newest

CommissionInv == /\ CommissionTypeOK /\ RequestsAgree /\ CheckedFirst /\ CookiesAgree
                 /\ LabelsComplete /\ ConfigurationFirst /\ AcceptedProvisions

-----------------------------------------------------------------------------
(* Expected of the code, and not held by it: README.md tells which constants   *)
(* show it.                                                                    *)

\* Whatever the page answers, the browser keeps its session.
RotationAlwaysKept == form = Nobody => cookies.refresh = newest

\* The check before the campaign measures the QR code as it will be drawn.
TokensWhenDrawable ==
    campaign.pc = "issue" /\ campaign.labels # {} => Renders(profile.size, profile.level)

\* The tool issues no token that is on no sheet.
EveryTokenPrinted ==
    campaign = Nobody /\ form = Nobody /\ shown = BlankForm =>
        \A n \in DOMAIN issued : \E l \in sheet.labels : l.token = n

\* The tool never takes for new a phone the server knew when it started.
NoConflict ==
    campaign.pc = "issue" =>
        \A t \in campaign.left : t \in declared => t \in campaign.known
=============================================================================
