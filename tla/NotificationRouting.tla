------------------------ MODULE NotificationRouting -------------------------
(***************************************************************************)
(* Whom a new alert reaches.  A task nobody waits for reads the            *)
(* configuration of the company and how many alerts went out in the hour,  *)
(* decides, sends channel by channel, and dates the alert.  The dispatches *)
(* of several alerts run at once.                                          *)
(***************************************************************************)
EXTENDS Integers, FiniteSets

CONSTANTS
    News,           \* alerts that are raised
    Channels,       \* webhooks and email of the company
    HourlyCeiling   \* maxPerHour

VARIABLES
    setup,      \* what the company has configured: minimal severity and types by channel
    ready,      \* channels the server can use (SMTP_URL)
    quiet,      \* quiet hours now
    news,       \* the alert each dispatch is about
    dispatch    \* where each dispatch is

routingVars == <<setup, ready, quiet, news, dispatch>>

ASSUME RoutingAssumption == HourlyCeiling \in Nat

\* severityRank; DEVICE_TAMPERING is CRITICAL.
Critical == 3
Kinds == {"DEVICE_TAMPERING", "DEVICE_OFFLINE"}
SeverityRank(kind) == IF kind = "DEVICE_TAMPERING" THEN Critical ELSE 1
Invalid == [valid |-> FALSE]

Dispatches == [pc : {"none", "decide", "send", "dated", "silent", "failed"}, left : SUBSET Channels,
               tried : SUBSET Channels, reached : SUBSET Channels]

RoutingTypeOK ==
    /\ setup \in {Invalid} \cup [valid : {TRUE}, min : [Channels -> {1, Critical}],
                                 kinds : [Channels -> SUBSET Kinds]]
    /\ ready \subseteq Channels /\ quiet \in BOOLEAN
    /\ news \in [News -> Kinds]
    /\ dispatch \in [News -> Dispatches]

RoutingInit ==
    /\ setup \in {Invalid} \cup [valid : {TRUE}, min : [Channels -> {1, Critical}],
                                 kinds : [Channels -> {{}, {"DEVICE_OFFLINE"}}]]
    /\ ready \in SUBSET Channels /\ quiet \in BOOLEAN /\ news \in [News -> Kinds]
    /\ dispatch = [n \in News |-> [pc |-> "none", left |-> {}, tried |-> {}, reached |-> {}]]

Set(n, d) == dispatch' = [dispatch EXCEPT ![n] = d]
Same == <<setup, ready, news>>

\* raise: `void dispatch(created)`.
Raised(n) ==
    /\ dispatch[n].pc = "none"
    /\ Set(n, [dispatch[n] EXCEPT !.pc = "decide"])
    /\ UNCHANGED <<Same, quiet>>

Accepts(c, kind) == /\ SeverityRank(kind) >= setup.min[c]
                    /\ setup.kinds[c] = {} \/ kind \in setup.kinds[c]

\* Neither quiet hours nor ceiling hold back a critical alert.
routeAlert(kind, sent) ==
    IF ~setup.valid \/ (SeverityRank(kind) # Critical /\ (quiet \/ sent >= HourlyCeiling))
    THEN {} ELSE {c \in Channels : Accepts(c, kind)}

\* sentInLastHour, read before anything is sent.
Sent == Cardinality({n \in News : dispatch[n].pc = "dated"})

\* deliver: no target, no message.
Decide(n) ==
    /\ dispatch[n].pc = "decide"
    /\ LET to == routeAlert(news[n], Sent)
       IN  Set(n, [dispatch[n] EXCEPT !.pc = IF to = {} THEN "silent" ELSE "send", !.left = to])
    /\ UNCHANGED <<Same, quiet>>

Reaches(n, c) ==
    /\ dispatch[n].pc = "send" /\ c \in dispatch[n].left /\ c \in ready
    /\ Set(n, [dispatch[n] EXCEPT !.left = @ \ {c}, !.tried = @ \cup {c}, !.reached = @ \cup {c}])
    /\ UNCHANGED <<Same, quiet>>

\* A channel that fails, is too slow or is not configured costs its message only.
Misses(n, c) ==
    /\ dispatch[n].pc = "send" /\ c \in dispatch[n].left
    /\ Set(n, [dispatch[n] EXCEPT !.left = @ \ {c}, !.tried = @ \cup {c}])
    /\ UNCHANGED <<Same, quiet>>

\* notifiedAt, if somebody was reached.
DateAlert(n) ==
    /\ dispatch[n].pc = "send" /\ dispatch[n].left = {}
    /\ Set(n, [dispatch[n] EXCEPT !.pc = IF dispatch[n].reached # {} THEN "dated" ELSE "silent"])
    /\ UNCHANGED <<Same, quiet>>

\* dispatch catches what deliver throws, and nobody tries again: the configuration, the
\* count or the message before the first channel, or the date after the last.
Fails(n) ==
    /\ \/ dispatch[n].pc = "decide"
       \/ dispatch[n].pc = "send" /\ dispatch[n].left = {} /\ dispatch[n].reached # {}
    /\ Set(n, [dispatch[n] EXCEPT !.pc = "failed"])
    /\ UNCHANGED <<Same, quiet>>

QuietHours ==
    /\ quiet' = ~quiet
    /\ UNCHANGED <<Same, dispatch>>

RoutingNext ==
    \/ \E n \in News :
           \/ Raised(n) \/ Decide(n) \/ DateAlert(n) \/ Fails(n)
           \/ \E c \in Channels : Reaches(n, c) \/ Misses(n, c)
    \/ QuietHours

RoutingSpec == RoutingInit /\ [][RoutingNext]_routingVars

-----------------------------------------------------------------------------
(* Properties *)

Ended(n) == dispatch[n].pc \in {"dated", "silent", "failed"}

\* A critical alert is tried on every channel that asks for it, in the quiet hours,
\* beyond the ceiling, and though another channel fails; unless its dispatch failed
\* before the first channel.
CriticalReachesAll ==
    \A n \in News :
        /\ Ended(n) /\ SeverityRank(news[n]) = Critical /\ setup.valid
        /\ dispatch[n].pc = "failed" => dispatch[n].tried # {}
        => dispatch[n].tried = {c \in Channels : Accepts(c, news[n])}

\* Between the decision and its end, each channel that asks for a critical alert was
\* tried, or is still to be.
DispatchesAgree ==
    \A n \in News :
        /\ dispatch[n].pc \in {"none", "decide"} => dispatch[n].left = {} /\ dispatch[n].tried = {}
        /\ Ended(n) => dispatch[n].left = {}
        /\ dispatch[n].pc \in {"send", "dated", "silent", "failed"}
           /\ (dispatch[n].pc = "failed" => dispatch[n].tried # {})
           /\ SeverityRank(news[n]) = Critical /\ setup.valid
           => dispatch[n].tried \cup dispatch[n].left = {c \in Channels : Accepts(c, news[n])}

RoutingInv == RoutingTypeOK /\ DispatchesAgree /\ CriticalReachesAll

-----------------------------------------------------------------------------
(* Expected of the code, and not held by it *)

\* "une alerte CRITICAL passe toujours", whatever fails before the first channel.
CriticalAlwaysTried ==
    \A n \in News :
        Ended(n) /\ SeverityRank(news[n]) = Critical /\ setup.valid
        => dispatch[n].tried = {c \in Channels : Accepts(c, news[n])}

\* Not more alerts than the ceiling go out in the hour, the critical ones apart:
\* dispatches that overlap all read the count before any is dated.
CeilingHolds ==
    Cardinality({n \in News : dispatch[n].reached # {} /\ SeverityRank(news[n]) # Critical})
        <= HourlyCeiling
=============================================================================
