------------------------------ MODULE MCBackend ------------------------------
(***************************************************************************)
(* Model checking of the queue of events of a phone, and of what the       *)
(* server and its dashboard do of sessions, alerts and logins: the         *)
(* sessions of the drivers, the notifications, the login of the            *)
(* administrators, their session in a browser, the live feed and the home  *)
(* page.  They share no state here: a behaviour is one of them (scene),    *)
(* chosen at the start, and the variables of the others rest.              *)
(***************************************************************************)
EXTENDS EventQueue, ServerSessions, NotificationRouting,
        DashboardSession, RealtimeFeed, HomeSummary, TLC

VARIABLE scene

Scenes == {"events", "sessions", "routing", "login", "browser",
           "feed", "home"}
backendVars == <<scene, vars, sessionVars, routingVars, loginVars,
                 dashboardVars, feedVars, summaryVars>>

Symmetry == Permutations(Trips) \cup Permutations(Pages)

\* A part that rests starts in one state.
BackendInit ==
    /\ scene \in Scenes
    /\ Init
    /\ SessionInit /\ (scene # "sessions" => fragile)
    /\ scene # "routing" =>
           /\ setup = Invalid /\ ready = {} /\ quiet = FALSE
           /\ news = [n \in News |-> "DEVICE_OFFLINE"]
    /\ RoutingInit
    /\ LoginInit /\ (scene # "login" => company /\ account = "none")
    /\ DashboardInit /\ FeedInit /\ SummaryInit

PartsAtRest ==
    /\ scene # "events" => UNCHANGED vars
    /\ scene # "sessions" => UNCHANGED sessionVars
    /\ scene # "routing" => UNCHANGED routingVars
    /\ scene # "login" => UNCHANGED loginVars
    /\ scene # "browser" => UNCHANGED dashboardVars
    /\ scene # "feed" => UNCHANGED feedVars
    /\ scene # "home" => UNCHANGED summaryVars

\* Phones are alike, and drivers: the first session is of the first ones, and the others
\* share its phone or its driver.  Bound: one session lasts too long.
FirstOfThem ==
    /\ sess' = <<>> => phoneState' = phoneState
    /\ sess' # <<>> => /\ sess'[1].phone = (CHOOSE p \in Handsets : TRUE)
                      /\ sess'[1].user = (CHOOSE u \in Holders : TRUE)
    /\ \A r \in Openings : opening'[r].pc # "idle" =>
           \/ opening'[r].phone = (CHOOSE p \in Handsets : TRUE)
           \/ opening'[r].user = (CHOOSE u \in Holders : TRUE)
    /\ \A i \in DOMAIN sess' : sess'[i].over => i = 1

\* Where the bounds stop what the code does not.
Bounded == scene # "events" /\ UNCHANGED backendVars

BackendNext ==
    \/ /\ UNCHANGED scene
       /\ \/ scene = "events" /\ Next
          \/ scene = "sessions" /\ SessionNext /\ FirstOfThem
          \/ scene = "routing" /\ RoutingNext
          \/ scene = "login" /\ LoginNext
          \/ scene = "browser" /\ DashboardNext
          \/ scene = "feed" /\ FeedNext
          \/ scene = "home" /\ SummaryNext
       /\ PartsAtRest
    \/ Bounded

BackendSpec == BackendInit /\ [][BackendNext]_backendVars

\* What administrators are told is so: critical alerts reach every channel, the list
\* and the page of alerts follow the live feed, the figures of the home page agree.
ToldInv == RoutingInv /\ FeedInv /\ SummaryInv

=============================================================================
