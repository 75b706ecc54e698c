------------------------------- MODULE MCPull -------------------------------
(***************************************************************************)
(* Model checking of what a synchronisation brings to the phone: the       *)
(* session of the server, and the settings, the depot and the badges of    *)
(* its company.  The two share no state: a behaviour is one of them        *)
(* (scene), chosen at the start, and the variables of the other rest.      *)
(***************************************************************************)
EXTENDS PhoneSession, FleetConfig

CONSTANT MaxCalls    \* bound of the immediate synchronisations of the fleet scene

VARIABLES
    scene,
    calls            \* immediate synchronisations begun

pullVars == <<scene, calls, vars, fleetVars>>

\* The first work is the periodic one, which comes back for ever; the badges are alike,
\* and one of them stays.
Periodic == CHOOSE w \in Works : TRUE
Immediate == Works \ {Periodic}
LastBadge == CHOOSE b \in Badges : TRUE

PullInit == scene \in {"session", "fleet"} /\ calls = 0 /\ Init /\ FleetInit

\* Bounds: MaxCalls, and the last badge, without which the list is owed nothing.
FewCalls ==
    /\ calls' = IF \E w \in Immediate : pull[w] = NoPull /\ pull'[w] # NoPull
                THEN calls + 1 ELSE calls
    /\ calls' <= MaxCalls
    /\ LastBadge \in listed'

PullNext ==
    /\ UNCHANGED scene
    /\ \/ scene = "session" /\ Next /\ UNCHANGED <<calls, fleetVars>>
       \/ scene = "fleet" /\ FleetNext /\ FewCalls /\ UNCHANGED vars

\* A part that rests is owed nothing: no thread of the session has begun then.  An
\* immediate work that has begun goes on.
PullFairness ==
    /\ ThreadFairness
    /\ \A y \in Syncs : WF_vars(scene = "session" /\ PullAnswered(y))
    /\ WF_fleetVars(scene = "fleet" /\ PullStep(Periodic))
    /\ \A w \in Immediate : WF_fleetVars(pull[w] # NoPull /\ PullStep(w))
    /\ WF_fleetVars(scene = "fleet" /\ BecomeOwner)

PullSpec == PullInit /\ [][PullNext]_pullVars /\ PullFairness

\* "le telephone resterait indefiniment sans politique", "un badge révoqué doit
\* DISPARAÎTRE": what a company sets reaches its phones.
ConfigurationDelivered == scene = "fleet" => PolicyReaches /\ ListFollowsBadges
=============================================================================
