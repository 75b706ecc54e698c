------------------------------ MODULE MCPhone ------------------------------
(***************************************************************************)
(* Model checking of the phone and of what the server keeps for it: its    *)
(* session, its identity, its applications, the sharing of its screen, the *)
(* limits of the scan.  They share no state: a behaviour is one of them    *)
(* (scene), chosen at the start, and the variables of the others rest.     *)
(***************************************************************************)
EXTENDS PhoneSession, DeviceIdentity, AppDeployment, ScreenShare, RateLimiter

VARIABLE scene

Scenes == {"session", "identity", "apps", "share", "limits"}
phoneVars == <<scene, vars, identityVars, appVars, shareVars, limiterVars>>

\* The packages are alike: the first is of the lowest version.
FirstApk == CHOOSE p \in Apks : TRUE

\* An install may be refused for its owner in the scene of a stable network only.
PhoneInit ==
    /\ scene \in Scenes
    /\ Init /\ ShareInit
    /\ IdentityInit /\ (scene # "identity" => trouble = CHOOSE faults \in Troubles : TRUE)
    /\ AppInit /\ (unstable => owners = {})
    /\ \A p \in Apks : content[FirstApk].version <= content[p].version
    /\ scene # "apps" =>
           /\ ~unstable /\ owners = {}
           /\ content = [p \in Apks |-> CHOOSE b \in Builds : TRUE]
    /\ LimiterInit /\ (scene # "limits" => ~flaky)

\* Bound: two credentials when answers come late.
FewCreds ==
    "late" \in trouble => Cardinality({c \in Creds : cred'[c] # NoCred}) <= 2

\* The variables of the other scenes.
Resting ==
    /\ scene # "session" => UNCHANGED vars
    /\ scene # "identity" => UNCHANGED identityVars
    /\ scene # "apps" => UNCHANGED appVars
    /\ scene # "share" => UNCHANGED shareVars
    /\ scene # "limits" => UNCHANGED limiterVars

\* Where the bounds stop what the code does not.
Bounded == scene \in {"identity", "apps", "limits"} /\ UNCHANGED phoneVars

PhoneNext ==
    \/ /\ UNCHANGED scene
       /\ \/ scene = "session" /\ Next
          \/ scene = "identity" /\ IdentityNext /\ FewCreds
          \/ scene = "apps" /\ AppNext
          \/ scene = "share" /\ ShareNext
          \/ scene = "limits" /\ LimiterNext
       /\ Resting
    \/ Bounded

PhoneSpec == PhoneInit /\ [][PhoneNext]_phoneVars

=============================================================================
