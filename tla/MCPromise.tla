------------------------------ MODULE MCPromise ------------------------------
(***************************************************************************)
(* Model checking of what ends well: the outcome of every command, the     *)
(* delivery of every event, the company of every Trajelys account.  The    *)
(* three share no state: a behaviour is one of them (scene), chosen at the *)
(* start, and the variables of the others rest.                            *)
(***************************************************************************)
EXTENDS CommandQueue, TrajelysLink

\* The queue of events, of a phone whose workers are the Pushers.
CONSTANTS Alerts, Geofences, Scans, Orphans, Pushers, BatchSize, Rounds, Cap, DropBatch, Mishaps

VARIABLES
    scene,
    counter, seq, place, checking, sending, pushPc, round, pushed, serving, todo, acked, bare,
    stored, ignored

Q == INSTANCE EventQueue WITH
         Locations <- {}, Workers <- Pushers, Faults <- Mishaps,
         pc <- pushPc, batch <- pushed, handler <- serving

eventVars == <<counter, seq, place, checking, sending, pushPc,
               round, pushed, serving, todo, acked, bare, stored, ignored>>
promiseVars == <<scene, vars, linkVars, eventVars>>

PromiseInit == scene \in {"commands", "link", "events"} /\ Init /\ LinkInit /\ Q!Init

PromiseNext ==
    /\ UNCHANGED scene
    /\ \/ scene = "commands" /\ Next /\ UNCHANGED <<linkVars, eventVars>>
       \/ scene = "link" /\ LinkNext /\ UNCHANGED <<vars, eventVars>>
       \/ scene = "events" /\ Q!Next /\ UNCHANGED <<vars, linkVars>>

\* ServerFairness, LinkFairness and the Fairness of the queue, each in its scene:
\* a part that rests is owed nothing.
PromiseFairness ==
    /\ HandlerFairness /\ SF_vars(scene = "commands" /\ Tick)
    /\ \A p \in Requests :
          /\ WF_linkVars(scene = "link" /\ provisionner(p))
          /\ WF_linkVars(ProvisionStep(p))
    /\ \A w \in Pushers :
          /\ WF_eventVars(scene = "events" /\ Q!StartPush(w))
          /\ SF_eventVars(Q!TakeBatch(w)) /\ SF_eventVars(Q!Answered(w))
          /\ WF_eventVars(Q!ErrorStatus(w)) /\ SF_eventVars(Q!Progress(w))

PromiseSpec == PromiseInit /\ [][PromiseNext]_promiseVars /\ PromiseFairness

\* While the orphans do not fill a batch, every other urgent event of the queue
\* reaches the server.
HealthyDelivered == Q!HealthyDelivered

\* A command is settled (EverySettled), and an account that keeps asking gets its
\* company (AccountServed), each in its scene.
AccountAlwaysServed == scene = "link" => AccountServed
=============================================================================
