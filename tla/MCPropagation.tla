---------------------------- MODULE MCPropagation ----------------------------
(***************************************************************************)
(* How changes made elsewhere reach a running gateway: route edits of the  *)
(* registry adapters (RouterCoordinator), and the two control planes it    *)
(* may follow: the admin console's delta xDS from etcd (AdminXds), with    *)
(* cluster keys 1 and 10 and listener key 2, and an Envoy ADS server       *)
(* (AdsClient).  A behaviour stays in the world it starts in.              *)
(***************************************************************************)
EXTENDS RouterCoordinator, AdminXds, AdsClient, FiniteSets

VARIABLE world

MCKey == {1, 10, 2}
MCTypeOf == [k \in MCKey |-> IF k = 2 THEN "listeners" ELSE "clusters"]
MCHasPrefix == [k \in MCKey |-> IF k = 1 THEN {1, 10} ELSE {k}]

propagationVars == <<world, vars, adminVars, adsVars>>

\* The route table starts empty where it is not looked at; the ADS server starts
\* with endpoints e1, edits bring e2.
PropagationInit ==
    /\ world \in {"routes", "admin", "ads"} /\ Init /\ AdminInit /\ AdsInit
    /\ world # "routes" => nextSnapshot = <<>>
    /\ \A s \in Service : eds[s] = "e1"

InRoutes == world = "routes" /\ UNCHANGED <<world, adminVars, adsVars>>
InAdmin == world = "admin" /\ UNCHANGED <<world, vars, adsVars>>
InAds == world = "ads" /\ UNCHANGED <<world, vars, adminVars>>

PropagationNext == (InRoutes /\ Next) \/ (InAdmin /\ AdminNext) \/ (InAds /\ AdsNext)

\* The fairness of each part, in its world.
PropagationFairness ==
    /\ \A t \in TimerObj : WF_propagationVars(InRoutes /\ TimerFires(t))
    /\ \A w \in Waiter :
          WF_propagationVars(InRoutes /\ (AwaitEvaluatesTimer(w) \/ AwaitReceives(w) \/ AwaitPublishes(w)))
    /\ WF_propagationVars(InAdmin /\ ServerStep)
    /\ \A t \in Type : WF_propagationVars(InAdmin /\ ClientStep(t))
    /\ WF_propagationVars(InAds /\ RespondCDS) /\ WF_propagationVars(InAds /\ RespondEDS)
    /\ WF_propagationVars(InAds /\ connectADS)
    /\ WF_propagationVars(InAds /\ (ReceiveCDS \/ ReceiveEDS \/ Apply))

PropagationSpec == PropagationInit /\ [][PropagationNext]_propagationVars /\ PropagationFairness

-----------------------------------------------------------------------------
\* The gateway runs with what the control plane holds in the end.
Converges == (world = "admin" => AdminConverges) /\ (world = "ads" => AdsConverges)
=============================================================================
