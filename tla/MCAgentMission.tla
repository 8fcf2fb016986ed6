--------------------------- MODULE MCAgentMission ---------------------------
(***************************************************************************)
(* AgentMission for TLC: deliveries along the same places, a local route,  *)
(* and a road that is off the route to the drop.                           *)
(***************************************************************************)
EXTENDS AgentMission

OneDelivery == {"t1"}
TwoDeliveries == {"t1", "t2"}
Town == {"base", "pickup", "drop", "road"}
Pickups == [t \in Tasks |-> <<"base", "pickup">>]
Drops == [t \in Tasks |-> <<"pickup", "drop">>]
NoRoutes == {}
ToBase == {<<"base">>}
NoPairs == {}
OffTheRoad == {<<"road", "drop">>}
NoInference == {}
ClearOrNot == {"clear", "unusable"}
Nowhere == NoPlace
=============================================================================
