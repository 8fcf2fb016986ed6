-------------------------- MODULE MCMissionReporting --------------------------
(* Two commitments for deliveries along one street; the thresholds scaled to it. *)
EXTENDS MissionReporting

MCPath == <<0, 1>>
=============================================================================
