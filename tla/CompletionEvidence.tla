-------------------------- MODULE CompletionEvidence --------------------------
(***************************************************************************)
(* Would a TASK_COMPLETE claim meet the backend's evidence bar?  The five  *)
(* conditions of robotx/mission/evidence.py on the measured fixes sent     *)
(* since the commitment was granted.  Places are points of a line, times   *)
(* and distances whole numbers; the thresholds are parameters.             *)
(***************************************************************************)
EXTENDS Integers, FiniteSets, SequencesExt

CONSTANTS
  ArrivalRadius,   \* VERIFY_ARRIVAL_RADIUS_M
  MinFixRate,      \* VERIFY_TRACK_MIN_FIX_RATE_PER_MIN, as fixes per RateUnit of time
  RateUnit,
  MaxGap,          \* VERIFY_TRACK_MAX_GAP_S
  CorridorWidth,   \* VERIFY_CORRIDOR_HALF_WIDTH_M
  MaxSpeed         \* VERIFY_MAX_SPEED_MS

ASSUME EvidenceAssumption ==
  {ArrivalRadius, MinFixRate, RateUnit, MaxGap, CorridorWidth, MaxSpeed} \subseteq Nat

Distance(a, b) == IF a < b THEN b - a ELSE a - b

\* _distance_to_segment_m and distance_to_path_m; a path has at least two points.
DistanceToSegment(p, a, b) ==
  LET lo == IF a < b THEN a ELSE b
      hi == IF a < b THEN b ELSE a
  IN IF p < lo THEN lo - p ELSE IF p > hi THEN p - hi ELSE 0
DistanceToPath(p, path) ==
  Min({DistanceToSegment(p, path[i], path[i + 1]) : i \in 1..Len(path) - 1})

ArrivedAt(track, stop) == Distance(Last(track).at, stop) <= ArrivalRadius

\* len(track) / duration, infinite when no time has passed.
DenseEnough(track, granted) ==
  LET duration == Last(track).t - granted
  IN duration > 0 => Len(track) * RateUnit >= MinFixRate * duration

\* The gaps include the lead-in from the grant and the tail up to the claim.
NoGaps(track, granted, claim) ==
  LET instants == <<granted>> \o [i \in DOMAIN track |-> track[i].t] \o <<claim>>
  IN \A i \in 1..Len(instants) - 1 : instants[i + 1] - instants[i] <= MaxGap

\* VERIFY_TRACK_MIN_CORRIDOR_FRACTION is four fifths.
InCorridor(track, path) ==
  LET inside == {i \in DOMAIN track : DistanceToPath(track[i].at, path) <= CorridorWidth}
  IN 5 * Cardinality(inside) >= 4 * Len(track)

Plausible(track) ==
  \A i \in 1..Len(track) - 1 :
    LET dt == track[i + 1].t - track[i].t
    IN dt > 0 /\ Distance(track[i].at, track[i + 1].at) <= MaxSpeed * dt

\* assess_completion: sufficient.
Sufficient(track, granted, claim, stop, path) ==
  /\ Len(track) >= 2
  /\ ArrivedAt(track, stop)
  /\ DenseEnough(track, granted)
  /\ NoGaps(track, granted, claim)
  /\ InCorridor(track, path)
  /\ Plausible(track)
=============================================================================
