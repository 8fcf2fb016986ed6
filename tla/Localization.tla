----------------------------- MODULE Localization -----------------------------
(***************************************************************************)
(* Where the rover believes it is: the thread that reads the GPS receiver  *)
(* (hardware/gps.py), the estimator that gives its fixes a heading         *)
(* (localization/position.py), the dead reckoner that integrates what the  *)
(* rover was told to do (localization/local_frame.py), and the part of the *)
(* agent's tick that chooses between the two, with the health it reports   *)
(* of them.  The rover is one with dead reckoning switched on.             *)
(*                                                                         *)
(* The receiver's thread and the tick share the last fix and its status,   *)
(* under a lock.  The port comes and goes, and with it the thread's handle *)
(* on it; what the receiver sends is any sentence at any time.             *)
(*                                                                         *)
(* Places are points of a line that runs east, MinMove of them apart is    *)
(* movement; headings are quarter turns, north = 0.  One unit of time at   *)
(* full speed is one place, and at full turn rate one quarter.             *)
(***************************************************************************)
EXTENDS Integers

CONSTANTS
  Sentences,   \* what the receiver may send: [type, valid, at, speed, track]
  Intents,     \* what the gate may let through: [linear, angular]
  MinMove,     \* heading_min_move_m
  MinSpeed,    \* heading_min_speed_mps
  StaleAfter,  \* gps_stale_after_s
  MaxStep,     \* deadreckon_max_step_s
  MaxClock     \* bound: the clock stops here

Nowhere == -1     \* no coordinates, or latitude and longitude both 0.0
Missing == -1     \* a speed or a course the sentence does not carry, an unknown heading
Never == -1

ASSUME LocalizationAssumption ==
  /\ Sentences \subseteq [type: {"GGA", "RMC", "GLL", "GNS", "other"}, valid: BOOLEAN,
                          at: Nat \cup {Nowhere}, speed: Nat \cup {Missing},
                          track: 0..3 \cup {Missing}]
  /\ Intents \subseteq [linear: -1..1, angular: -1..1]
  /\ {MinMove, MinSpeed} \subseteq Nat \ {0}
  /\ {StaleAfter, MaxStep, MaxClock} \subseteq Nat

VARIABLES
  clock,
  plugged,   \* whether the receiver's port is there
  gps,       \* the reader: its handle on the port, its status, its last fix
  estimator, \* the heading, where it came from, and where it was last anchored
  reckoner,  \* the pose, the path travelled, the time of the last integration
  hist       \* ghost: whether the fix was read since the port was opened; when the run began

vars == <<clock, plugged, gps, estimator, reckoner, hist>>

Abs(n) == IF n < 0 THEN -n ELSE n

NoFix == [at |-> Nowhere, time |-> Never, speed |-> Missing, track |-> Missing]
Origin == [x |-> 0, y |-> 0, heading |-> 0, travelled |-> 0, last |-> Never]

\* _start_gps: no reader where GPS is switched off, or where its port is the ESP32's; and one
\* that gives up at once where pyserial or pynmea2 is missing.
NoReader == {"disabled", "conflict", "missing"}
Readers ==
  {[handle |-> "none", status |-> "STARTING", fix |-> NoFix]}
    \cup [handle: NoReader, status: {"UNAVAILABLE"}, fix: {NoFix}]

Init ==
  /\ clock = 0
  /\ plugged \in BOOLEAN
  /\ gps \in Readers
  /\ estimator = [heading |-> Missing, source |-> "NONE", anchor |-> Nowhere]
  /\ reckoner = Origin
  /\ hist = [since_open |-> FALSE, began |-> 0]

(***************************************************************************)
(* The reader's thread.                                                    *)
(***************************************************************************)
\* parse_nmea_sentence: what a sentence must say to be a fix at all, ...
CarriesFix(s) == s.type # "other" /\ s.valid /\ s.at # Nowhere
\* ... and the fix: speed and course are RMC's, or of the fix before.
Parsed(s, previous) ==
  [at |-> s.at, time |-> clock,
   speed |-> IF s.type = "RMC" THEN s.speed ELSE previous.speed,
   track |-> IF s.type = "RMC" THEN s.track ELSE previous.track]

StatusKept ==  \* mutant of OpenSerial
  /\ gps.handle = "none"
  /\ IF plugged
       THEN /\ gps' = [gps EXCEPT !.handle = "live",
                                  !.status = IF gps.fix = NoFix THEN "NO_FIX" ELSE "FIX"]
            /\ hist' = [hist EXCEPT !.since_open = FALSE]
       ELSE gps' = [gps EXCEPT !.status = "DISCONNECTED"] /\ UNCHANGED hist
  /\ UNCHANGED <<clock, plugged, estimator, reckoner>>
OpenSerial ==
  /\ gps.handle = "none"
  /\ IF plugged
       THEN /\ gps' = [gps EXCEPT !.handle = "live", !.status = "NO_FIX"]
            /\ hist' = [hist EXCEPT !.since_open = FALSE]
       ELSE gps' = [gps EXCEPT !.status = "DISCONNECTED"] /\ UNCHANGED hist
  /\ UNCHANGED <<clock, plugged, estimator, reckoner>>

\* A sentence with no fix in it says nothing of the fix there was: that one ages.
ReadOnce(s) ==
  /\ gps.handle = "live"
  /\ IF CarriesFix(s)
       THEN /\ gps' = [gps EXCEPT !.fix = Parsed(s, gps.fix), !.status = "FIX"]
            /\ hist' = [hist EXCEPT !.since_open = TRUE]
       ELSE /\ gps' = IF gps.fix = NoFix THEN [gps EXCEPT !.status = "NO_FIX"] ELSE gps
            /\ UNCHANGED hist
  /\ UNCHANGED <<clock, plugged, estimator, reckoner>>

HandleKept ==  \* mutant of ReadFails
  /\ gps.handle \in {"live", "dead"}
  /\ gps' = [gps EXCEPT !.status = "DISCONNECTED"]
  /\ UNCHANGED <<clock, plugged, estimator, reckoner, hist>>
ReadFails ==
  /\ gps.handle \in {"live", "dead"}
  /\ gps' = [gps EXCEPT !.handle = "none", !.status = "DISCONNECTED"]
  /\ UNCHANGED <<clock, plugged, estimator, reckoner, hist>>

\* GPSReader.get_reading
Reading ==
  IF gps.status = "FIX" /\ clock - gps.fix.time > StaleAfter THEN "STALE" ELSE gps.status

GpsVerdict ==
  [FIX |-> "HEALTHY", NO_FIX |-> "DEGRADED", STARTING |-> "DEGRADED", STALE |-> "DEGRADED",
   DISCONNECTED |-> "FAILED", UNAVAILABLE |-> "FAILED"]
\* _gps_health
GpsHealth ==
  CASE gps.handle = "conflict" -> "FAILED"
    [] gps.handle = "disabled" -> "UNKNOWN"
    [] OTHER -> GpsVerdict[Reading]

(***************************************************************************)
(* The estimators, and the tick.                                           *)
(***************************************************************************)
CourseUnchecked(e, fix) ==  \* mutant of EstimateHeading
  IF fix.speed # Missing /\ fix.speed >= MinSpeed
  THEN [heading |-> fix.track, source |-> "NMEA_TRACK", anchor |-> fix.at]
  ELSE IF e.anchor = Nowhere THEN [e EXCEPT !.anchor = fix.at]
  ELSE IF Abs(fix.at - e.anchor) >= MinMove
  THEN [heading |-> IF fix.at > e.anchor THEN 1 ELSE 3, source |-> "GPS_TRACK", anchor |-> fix.at]
  ELSE e
\* _estimate_heading: the receiver's course while it says that the rover moves, else the
\* bearing between fixes far enough apart, else what there was.
EstimateHeading(e, fix) ==
  IF fix.track # Missing /\ fix.speed # Missing /\ fix.speed >= MinSpeed
  THEN [heading |-> fix.track, source |-> "NMEA_TRACK", anchor |-> fix.at]
  ELSE IF e.anchor = Nowhere THEN [e EXCEPT !.anchor = fix.at]
  ELSE IF Abs(fix.at - e.anchor) >= MinMove
  THEN [heading |-> IF fix.at > e.anchor THEN 1 ELSE 3, source |-> "GPS_TRACK", anchor |-> fix.at]
  ELSE e
\* PositionEstimator.update: without a fix the heading is left as it is.
Updated == IF Reading = "FIX" THEN EstimateHeading(estimator, gps.fix) ELSE estimator

Measured ==
  [source |-> "GPS", at |-> gps.fix.at, heading |-> Updated.heading,
   heading_source |-> Updated.source]
\* DeadReckoner.position, in a frame whose origin is place 0.
Reckoned ==
  [source |-> "DEAD_RECKONING", at |-> reckoner.x, heading |-> reckoner.heading,
   heading_source |-> "DEAD_RECKONED"]
\* What the tick takes for the rover's position: a fix before an inference.
Position == IF Reading = "FIX" THEN Measured ELSE Reckoned

East == <<0, 1, 0, -1>>
North == <<1, 0, -1, 0>>
\* DeadReckoner.integrate: the turn, then the way along the new heading.  The first call starts
\* the clock; a step of no time, or of more than MaxStep, is left out.
Integrate(r, i) ==
  LET dt == clock - r.last
      heading == (r.heading + i.angular * dt) % 4
  IN IF r.last = Never \/ dt <= 0 \/ dt > MaxStep THEN [r EXCEPT !.last = clock]
     ELSE [x |-> r.x + i.linear * dt * East[heading + 1],
           y |-> r.y + i.linear * dt * North[heading + 1],
           heading |-> heading,
           travelled |-> r.travelled + Abs(i.linear * dt),
           last |-> clock]

\* The intent is the gated one of this same tick.
Tick ==
  /\ estimator' = Updated
  /\ \E i \in Intents : reckoner' = Integrate(reckoner, i)
  /\ UNCHANGED <<clock, plugged, gps, hist>>

ClockKept(r) == [Origin EXCEPT !.last = r.last]  \* mutant of Reset
\* DeadReckoner.reset
Reset(r) == Origin
\* _begin_run
BeginRun ==
  /\ reckoner' = Reset(reckoner)
  /\ hist' = [hist EXCEPT !.began = clock]
  /\ UNCHANGED <<clock, plugged, gps, estimator>>

(***************************************************************************)
(* The world: external to src/.                                            *)
(***************************************************************************)
Unplug ==
  /\ plugged
  /\ plugged' = FALSE
  /\ gps' = IF gps.handle = "live" THEN [gps EXCEPT !.handle = "dead"] ELSE gps
  /\ UNCHANGED <<clock, estimator, reckoner, hist>>
Plug ==
  /\ ~plugged
  /\ plugged' = TRUE
  /\ UNCHANGED <<clock, gps, estimator, reckoner, hist>>
Pass ==
  /\ clock < MaxClock
  /\ clock' = clock + 1
  /\ UNCHANGED <<plugged, gps, estimator, reckoner, hist>>

Next ==
  \/ OpenSerial \/ ReadFails
  \/ \E s \in Sentences : ReadOnce(s)
  \/ Tick \/ BeginRun
  \/ Unplug \/ Plug \/ Pass
Spec == Init /\ [][Next]_vars

\* The thread goes on: it opens the port again, and fails on a handle that is dead.
FairSpec ==
  Spec /\ WF_vars(OpenSerial) /\ WF_vars(gps.handle = "dead" /\ ReadFails)

(***************************************************************************)
(* Properties.                                                             *)
(***************************************************************************)
TypeOK ==
  /\ clock \in 0..MaxClock
  /\ plugged \in BOOLEAN
  /\ gps.handle \in {"none", "live", "dead"} \cup NoReader
  /\ gps.status \in {"STARTING", "UNAVAILABLE", "DISCONNECTED", "NO_FIX", "FIX"}
  /\ gps.fix \in [at: Nat \cup {Nowhere}, time: 0..clock \cup {Never},
                  speed: Nat \cup {Missing}, track: 0..3 \cup {Missing}]
  /\ gps.fix.at = Nowhere <=> gps.fix = NoFix
  /\ estimator.heading \in 0..3 \cup {Missing} /\ estimator.anchor \in Nat \cup {Nowhere}
  /\ estimator.source \in {"NONE", "NMEA_TRACK", "GPS_TRACK"}
  /\ estimator.source = "NONE" <=> estimator.heading = Missing
  /\ reckoner \in [x: Int, y: Int, heading: 0..3, travelled: Nat, last: 0..clock \cup {Never}]
  /\ hist \in [since_open: BOOLEAN, began: 0..clock]

\* A position that a tick takes for measured was read from the port as it is now open, and not
\* longer ago than the limit: a fix from before a receiver was lost is not one after it is back,
\* whatever else the receiver sends first.
MeasuredSinceOpened ==
  Position.source = "GPS" =>
    /\ hist.since_open /\ gps.fix # NoFix
    /\ clock - gps.fix.time <= StaleAfter

\* The pose is of this run and of no more than it: it lies within the path travelled, and the
\* path is no longer than the time since the run began allows.
PoseOfThisRun ==
  /\ Abs(reckoner.x) + Abs(reckoner.y) <= reckoner.travelled
  /\ reckoner.travelled <= clock - hist.began

\* A receiver that was lost is found again: once its port stays, and it says where it is again
\* and again, the reader reports a fix again and again.
FixReturns ==
  /\ gps.handle \notin NoReader /\ <>[]plugged
  /\ <>[][~(gps.handle = "live" /\ ReadFails)]_vars
  /\ SF_vars(\E s \in Sentences : CarriesFix(s) /\ ReadOnce(s))
  => []<>(Reading = "FIX")

\* A receiver that is lost for good does not go on being taken for one that is there: the tick
\* falls back on the reckoned pose, under its own name, and the health report says why.
LossIsReported ==
  gps.handle \notin NoReader /\ <>[]~plugged
  => <>[](GpsHealth = "FAILED" /\ Position.source = "DEAD_RECKONING")

\* The receiver's coming and going is followed, either way, for as long as it takes.
ReceiverIsFollowed == FixReturns /\ LossIsReported
=============================================================================
