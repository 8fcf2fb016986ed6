------------------------- MODULE Localization_proofs -------------------------
(***************************************************************************)
(* Proofs about Localization, for every receiver, every limit and however  *)
(* the port comes and goes: a measured position is of the port as it is    *)
(* open, the reckoned pose is of this run, and the types.                  *)
(***************************************************************************)
EXTENDS Localization, TLAPS

Places == Nat \cup {Nowhere}
Fixes == [at: Places, time: Nat \cup {Never}, speed: Nat \cup {Missing}, track: 0..3 \cup {Missing}]
Handles == {"none", "live", "dead"} \cup NoReader
ReaderStatuses == {"STARTING", "UNAVAILABLE", "DISCONNECTED", "NO_FIX", "FIX"}
Readings == [handle: Handles, status: ReaderStatuses, fix: Fixes]
Poses == [x: Int, y: Int, heading: 0..3, travelled: Nat, last: Nat \cup {Never}]
Hists == [since_open: BOOLEAN, began: Nat]

(***************************************************************************)
(* The inductive invariant.  A reader that says FIX has read its fix since *)
(* the port was opened; and the clock of the reckoner is one of this run.  *)
(***************************************************************************)
Shape ==
  /\ clock \in Nat
  /\ gps \in Readings
  /\ reckoner \in Poses
  /\ hist \in Hists

Sound ==
  /\ gps.status = "FIX" => gps.handle \in {"live", "dead"} /\ hist.since_open /\ gps.fix # NoFix
  /\ hist.began <= clock
  /\ Abs(reckoner.x) + Abs(reckoner.y) <= reckoner.travelled
  /\ IF reckoner.last = Never THEN reckoner.travelled = 0
     ELSE /\ hist.began <= reckoner.last /\ reckoner.last <= clock
          /\ reckoner.travelled <= reckoner.last - hist.began
IInv == Shape /\ Sound

LEMMA NoFixType == NoFix \in Fixes
  BY DEF NoFix, Fixes, Places, Nowhere, Never, Missing

LEMMA OriginType ==
  /\ Origin \in Poses /\ Origin.x = 0 /\ Origin.y = 0 /\ Origin.travelled = 0
  /\ Origin.last = Never
  BY DEF Origin, Poses, Never

LEMMA InitIInv == Init => IInv
<1> SUFFICES ASSUME Init PROVE IInv
  OBVIOUS
<1>1. gps \in Readings /\ gps.status # "FIX"
  <2>1. CASE gps = [handle |-> "none", status |-> "STARTING", fix |-> NoFix]
    BY <2>1, NoFixType DEF Readings, Handles, ReaderStatuses
  <2>2. CASE gps \in [handle: NoReader, status: {"UNAVAILABLE"}, fix: {NoFix}]
    BY <2>2, NoFixType DEF Readings, Handles, ReaderStatuses
  <2> QED
    BY <2>1, <2>2 DEF Init, Readers
<1> QED
  BY <1>1, OriginType DEF Init, IInv, Shape, Sound, Abs, Hists

(***************************************************************************)
(* The reader's thread, and the port.                                      *)
(***************************************************************************)
LEMMA ParsedType ==
  ASSUME IInv, NEW s \in Sentences, CarriesFix(s)
  PROVE  Parsed(s, gps.fix) \in Fixes /\ Parsed(s, gps.fix) # NoFix
<1>1. /\ s.at \in Nat \cup {Nowhere} /\ s.speed \in Nat \cup {Missing}
      /\ s.track \in 0..3 \cup {Missing} /\ s.at # Nowhere
  BY LocalizationAssumption DEF CarriesFix
<1>2. gps.fix \in Fixes /\ clock \in Nat
  BY DEF IInv, Shape, Readings
<1>3. Parsed(s, gps.fix) \in Fixes
  BY <1>1, <1>2 DEF Parsed, Fixes, Places
<1>4. Parsed(s, gps.fix).at # NoFix.at
  BY <1>1 DEF Parsed, NoFix
<1> QED
  BY <1>3, <1>4

LEMMA ReaderKeeps ==
  IInv /\ (OpenSerial \/ ReadFails \/ Unplug \/ \E s \in Sentences : ReadOnce(s)) => IInv'
<1> SUFFICES ASSUME IInv, OpenSerial \/ ReadFails \/ Unplug \/ \E s \in Sentences : ReadOnce(s)
             PROVE  IInv'
  OBVIOUS
<1>1. gps \in Readings /\ hist \in Hists /\ UNCHANGED <<clock, reckoner>>
  BY DEF IInv, Shape, OpenSerial, ReadFails, Unplug, ReadOnce
<1>2. /\ gps' \in Readings /\ hist' \in Hists /\ hist'.began = hist.began
      /\ gps'.status = "FIX" =>
           gps'.handle \in {"live", "dead"} /\ hist'.since_open /\ gps'.fix # NoFix
  <2>1. CASE OpenSerial
    BY <1>1, <2>1 DEF OpenSerial, Readings, Handles, ReaderStatuses, Hists
  <2>2. CASE ReadFails \/ Unplug
    BY <1>1, <2>2 DEF ReadFails, Unplug, Readings, Handles, ReaderStatuses, Hists, IInv, Sound
  <2>3. ASSUME NEW s \in Sentences, ReadOnce(s), CarriesFix(s)
        PROVE  /\ gps' \in Readings /\ hist' \in Hists /\ hist'.began = hist.began
               /\ gps'.handle = "live" /\ hist'.since_open /\ gps'.fix # NoFix
    BY <1>1, <2>3, ParsedType DEF ReadOnce, Readings, Handles, ReaderStatuses, Hists
  <2>4. ASSUME NEW s \in Sentences, ReadOnce(s), ~CarriesFix(s)
        PROVE  /\ gps' \in Readings /\ hist' = hist
               /\ gps'.status = "FIX" => gps' = gps
    BY <1>1, <2>4 DEF ReadOnce, Readings, ReaderStatuses
  <2> QED
    BY <1>1, <2>1, <2>2, <2>3, <2>4 DEF IInv, Sound
<1> QED
  BY <1>1, <1>2 DEF IInv, Shape, Sound, Abs

(***************************************************************************)
(* The reckoner: no step takes it farther than the time that has passed.   *)
(***************************************************************************)
LEMMA QuarterTurns ==
  ASSUME NEW h \in 0..3, NEW n \in Int
  PROVE  /\ (h + n) % 4 \in 0..3
         /\ \A q \in 0..3 : \/ East[q + 1] = 0 /\ North[q + 1] \in {-1, 1}
                            \/ North[q + 1] = 0 /\ East[q + 1] \in {-1, 1}
<1>1. (h + n) % 4 \in 0..3
  BY Z3
<1>2. \A q \in 0..3 : q = 0 \/ q = 1 \/ q = 2 \/ q = 3
  BY Z3
<1> QED
  BY <1>1, <1>2 DEF East, North

LEMMA IntegrateBounds ==
  ASSUME IInv, NEW i \in Intents
  PROVE  LET r == Integrate(reckoner, i)
         IN /\ r \in Poses
            /\ r.last = clock
            /\ Abs(r.x) + Abs(r.y) <= r.travelled
            /\ r.travelled <= clock - hist.began
<1> DEFINE dt == clock - reckoner.last
           heading == (reckoner.heading + i.angular * dt) % 4
           way == i.linear * dt
<1>1. /\ reckoner \in Poses /\ clock \in Nat /\ hist.began \in Nat
      /\ i.linear \in -1..1 /\ i.angular \in -1..1
  BY LocalizationAssumption DEF IInv, Shape, Hists
<1>2. /\ reckoner.x \in Int /\ reckoner.y \in Int /\ reckoner.travelled \in Nat
      /\ reckoner.heading \in 0..3 /\ reckoner.last \in Nat \cup {Never}
  BY <1>1 DEF Poses
<1>3. CASE reckoner.last = Never \/ dt <= 0 \/ dt > MaxStep
  <2>1. Integrate(reckoner, i) = [reckoner EXCEPT !.last = clock]
    BY <1>3 DEF Integrate
  <2>2. reckoner.travelled <= clock - hist.began
    BY <1>1, <1>2 DEF IInv, Sound, Never
  <2> QED
    BY <1>1, <1>2, <2>1, <2>2 DEF Poses, IInv, Sound
<1>4. CASE ~(reckoner.last = Never \/ dt <= 0 \/ dt > MaxStep)
  <2>1. dt \in Nat /\ reckoner.last \in Nat
    BY <1>1, <1>2, <1>4
  <2>2. /\ way \in Int /\ (way = dt \/ way = 0 \/ way = -dt)
        /\ i.angular * dt \in Int
    <3>1. i.linear = -1 \/ i.linear = 0 \/ i.linear = 1
      BY <1>1
    <3>2. i.angular = -1 \/ i.angular = 0 \/ i.angular = 1
      BY <1>1
    <3> HIDE DEF dt
    <3> QED
      BY <2>1, <3>1, <3>2
  <2>3. /\ heading \in 0..3
        /\ \/ East[heading + 1] = 0 /\ North[heading + 1] \in {-1, 1}
           \/ North[heading + 1] = 0 /\ East[heading + 1] \in {-1, 1}
    BY <1>2, <2>2, QuarterTurns
  <2> DEFINE e == East[heading + 1]
             n == North[heading + 1]
             r == [x |-> reckoner.x + way * e, y |-> reckoner.y + way * n, heading |-> heading,
                   travelled |-> reckoner.travelled + Abs(way), last |-> clock]
  <2>4. Integrate(reckoner, i) = r
    BY <1>4 DEF Integrate
  <2>5. /\ way * e \in Int /\ way * n \in Int
        /\ Abs(way * e) + Abs(way * n) = Abs(way)
        /\ Abs(way) \in Nat /\ Abs(way) <= dt
    <3> HIDE DEF e, n, way, dt
    <3>1. (e = 0 \/ e = 1 \/ e = -1) /\ (n = 0 \/ n = 1 \/ n = -1) /\ (e = 0 <=> n # 0)
      BY <2>3 DEF e, n
    <3>2. way * 0 = 0 /\ way * 1 = way /\ way * (-1) = -way
      BY <2>2
    <3>3. Abs(-way) = Abs(way) /\ Abs(0) = 0 /\ Abs(way) \in Nat /\ Abs(way) <= dt
      BY <2>1, <2>2 DEF Abs
    <3> QED
      BY <2>2, <3>1, <3>2, <3>3
  <2>6. Abs(reckoner.x + way * e) + Abs(reckoner.y + way * n)
          <= reckoner.travelled + Abs(way)
    <3>1. Abs(reckoner.x) + Abs(reckoner.y) <= reckoner.travelled
      BY DEF IInv, Sound
    <3> HIDE DEF e, n, way
    <3> QED
      BY <1>2, <2>5, <3>1 DEF Abs
  <2>7. reckoner.travelled + Abs(way) <= clock - hist.began
    <3>1. reckoner.travelled <= reckoner.last - hist.began
      BY <2>1 DEF IInv, Sound, Never
    <3> HIDE DEF way
    <3> QED
      BY <1>1, <1>2, <2>1, <2>5, <3>1
  <2>8. r \in Poses
    <3> HIDE DEF e, n, way, heading
    <3> QED
      BY <1>1, <1>2, <2>3, <2>5 DEF Poses
  <2> HIDE DEF way, e, n, heading
  <2> QED
    BY <2>4, <2>6, <2>7, <2>8
<1> QED
  BY <1>3, <1>4

LEMMA TickKeeps == IInv /\ (Tick \/ BeginRun) => IInv'
<1> SUFFICES ASSUME IInv, Tick \/ BeginRun PROVE IInv'
  OBVIOUS
<1>1. CASE Tick
  <2> PICK i \in Intents : reckoner' = Integrate(reckoner, i)
    BY <1>1 DEF Tick
  <2>1. UNCHANGED <<clock, gps, hist>>
    BY <1>1 DEF Tick
  <2>2. clock \in Nat /\ hist.began \in Nat /\ hist.began <= clock
    BY DEF IInv, Shape, Sound, Hists
  <2> QED
    BY <2>1, <2>2, IntegrateBounds DEF IInv, Shape, Sound, Never
<1>2. CASE BeginRun
  <2>1. reckoner' = Origin /\ UNCHANGED <<clock, gps>>
    BY <1>2 DEF BeginRun, Reset
  <2>2. hist' \in Hists /\ hist'.began = clock /\ hist'.since_open = hist.since_open
    BY <1>2 DEF BeginRun, IInv, Shape, Hists
  <2> QED
    BY <2>1, <2>2, OriginType DEF IInv, Shape, Sound, Abs
<1> QED
  BY <1>1, <1>2

LEMMA StepKeeps == IInv /\ [Next]_vars => IInv'
<1>1. IInv /\ (UNCHANGED vars \/ Plug) => IInv'
  BY DEF vars, Plug, IInv, Shape, Sound, Abs
<1>2. IInv /\ Pass => IInv'
  <2> SUFFICES ASSUME IInv, Pass PROVE IInv'
    OBVIOUS
  <2>1. clock' = clock + 1 /\ clock \in Nat /\ UNCHANGED <<gps, reckoner, hist>>
    BY DEF Pass, IInv, Shape
  <2>2. hist.began \in Nat /\ reckoner.last \in Nat \cup {Never}
    BY DEF IInv, Shape, Hists, Poses
  <2> QED
    BY <2>1, <2>2 DEF IInv, Shape, Sound, Abs, Never
<1> QED
  BY <1>1, <1>2, ReaderKeeps, TickKeeps DEF Next

LEMMA Invariance == Spec => []IInv
  BY InitIInv, StepKeeps, PTL DEF Spec

(***************************************************************************)
(* The theorems.                                                           *)
(***************************************************************************)
\* Whatever the receiver sends and however its port comes and goes, a position that a tick takes
\* for measured was read from the port as it is open, within the age limit (GPSReader).
THEOREM MeasuredSinceOpenedHolds == Spec => []MeasuredSinceOpened
<1>1. IInv => MeasuredSinceOpened
  <2> SUFFICES ASSUME IInv, Position.source = "GPS"
               PROVE  hist.since_open /\ gps.fix # NoFix /\ clock - gps.fix.time <= StaleAfter
    BY DEF MeasuredSinceOpened
  <2>1. Reading = "FIX"
    BY DEF Position, Reckoned
  <2>2. gps.status = "FIX" /\ ~(clock - gps.fix.time > StaleAfter)
    BY <2>1 DEF Reading
  <2>3. clock \in Nat /\ gps.fix.time \in Int /\ StaleAfter \in Nat
    BY LocalizationAssumption DEF IInv, Shape, Readings, Fixes, Never
  <2> QED
    BY <2>2, <2>3 DEF IInv, Sound
<1> QED
  BY <1>1, Invariance, PTL

\* For all intents, clock steps and restarts of a run, the reckoned pose lies within the path
\* travelled, and that within what the time since the run began allows (DeadReckoner).
THEOREM PoseOfThisRunHolds == Spec => []PoseOfThisRun
<1>1. IInv => PoseOfThisRun
  <2> SUFFICES ASSUME IInv PROVE PoseOfThisRun
    OBVIOUS
  <2>1. /\ clock \in Nat /\ hist.began \in Nat /\ reckoner.travelled \in Nat
        /\ reckoner.last \in Nat \cup {Never}
    BY DEF IInv, Shape, Hists, Poses
  <2> QED
    BY <2>1 DEF IInv, Sound, PoseOfThisRun, Never
<1> QED
  BY <1>1, Invariance, PTL

(***************************************************************************)
(* The types.  What the invariant above does not say of them: a fix is a   *)
(* place that was read in the past, or none at all, and a heading has a    *)
(* source.                                                                 *)
(***************************************************************************)
Estimates == [heading: 0..3 \cup {Missing}, source: {"NONE", "NMEA_TRACK", "GPS_TRACK"},
              anchor: Places]
Estimated(e) == e \in Estimates /\ (e.source = "NONE" <=> e.heading = Missing)
Dated(fix) == fix.time <= clock /\ (fix.at = Nowhere => fix = NoFix)
Known == clock <= MaxClock /\ plugged \in BOOLEAN /\ Dated(gps.fix) /\ Estimated(estimator)

LEMMA InitKnown == Init => Known
<1> SUFFICES ASSUME Init PROVE Known
  OBVIOUS
<1>1. gps.fix = NoFix
  BY DEF Init, Readers
<1>2. clock <= MaxClock /\ Dated(NoFix)
  BY LocalizationAssumption DEF Init, Dated, NoFix, Never
<1>3. Estimated(estimator)
  BY DEF Init, Estimated, Estimates, Places, Missing, Nowhere
<1> QED
  BY <1>1, <1>2, <1>3 DEF Known, Init

LEMMA EstimateType ==
  ASSUME NEW e, Estimated(e), NEW fix \in Fixes, fix.at # Nowhere
  PROVE  Estimated(EstimateHeading(e, fix))
<1>1. /\ e.heading \in 0..3 \cup {Missing} /\ e.source \in {"NONE", "NMEA_TRACK", "GPS_TRACK"}
      /\ e.anchor \in Places /\ fix.track \in 0..3 \cup {Missing} /\ fix.at \in Places
      /\ Missing \notin 0..3
  BY DEF Estimated, Estimates, Fixes, Missing
<1>2. CASE fix.track # Missing /\ fix.speed # Missing /\ fix.speed >= MinSpeed
  <2>1. EstimateHeading(e, fix) =
          [heading |-> fix.track, source |-> "NMEA_TRACK", anchor |-> fix.at]
    BY <1>2 DEF EstimateHeading
  <2> QED
    BY <1>1, <1>2, <2>1 DEF Estimated, Estimates
<1>3. CASE /\ ~(fix.track # Missing /\ fix.speed # Missing /\ fix.speed >= MinSpeed)
           /\ e.anchor = Nowhere
  <2>1. EstimateHeading(e, fix) = [e EXCEPT !.anchor = fix.at]
    BY <1>3 DEF EstimateHeading
  <2> QED
    BY <1>1, <2>1 DEF Estimated, Estimates
<1>4. CASE /\ ~(fix.track # Missing /\ fix.speed # Missing /\ fix.speed >= MinSpeed)
           /\ e.anchor # Nowhere
  <2> DEFINE h == IF fix.at > e.anchor THEN 1 ELSE 3
  <2>1. \/ EstimateHeading(e, fix) = e
        \/ EstimateHeading(e, fix) = [heading |-> h, source |-> "GPS_TRACK", anchor |-> fix.at]
    BY <1>4 DEF EstimateHeading
  <2>2. h \in 0..3
    OBVIOUS
  <2> HIDE DEF h
  <2> QED
    BY <1>1, <2>1, <2>2 DEF Estimated, Estimates
<1> QED
  BY <1>2, <1>3, <1>4

LEMMA KnownKept == IInv /\ Known /\ [Next]_vars => Known'
<1> SUFFICES ASSUME IInv, Known, [Next]_vars PROVE Known'
  OBVIOUS
<1>1. gps \in Readings /\ clock \in Nat /\ MaxClock \in Nat
  BY LocalizationAssumption DEF IInv, Shape
<1>2. plugged' \in BOOLEAN
  BY DEF Known, Next, vars, OpenSerial, ReadFails, ReadOnce, Tick, BeginRun, Unplug, Plug, Pass
<1>3. clock' \in {clock, clock + 1} /\ clock' <= MaxClock
  <2>1. clock' = clock \/ Pass
    BY DEF Next, vars, OpenSerial, ReadFails, ReadOnce, Tick, BeginRun, Unplug, Plug
  <2>2. clock <= MaxClock
    BY DEF Known
  <2> QED
    BY <1>1, <2>1, <2>2 DEF Pass
<1>4. Dated(gps.fix)'
  <2>1. CASE gps'.fix = gps.fix
    <3>1. gps.fix.time \in Int /\ clock' \in Int
      BY <1>1, <1>3 DEF Readings, Fixes, Never
    <3> QED
      BY <1>1, <1>3, <2>1, <3>1 DEF Known, Dated
  <2>2. CASE \E s \in Sentences : ReadOnce(s) /\ CarriesFix(s)
    <3>1. PICK s \in Sentences : ReadOnce(s) /\ CarriesFix(s)
      BY <2>2
    <3>2. gps'.fix = Parsed(s, gps.fix) /\ clock' = clock
      BY <1>1, <3>1 DEF ReadOnce, Readings
    <3>3. gps'.fix.time = clock /\ gps'.fix.at # Nowhere
      BY <3>1, <3>2 DEF Parsed, CarriesFix
    <3> QED
      BY <1>1, <3>2, <3>3 DEF Dated
  <2>3. gps'.fix = gps.fix \/ \E s \in Sentences : ReadOnce(s) /\ CarriesFix(s)
    <3>1. ASSUME NEW s \in Sentences, ReadOnce(s), ~CarriesFix(s) PROVE gps'.fix = gps.fix
      BY <1>1, <3>1 DEF ReadOnce, Readings
    <3>2. OpenSerial \/ ReadFails \/ Unplug => gps'.fix = gps.fix
      BY <1>1 DEF OpenSerial, ReadFails, Unplug, Readings
    <3>3. Tick \/ BeginRun \/ Plug \/ Pass \/ UNCHANGED vars => gps'.fix = gps.fix
      BY DEF Tick, BeginRun, Plug, Pass, vars
    <3> QED
      BY <3>1, <3>2, <3>3 DEF Next
  <2> QED
    BY <2>1, <2>2, <2>3
<1>5. Estimated(estimator')
  <2>1. CASE Tick
    <3>1. estimator' = Updated
      BY <2>1 DEF Tick
    <3>2. Reading = "FIX" => gps.fix \in Fixes /\ gps.fix.at # Nowhere
      BY <1>1 DEF Reading, IInv, Sound, Known, Dated, Readings
    <3> QED
      BY <3>1, <3>2, EstimateType DEF Updated, Known
  <2>2. CASE ~Tick
    <3>1. estimator' = estimator
      BY <2>2 DEF Next, vars, OpenSerial, ReadFails, ReadOnce, BeginRun, Unplug, Plug, Pass
    <3> QED
      BY <3>1 DEF Known
  <2> QED
    BY <2>1, <2>2
<1> QED
  BY <1>2, <1>3, <1>4, <1>5 DEF Known

LEMMA KnownIsTyped == IInv /\ Known => TypeOK
<1> SUFFICES ASSUME IInv, Known PROVE TypeOK
  OBVIOUS
<1>1. clock \in 0..MaxClock /\ plugged \in BOOLEAN
  BY LocalizationAssumption DEF IInv, Shape, Known
<1>2. /\ gps.handle \in {"none", "live", "dead"} \cup NoReader
      /\ gps.status \in {"STARTING", "UNAVAILABLE", "DISCONNECTED", "NO_FIX", "FIX"}
  BY DEF IInv, Shape, Readings, Handles, ReaderStatuses
<1>3. gps.fix \in [at: Nat \cup {Nowhere}, time: 0..clock \cup {Never},
                   speed: Nat \cup {Missing}, track: 0..3 \cup {Missing}]
  <2>1. gps.fix \in Fixes /\ clock \in Nat /\ gps.fix.time <= clock
    BY DEF IInv, Shape, Readings, Known, Dated
  <2>2. gps.fix.time \in 0..clock \cup {Never}
    BY <2>1 DEF Fixes
  <2> QED
    BY <2>1, <2>2 DEF Fixes, Places
<1>4. gps.fix.at = Nowhere <=> gps.fix = NoFix
  BY DEF Known, Dated, NoFix
<1>5. /\ estimator.heading \in 0..3 \cup {Missing} /\ estimator.anchor \in Nat \cup {Nowhere}
      /\ estimator.source \in {"NONE", "NMEA_TRACK", "GPS_TRACK"}
      /\ estimator.source = "NONE" <=> estimator.heading = Missing
  BY DEF Known, Estimated, Estimates, Places
<1>6. reckoner \in [x: Int, y: Int, heading: 0..3, travelled: Nat, last: 0..clock \cup {Never}]
  <2>1. reckoner \in Poses /\ clock \in Nat
    BY DEF IInv, Shape
  <2>2. reckoner.last \in 0..clock \cup {Never}
    BY <2>1 DEF IInv, Sound, Poses
  <2> QED
    BY <2>1, <2>2 DEF Poses
<1>7. hist \in [since_open: BOOLEAN, began: 0..clock]
  <2>1. hist \in Hists /\ clock \in Nat /\ hist.began <= clock
    BY DEF IInv, Shape, Sound
  <2>2. hist.began \in 0..clock
    BY <2>1 DEF Hists
  <2> QED
    BY <2>1, <2>2 DEF Hists
<1> QED
  BY <1>1, <1>2, <1>3, <1>4, <1>5, <1>6, <1>7 DEF TypeOK

\* Whatever the receiver sends and however often its port comes and goes, a fix is a place read
\* in the past or none, a heading has a source, and pose and run keep their types (GPSReader,
\* PositionEstimator, DeadReckoner).
THEOREM TypeCorrect == Spec => []TypeOK
<1>1. Init => IInv /\ Known
  BY InitIInv, InitKnown
<1>2. IInv /\ Known /\ [Next]_vars => (IInv /\ Known)'
  BY StepKeeps, KnownKept
<1> QED
  BY <1>1, <1>2, KnownIsTyped, PTL DEF Spec
=============================================================================
