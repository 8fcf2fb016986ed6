-------------------------------- MODULE Sight --------------------------------
(***************************************************************************)
(* What the rover sees and what it asks of its motors because of it: the   *)
(* camera's capture thread (hardware/camera.py), the detection thread      *)
(* (perception/pipeline.py), and the parts of the agent's tick in which    *)
(* DecisionMaker and SafetyGate (control/) turn their last result into a   *)
(* motion intent, and HealthMonitor (diagnostics/) reports on them.        *)
(*                                                                         *)
(* The three run on threads of their own and meet at two locks: that of    *)
(* the latest frame and that of the latest result.  A cycle of the         *)
(* detection thread reads the frame and then its age, each under the lock, *)
(* and looks at what it read with no lock at all, for as long as inference *)
(* takes.  Time is what the ages count, each up to one past its limit.     *)
(***************************************************************************)
EXTENDS Integers, FiniteSets

CONSTANTS
  NoFrame,
  Views,         \* what the camera may show: sets of rows [label, box] of the detector,
                 \* box = <<x1, y1, x2, y2>> in pixels of the inference frame
  ScaleX, ScaleY,\* from the inference frame to the frame
  Width, Height, \* of the frame, in pixels
  CenterBand,    \* obstacle_center_zone_ratio of the frame's width, in pixels, its two edges
                 \* rounded to whole ones as far from the middle
  MinArea, SlowArea, StopArea,
  Full,          \* the speed 1.0; the speeds below are in the same unit
  CruiseSpeed, SlowSpeed, TurnSpeed, DecisionMaxSpeed, SafetyMaxSpeed,
  FullScale, Deadband,  \* steering, in degrees
  StopDistance, RequireRangeSensor,
  Navigations,   \* what the navigator may say: [status, error], error = {degrees} or {}
  FrameStale, StaleAfter, MaxIntentAge,
  Metrics,       \* what the host may say of itself: [loaded, readable]
  ErrorLimit     \* consecutive capture errors after which the camera counts as failed: 10

ASSUME SightAssumption ==
  /\ NoFrame \notin Views
  /\ {ScaleX, ScaleY, Width, Height, Full, FullScale, SafetyMaxSpeed, ErrorLimit}
       \subseteq Nat \ {0}
  /\ CenterBand \in 0..Width /\ (Width - CenterBand) % 2 = 0
  /\ {MinArea, SlowArea, StopArea, CruiseSpeed, SlowSpeed, TurnSpeed, DecisionMaxSpeed,
      Deadband, StopDistance, FrameStale, StaleAfter, MaxIntentAge} \subseteq Nat
  /\ RequireRangeSensor \in BOOLEAN
  /\ Metrics \subseteq [loaded: BOOLEAN, readable: BOOLEAN] /\ Metrics # {}

VARIABLES
  camera,  \* whether it is there; the shared frame, its age, the capture errors in a row,
           \* capture_failed
  worker,  \* the detection thread: where it is in a cycle, and the frame it holds
  result,  \* the last PerceptionResult, with its age
  prev,    \* _prev_largest_area
  moving,  \* whether the intent that the last tick published moves the rover
  report,  \* the status of the last health report
  late     \* ghost: the frames found worth looking at since the newest went stale

vars == <<camera, worker, result, prev, moving, report, late>>

Least(x, y) == IF x < y THEN x ELSE y
Most(x, y) == IF x < y THEN y ELSE x
Within(x, low, high) == Most(low, Least(high, x))
Abs(x) == Most(x, -x)

(***************************************************************************)
(* Perception: detector rows to detections in the frame's own pixels.      *)
(***************************************************************************)
IsBox(b) == b[1] < b[3] /\ b[2] < b[4]
InFrame(b) == IsBox(b) /\ b[1] >= 0 /\ b[2] >= 0 /\ b[3] <= Width /\ b[4] <= Height
Scaled == ScaleX # 1 \/ ScaleY # 1
\* The detector leaves no box outside the frame that it was given (filter_detections): that
\* of the camera, where neither is scaled.
ASSUME ViewsAssumption ==
  \A view \in Views : \A row \in view :
    /\ \A i \in 1..4 : row.box[i] \in Int
    /\ ~Scaled /\ IsBox(row.box) => InFrame(row.box)
NotCut(b) == <<b[1] * ScaleX, b[2] * ScaleY, b[3] * ScaleX, b[4] * ScaleY>>  \* mutant of Rescaled
\* _rescale: to the frame, and cut off at its edges; a frame of the detector's size is left
\* as it is.
Rescaled(b) == IF ~Scaled THEN b ELSE
  <<Within(b[1] * ScaleX, 0, Width - 1), Within(b[2] * ScaleY, 0, Height - 1),
    Within(b[3] * ScaleX, 0, Width), Within(b[4] * ScaleY, 0, Height)>>
Detection(row) ==
  LET b == Rescaled(row.box)
  IN [label |-> row.label, bbox |-> b, area |-> (b[3] - b[1]) * (b[4] - b[2])]
\* detections_from_dicts drops the malformed rows, _rescale what is left of them outside.
Detections(view) ==
  {Detection(row) : row \in {r \in view : IsBox(r.box) /\ IsBox(Rescaled(r.box))}}
\* What the detector makes of each view.
Sighting == [view \in Views |-> Detections(view)]

Areas(seen) == {d.area : d \in seen} \cup {0}
LargestArea(seen) == CHOOSE a \in Areas(seen) : \A b \in Areas(seen) : b <= a
Cx(d) == (d.bbox[1] + d.bbox[3]) \div 2

Unavailable(status) == [status |-> status, seen |-> {}, delta |-> 0, age |-> 0]

\* PerceptionPipeline.latest: a result that has aged out is STALE.
EverFresh == result  \* mutant of Latest
Latest ==
  IF result.status = "OK" /\ result.age > StaleAfter THEN Unavailable("STALE") ELSE result
\* A result that is OK comes with its frame's metadata.
Usable(r) == r.status = "OK"

(***************************************************************************)
(* Motion intents.  A velocity is left/per and right/per, exactly.         *)
(***************************************************************************)
Motion(command, left, right, per) ==
  [command |-> command, per |-> per,
   left |-> Within(left, -Full * per, Full * per),
   right |-> Within(right, -Full * per, Full * per)]
Stop == Motion("STOP", 0, 0, 1)
Hold == Motion("HOLD", 0, 0, 1)
Moves(i) == i.left # 0 \/ i.right # 0
IsStop(i) == i.command \in {"STOP", "HOLD"}
\* MotionIntent.forward, steering by n/den: the inner side is slowed.
Forward(speed, num, den) ==
  LET s == Within(speed, 0, Full)
      n == Within(num, -den, den)
  IN Motion("FORWARD", s * (den - Most(0, -n)), s * (den - Most(0, n)), den)
TurnLeft(speed) == LET s == Within(speed, 0, Full) IN Motion("TURN_LEFT", -s, s, 1)
TurnRight(speed) == LET s == Within(speed, 0, Full) IN Motion("TURN_RIGHT", s, -s, 1)

(***************************************************************************)
(* DecisionMaker                                                           *)
(***************************************************************************)
CenterZone == ((Width - CenterBand) \div 2)..((Width + CenterBand) \div 2)
InCorridor(r) == {d \in r.seen : d.area >= MinArea /\ Cx(d) \in CenterZone}
\* max() takes the first of equals: here any of them.
Blocking(r) ==
  CHOOSE d \in InCorridor(r) : \A e \in InCorridor(r) : e.area <= d.area

Avoid(obstacle, r) ==
  IF obstacle.area >= StopArea \/ r.delta >= SlowArea THEN Stop
  ELSE IF 2 * Cx(obstacle) < Width THEN TurnRight(TurnSpeed) ELSE TurnLeft(TurnSpeed)

FollowRoute(error, r) ==
  LET speed == Least(IF LargestArea(r.seen) >= SlowArea THEN SlowSpeed ELSE CruiseSpeed,
                     DecisionMaxSpeed)
      e == CHOOSE x \in error : TRUE
  IN IF error = {} THEN Forward(SlowSpeed, 0, 1)
     ELSE IF Abs(e) <= Deadband THEN Forward(speed, 0, 1)
     ELSE IF e >= 90 THEN TurnRight(TurnSpeed)
     ELSE IF e <= -90 THEN TurnLeft(TurnSpeed)
     ELSE Forward(speed, e, FullScale)

PersonInFront(active, nav, r) ==  \* mutant of Decide: only a person in the corridor counts
  CASE ~active -> Hold
    [] active /\ ~Usable(r) -> Stop
    [] active /\ Usable(r) /\ \E d \in InCorridor(r) : d.label = "person" -> Stop
    [] OTHER ->
         CASE nav.status \in {"IDLE", "ARRIVED"} -> Hold
           [] nav.status \in {"NO_POSITION", "REROUTE_NEEDED"} -> Stop
           [] OTHER -> IF InCorridor(r) # {} THEN Avoid(Blocking(r), r)
                       ELSE FollowRoute(nav.error, r)
Decide(active, nav, r) ==
  CASE ~active -> Hold
    [] active /\ ~Usable(r) -> Stop
    [] active /\ Usable(r) /\ \E d \in r.seen : d.label = "person" -> Stop
    [] OTHER ->
         CASE nav.status \in {"IDLE", "ARRIVED"} -> Hold
           [] nav.status \in {"NO_POSITION", "REROUTE_NEEDED"} -> Stop
           [] OTHER -> IF InCorridor(r) # {} THEN Avoid(Blocking(r), r)
                       ELSE FollowRoute(nav.error, r)

(***************************************************************************)
(* SafetyGate                                                              *)
(***************************************************************************)
\* A reading of a forward range sensor, or NoSensor where none is fitted.
NoSensor == [status |-> "no sensor", distance |-> 0]
RangeVetoes(range) ==
  IF range.status = "VALID" THEN range.distance <= StopDistance ELSE RequireRangeSensor

Peak(i) == Most(Abs(i.left), Abs(i.right))
\* Both sides by the same factor, SafetyMaxSpeed over the peak.
Clamp(i) ==
  [i EXCEPT !.left = @ * SafetyMaxSpeed, !.right = @ * SafetyMaxSpeed, !.per = Peak(i)]

Evaluate(i, estop, active, age, range, r) ==
  CASE estop -> Stop
    [] ~estop /\ IsStop(i) -> i
    [] ~estop /\ ~IsStop(i)
         /\ (~active \/ age > MaxIntentAge \/ RangeVetoes(range) \/ ~Usable(r)) -> Stop
    [] OTHER -> IF Peak(i) > SafetyMaxSpeed * i.per THEN Clamp(i) ELSE i

\* What a tick publishes: no range reading is passed, and the intent is as old as the tick.
Published(active, estop, nav) ==
  Evaluate(Decide(active, nav, Latest), estop, active, 0, NoSensor, Latest)

(***************************************************************************)
(* Starting up.  A camera that is switched off or does not open is no      *)
(* reason not to start; neither is a detector that does not load.          *)
(***************************************************************************)
Camera(device) == [device |-> device, frame |-> NoFrame, age |-> 0, errors |-> 0, failed |-> FALSE]
\* _Picamera2Manager.acquire: the device opens and its thread starts, or it raises ...
Acquire == {Camera("on"), Camera("failed")}
\* ... which leaves the agent without a camera.
StartCamera == {Camera("disabled")} \cup Acquire

Idle == [pc |-> "idle", hand |-> NoFrame]
Off == [pc |-> "off", hand |-> NoFrame]
\* PerceptionPipeline.build and start: no thread without a camera and a detector.
StartPerception(device) ==
  {<<Off, Unavailable("DISABLED")>>}
    \cup (IF device = "on" THEN {<<Idle, Unavailable("NO_FRAME")>>} ELSE {})

Init ==
  /\ camera \in StartCamera
  /\ \E started \in StartPerception(camera.device) : worker = started[1] /\ result = started[2]
  /\ prev = 0
  /\ moving = FALSE
  /\ report = "UNKNOWN"
  /\ late = 0

Stalled == camera.frame # NoFrame /\ camera.age > FrameStale

(***************************************************************************)
(* Health: of the camera as it is, and of perception as the tick found it. *)
(***************************************************************************)
\* CameraStream.get_status, of one that was started.
CameraStatus ==
  CASE camera.failed -> "FAILED"
    [] ~camera.failed /\ camera.frame = NoFrame -> "STARTING"
    [] OTHER -> IF Stalled THEN "STALLED" ELSE "STREAMING"

CameraVerdict ==
  [STREAMING |-> "HEALTHY", STARTING |-> "DEGRADED", STALLED |-> "FAILED", FAILED |-> "FAILED"]
CameraHealth ==
  CASE camera.device = "disabled" -> "UNKNOWN"
    [] camera.device = "failed" -> "FAILED"
    [] camera.device = "on" -> CameraVerdict[CameraStatus]
PerceptionVerdict ==
  [OK |-> "HEALTHY", DISABLED |-> "UNKNOWN", NO_FRAME |-> "DEGRADED", STALE |-> "DEGRADED",
   DETECTOR_ERROR |-> "FAILED"]
PerceptionHealth == PerceptionVerdict[Latest.status]
SystemHealth(m) ==
  CASE m.loaded -> "DEGRADED" [] ~m.loaded /\ m.readable -> "HEALTHY" [] OTHER -> "UNKNOWN"

Severity == [HEALTHY |-> 0, UNKNOWN |-> 1, DEGRADED |-> 2, FAILED |-> 3]
\* HealthMonitor.evaluate: the worst of them, and nothing worse than unknown is degraded.
Overall(healths) ==
  LET worst == CHOOSE h \in healths : \A g \in healths : Severity[g] <= Severity[h]
  IN IF worst = "UNKNOWN" THEN "DEGRADED" ELSE worst

\* ... of the parts modelled here: the others can only make it worse.
HealthReports == {Overall({CameraHealth, PerceptionHealth, SystemHealth(m)}) : m \in Metrics}

(***************************************************************************)
(* The threads.                                                            *)
(***************************************************************************)
\* _Picamera2Manager._loop: capture_array returns a frame, or nothing, or raises.
Capture ==
  /\ camera.device = "on"
  /\ \E view \in Views :
       camera' = [camera EXCEPT !.frame = view, !.age = 0, !.errors = 0, !.failed = FALSE]
  /\ late' = 0
  /\ UNCHANGED <<worker, result, prev, moving, report>>
CaptureError ==
  /\ camera.device = "on"
  /\ camera' = [camera EXCEPT !.errors = Least(@ + 1, ErrorLimit),
                              !.failed = @ \/ camera.errors + 1 >= ErrorLimit]
  /\ UNCHANGED <<worker, result, prev, moving, report, late>>

Publish(r) == result' = r
Rest == worker' = Idle

\* _run_detection, up to the frame: a copy, made under the camera's lock.
GetFrame ==
  /\ worker.pc = "idle"
  /\ IF camera.frame = NoFrame
       THEN Publish(Unavailable("NO_FRAME")) /\ Rest
       ELSE worker' = [pc |-> "aging", hand |-> camera.frame] /\ UNCHANGED result
  /\ UNCHANGED <<camera, prev, moving, report, late>>

AgeUnseen ==  \* mutant of GetAge: any frame is worth looking at
  /\ worker.pc = "aging"
  /\ worker' = [worker EXCEPT !.pc = "inferring"]
  /\ late' = IF Stalled THEN Least(late + 1, 2) ELSE late
  /\ UNCHANGED <<camera, result, prev, moving, report>>
\* ... and its age: of the camera's newest frame, which may be newer than the one at hand.
GetAge ==
  /\ worker.pc = "aging"
  /\ IF camera.age > FrameStale
       THEN Publish(Unavailable("NO_FRAME")) /\ Rest
       ELSE worker' = [worker EXCEPT !.pc = "inferring"] /\ UNCHANGED result
  /\ UNCHANGED <<camera, prev, moving, report, late>>

\* ... inference, and _publish: the result is as old as its publication, not as its frame.
Infer ==
  /\ worker.pc = "inferring"
  /\ LET seen == Sighting[worker.hand]
     IN /\ Publish([status |-> "OK", seen |-> seen, delta |-> LargestArea(seen) - prev, age |-> 0])
        /\ prev' = LargestArea(seen)
  /\ Rest
  /\ late' = IF Stalled THEN Least(late + 1, 2) ELSE late
  /\ UNCHANGED <<camera, moving, report>>

ThreadDies ==  \* mutant of CycleFails
  /\ worker.pc # "off"
  /\ worker' = Off
  /\ Publish(Unavailable("DETECTOR_ERROR"))
  /\ UNCHANGED <<camera, prev, moving, report, late>>
\* Inference raises, and is caught in the cycle; anything else that does, in the loop.
CycleFails ==
  /\ worker.pc # "off"
  /\ Publish(Unavailable("DETECTOR_ERROR"))
  /\ Rest
  /\ UNCHANGED <<camera, prev, moving, report, late>>

\* The tick, with the health of a tick that it is due in.
Tick(due) ==
  /\ UNCHANGED <<camera, worker, result, prev, late>>
  /\ IF due
       THEN report' \in HealthReports
       ELSE UNCHANGED report
  /\ moving' \in {go \in BOOLEAN : \E active, estop \in BOOLEAN, nav \in Navigations :
                                    Moves(Published(active, estop, nav)) = go}

\* Time passes for the newest frame, if there is one, and for the last result.
Pass ==
  /\ camera' = [camera EXCEPT !.age = IF camera.frame = NoFrame THEN 0
                                      ELSE Least(@ + 1, FrameStale + 1)]
  /\ result' = [result EXCEPT !.age = IF result.status = "OK" THEN Least(@ + 1, StaleAfter + 1)
                                      ELSE 0]
  /\ UNCHANGED <<worker, prev, moving, report, late>>

Next ==
  \/ Capture \/ CaptureError
  \/ GetFrame \/ GetAge \/ Infer \/ CycleFails
  \/ Tick(TRUE) \/ Tick(FALSE) \/ Pass
Spec == Init /\ [][Next]_vars

\* The agent ticks, health is due again and again, and time passes; a thread may hang, in the
\* camera or in inference.
FairSpec == Spec /\ WF_vars(Tick(TRUE)) /\ WF_vars(Pass)

(***************************************************************************)
(* Properties.                                                             *)
(***************************************************************************)
Statuses == {"OK", "NO_FRAME", "DETECTOR_ERROR", "DISABLED", "STALE"}
Seens == {Sighting[view] : view \in Views} \cup {{}}
\* The types, and that what is seen lies within the frame.
TypeOK ==
  /\ camera \in [device: {"disabled", "failed", "on"}, frame: Views \cup {NoFrame},
                 age: 0..(FrameStale + 1), errors: 0..ErrorLimit, failed: BOOLEAN]
  /\ worker \in [pc: {"off", "idle", "aging", "inferring"}, hand: Views \cup {NoFrame}]
  /\ worker.pc \in {"aging", "inferring"} <=> worker.hand # NoFrame
  /\ result \in [status: Statuses \ {"STALE"}, seen: Seens, delta: Int, age: 0..(StaleAfter + 1)]
  /\ \A d \in result.seen : InFrame(d.bbox)
  /\ result.status # "OK" => result.seen = {}
  /\ prev \in Nat
  /\ moving \in BOOLEAN
  /\ report \in {"HEALTHY", "DEGRADED", "FAILED", "UNKNOWN"}
  /\ late \in 0..2

\* Once the camera has stalled, at most the one frame under inference is still taken for what is
\* there: the frame that stays in memory is not looked at again.
OneLateResult == late <= 1

\* Whatever the threads left, the mode, the latch and the navigator say, the next tick asks for
\* motion on a usable result only, with no person anywhere in view; forward only with nothing
\* sizeable in the corridor, and a turn there only away from the largest of what is.
MovesOnlyWhereClear ==
  \A active, estop \in BOOLEAN, nav \in Navigations :
    LET i == Published(active, estop, nav)
        ahead == {d \in result.seen :
                    d.area >= MinArea /\ d.bbox[1] + d.bbox[3] >= Width - CenterBand
                                      /\ d.bbox[1] + d.bbox[3] <= Width + CenterBand + 1}
    IN Moves(i) =>
         /\ result.status = "OK" /\ result.age <= StaleAfter
         /\ \A d \in result.seen : d.label # "person"
         /\ ahead # {} =>
              /\ i.command \in {"TURN_LEFT", "TURN_RIGHT"}
              /\ \A d \in ahead : d.area < StopArea
              /\ \E d \in ahead :
                   /\ \A e \in ahead : e.area <= d.area
                   /\ i.command = "TURN_RIGHT" <=> d.bbox[1] + d.bbox[3] < Width + (Width % 2)

\* The gate can only reduce what it is given, whoever asks and whatever for: it lets nothing
\* through with the latch engaged, outside a mission, on a stale intent, past an obstacle in
\* range or unseen; and what it lets through keeps its shape and goes no faster.
Proposals ==
  {Motion("FORWARD", l, r, 1) : l, r \in {-Full, 0, 1, Full}}
Ranges ==
  {NoSensor, [status |-> "TIMEOUT", distance |-> 0]}
    \cup {[status |-> "VALID", distance |-> d] : d \in {StopDistance, StopDistance + 1}}
GateOnlyReduces ==
  \A p \in Proposals, estop, active \in BOOLEAN, age \in {0, MaxIntentAge + 1}, range \in Ranges :
    LET i == Evaluate(p, estop, active, age, range, Latest)
    IN ~IsStop(p) /\ Moves(i) =>
         /\ ~estop /\ active /\ age = 0 /\ Usable(Latest)
         /\ range # [status |-> "VALID", distance |-> StopDistance]
         /\ i.left * p.right = i.right * p.left
         /\ i.left * p.left >= 0 /\ i.right * p.right >= 0
         /\ Peak(i) <= Least(Peak(p), SafetyMaxSpeed) * i.per

\* What the tick asks of the motors is warranted by what is seen, and the gate, which holds
\* whoever proposes the motion, only ever takes away from it.
MotionIsWarranted == MovesOnlyWhereClear /\ GateOnlyReduces

\* A rover that goes blind stops, stays so and says so: when no frame comes any more, and when
\* the detector never comes back from the one it has.
BlindStops ==
  <>[]Stalled \/ <>[](worker.pc = "inferring") => <>[](~moving /\ report # "HEALTHY")

\* A camera that failed, a stalled one and a detector that raised are no end: where the threads
\* go on, and find a fresh frame again and again, so does the sight of what is there.
GoesOn ==
  /\ SF_vars(Capture) /\ WF_vars(GetFrame) /\ SF_vars(~Stalled /\ GetFrame)
  /\ SF_vars(~Stalled /\ GetAge) /\ SF_vars(Infer)
SightReturns ==
  GoesOn /\ worker.pc # "off" => []<>Usable(Latest) /\ []<>(CameraStatus = "STREAMING")
=============================================================================
