---------------------------- MODULE AgentMission ----------------------------
(***************************************************************************)
(* The agent (robotx/application/agent.py) with the mission manager, the   *)
(* navigator and the safety latch: the tick, the operator's requests, an   *)
(* accepted OFFER and the handovers; and, outside src/, the rover's place, *)
(* its GPS, what the camera shows and the link to the motors.              *)
(*                                                                         *)
(* Every handler and the tick run on one event loop and none awaits in the *)
(* middle, so each is one action.  The ESP32 link is enabled, with motion. *)
(***************************************************************************)
EXTENDS Integers, Sequences

CONSTANTS
  Tasks,         \* the deliveries the engine may offer
  CustodySensing,\* custody_sensing_available: FALSE on the rover as it is built today
  Places,        \* where the rover can be
  PickupPath,    \* PickupPath[t], DropPath[t]: the two paths of a delivery
  DropPath,
  LocalPaths,    \* routes the operator may start locally
  Home,          \* ROBOTX_HOME_LAT/LON, or NoPlace
  Far,           \* <<place, waypoint>> more than off_route_m apart
  Inferred,      \* where dead reckoning may believe the rover to be; {} when it is off
  Scenes,        \* what the camera may show
  OffRouteAfter, \* NavigationConfig.reroute_after_n
  BlockedAfter   \* NavigationConfig.blocked_reroute_after_n

NoPlace == "nowhere"
NoTask == "no task"

\* A leg has at least two points (MIN_PATH_POINTS), a local route at least one.
ASSUME PlacesAssumption ==
  /\ NoPlace \notin Places /\ NoTask \notin Tasks
  /\ {PickupPath, DropPath} \subseteq [Tasks -> Seq(Places)]
  /\ \A t \in Tasks : Len(PickupPath[t]) >= 2 /\ Len(DropPath[t]) >= 2
  /\ LocalPaths \subseteq Seq(Places) \ {<<>>}
  /\ CustodySensing \in BOOLEAN
  /\ Home \in Places \cup {NoPlace}
  /\ Far \subseteq Places \X Places
  /\ Inferred \subseteq Places
  /\ Scenes \subseteq {"clear", "unusable", "obstacle"}
  /\ {OffRouteAfter, BlockedAfter} \subseteq Nat \ {0}

VARIABLES
  rover,  \* the state of the agent, its mission manager, navigator and safety gate
  motor,  \* what the ESP32 link reports
  place,  \* where the rover is
  hist    \* ghost: what a property needs to remember

vars == <<rover, motor, place, hist>>

Modes == {"IDLE", "AUTO", "PAUSED", "STOPPED", "ERROR"}
Stages == <<"TO_PICKUP", "AT_PICKUP", "TO_DROP", "AT_DROP">>
Terminal == {"COMPLETE", "ABORTED"}
NoMission == [task |-> NoTask, status |-> "ABORTED", custody |-> FALSE, acquired |-> FALSE,
              released |-> FALSE, pickup_measured |-> FALSE, drop_measured |-> FALSE]

Init ==
  /\ rover = [mode |-> "IDLE", estop |-> FALSE, intent |-> "stop", kept |-> <<>>,
              origin |-> NoPlace, seen |-> NoPlace, mission |-> NoMission,
              route |-> <<>>, idx |-> 1, off |-> 0, blocked |-> 0]
  /\ motor \in [up: BOOLEAN, latched: {FALSE}, unhandled: {FALSE}]
  /\ place \in Places
  /\ hist = [acquired_at |-> NoPlace, asked |-> FALSE, replaced |-> FALSE]

Active(r) == r.mission.status \notin Terminal
MotionReady == motor.up /\ ~motor.latched

(***************************************************************************)
(* Navigation.                                                             *)
(***************************************************************************)

KeepsIndex(r, path) == [r EXCEPT !.route = path, !.off = 0, !.blocked = 0]  \* mutant of SetRoute
\* Navigator.set_route, RoutePlanner.set_route; clear_route is the empty route.
SetRoute(r, path) == [r EXCEPT !.route = path, !.idx = 1, !.off = 0, !.blocked = 0]

\* RoutePlanner.update_position.  The count of off-route ticks stops at its limit.
Waypoint(r) == r.route[r.idx]
StopsShort(r, here) ==  \* mutant of Passed
  IF here # Waypoint(r) THEN r
  ELSE [r EXCEPT !.idx = IF r.idx < Len(r.route) - 1 THEN @ + 1 ELSE @, !.off = 0]
Passed(r, here) ==
  IF here # Waypoint(r) THEN r
  ELSE [r EXCEPT !.idx = IF r.idx < Len(r.route) THEN @ + 1 ELSE @, !.off = 0]
Progressed(r, here) ==
  LET p == Passed(r, here)
  IN [p EXCEPT !.off = IF <<here, Waypoint(p)>> \notin Far THEN (IF @ = 0 THEN 0 ELSE @ - 1)
                       ELSE IF @ < OffRouteAfter THEN @ + 1 ELSE @]

Arrived(r, here) == r.idx = Len(r.route) /\ here = Waypoint(r)
ShouldReroute(r) == r.blocked >= BlockedAfter \/ r.off >= OffRouteAfter
\* Navigator.update: the route after the step, and what it says of it.
Navigated(r, here) ==
  IF r.route = <<>> \/ here = NoPlace THEN r ELSE Progressed(r, here)
NavigationStatus(r, here) ==
  CASE r.route = <<>>  -> "IDLE"
    [] r.route # <<>> /\ here = NoPlace -> "NO_POSITION"
    [] OTHER ->
         IF Arrived(r, here) THEN "ARRIVED"
         ELSE IF ShouldReroute(r) THEN "REROUTE_NEEDED"
         ELSE "NAVIGATING"

(***************************************************************************)
(* The mission.                                                            *)
(***************************************************************************)
DropLegs == {"TO_DROP", "AT_DROP"}
\* ActiveMission.route, MissionManager.current_route
LegPath(m) == IF m.status \in DropLegs THEN DropPath[m.task] ELSE PickupPath[m.task]

NothingAbandoned(r) == r  \* mutant of Abandon
\* MissionManager.abandon
Abandon(r) == IF Active(r) THEN [r EXCEPT !.mission.status = "ABORTED"] ELSE r

\* MissionManager.update, _advance_mission and _finish_mission.
LeavePickup(r) ==
  LET d == DropPath[r.mission.task]
  IN [SetRoute(r, d) EXCEPT !.mission.status = "TO_DROP", !.kept = d]
Finish(r) ==
  [r EXCEPT !.mission.status = "COMPLETE", !.kept = <<>>, !.mode = "IDLE", !.intent = "stop"]
AtDrop(r) == [SetRoute(r, <<>>) EXCEPT !.mission.status = "AT_DROP"]
Arrive(r, measured) ==
  CASE r.mission.status = "TO_PICKUP" ->
         [r EXCEPT !.mission.status = "AT_PICKUP", !.mission.pickup_measured = measured]
    [] r.mission.status = "TO_DROP" ->
         LET d == [r EXCEPT !.mission.drop_measured = measured]
         IN IF r.mission.custody THEN AtDrop(d) ELSE Finish(SetRoute(d, <<>>))

HoldsAtDropOnly(m) ==  \* mutant of Holds: the pickup is left without the parcel
  m.custody /\ m.status = "AT_DROP" /\ ~m.released
\* With custody the pickup is left when it is acquired, and the mission over when released.
Holds(m) ==
  /\ m.custody
  /\ \/ m.status = "AT_PICKUP" /\ ~m.acquired
     \/ m.status = "AT_DROP" /\ ~m.released
Advance(r, nav, measured) ==
  CASE ~Active(r) \/ Holds(r.mission) -> r
    [] OTHER ->
       CASE r.mission.status = "AT_PICKUP" -> LeavePickup(r)
         [] r.mission.status = "AT_DROP" -> Finish(r)
         [] OTHER -> IF nav = "ARRIVED" THEN Arrive(r, measured) ELSE r

(***************************************************************************)
(* What the agent's own methods do to its state r.                         *)
(***************************************************************************)
StopMission(r) ==
  [SetRoute(Abandon(r), <<>>) EXCEPT !.kept = <<>>, !.mode = "STOPPED", !.intent = "stop"]
PauseMission(r) == [r EXCEPT !.mode = "PAUSED", !.intent = "stop"]
EmergencyStop(r) == [r EXCEPT !.estop = TRUE, !.mode = "STOPPED", !.intent = "stop"]

\* resume_mission: the mission's leg goes before the route that was kept.
ResumedRoute(r) == IF Active(r) THEN LegPath(r.mission) ELSE r.kept
AlwaysReload(r) ==  \* mutant of ResumeMission
  [SetRoute(r, ResumedRoute(r)) EXCEPT !.kept = ResumedRoute(r), !.mode = "AUTO"]
ResumeMission(r) ==
  LET loaded == IF r.route = <<>> THEN SetRoute(r, ResumedRoute(r)) ELSE r
  IN [loaded EXCEPT !.kept = ResumedRoute(r), !.mode = "AUTO"]

\* _begin_run: a measured position is where a later RETURN goes to.
Run(r, path) ==
  [SetRoute(r, path) EXCEPT !.kept = path, !.mode = "AUTO",
                            !.origin = IF r.seen # NoPlace THEN r.seen ELSE @]

\* return_to_base and _home_position
HomePosition(r) == IF Home # NoPlace THEN Home ELSE r.origin
ReturnToBase(r) ==
  LET path == <<HomePosition(r)>>
  IN [SetRoute(Abandon(r), path) EXCEPT !.kept = path, !.mode = "AUTO"]

(***************************************************************************)
(* The tick.                                                               *)
(***************************************************************************)
\* update_gps, and then the link: a reboot latches the emergency stop, a link that cannot
\* carry motion pauses.
Sensed(here, measured) == [rover EXCEPT !.seen = IF measured THEN here ELSE NoPlace]
Supervised(here, measured) ==
  LET s == Sensed(here, measured)
      e == IF motor.unhandled THEN EmergencyStop(s) ELSE s
  IN IF e.mode = "AUTO" /\ ~MotionReady THEN PauseMission(e) ELSE e

\* Where the position comes from: GPS if it has a fix, else dead reckoning if it is on.
Positions(fix) == IF fix THEN {place} ELSE IF Inferred = {} THEN {NoPlace} ELSE Inferred

StaleMode(r, nav) ==  \* mutant of MayMove: the mode as the tick found it
  rover.mode = "AUTO" /\ nav = "NAVIGATING" /\ ~r.estop
\* DecisionMaker and SafetyGate: an intent that moves leaves the gate if the mode after the
\* steps above, the navigator's status and the view allow it and the latch is open.
MayMove(r, nav) == r.mode = "AUTO" /\ nav = "NAVIGATING" /\ ~r.estop
Decided(r, nav, scene) ==
  [r EXCEPT
     !.intent = IF MayMove(r, nav) /\ scene = "clear" THEN "drive" ELSE "stop",
     !.blocked = IF MayMove(r, nav) /\ scene = "obstacle" /\ @ < BlockedAfter THEN @ + 1 ELSE @]

\* The agent's state after the link, after the mission manager, and after the decision.
TickStates(fix, here, scene) ==
  LET s == Supervised(here, fix)
      n == Navigated(s, here)
      nav == NavigationStatus(n, here)
      a == Advance(n, nav, fix)
  IN <<s, a, Decided(a, nav, scene)>>
LinkHandled ==
  /\ motor' = [motor EXCEPT !.unhandled = FALSE]
  /\ hist' = [hist EXCEPT !.asked = @ /\ ~motor.unhandled]

TickWith(fix, scene) ==
  /\ \E here \in Positions(fix) : rover' = TickStates(fix, here, scene)[3]
  /\ LinkHandled
  /\ UNCHANGED place
Tick == \E fix \in BOOLEAN, scene \in Scenes : TickWith(fix, scene)

\* _loop: a tick that raised, wherever in it, leaves ERROR behind.
Failed(r) == [r EXCEPT !.mode = "ERROR", !.intent = "stop"]
TickFails ==
  /\ \E fix \in BOOLEAN, scene \in Scenes : \E here \in Positions(fix) :
       \/ /\ \E i \in 1..3 : rover' = Failed(TickStates(fix, here, scene)[i])
          /\ LinkHandled
       \/ /\ rover' \in {Failed(rover), Failed(Sensed(here, fix))}
          /\ UNCHANGED <<motor, hist>>
  /\ UNCHANGED place

(***************************************************************************)
(* Requests: the engine's, the operator's, and the handovers.              *)
(***************************************************************************)
Told == hist' = [hist EXCEPT !.asked = TRUE]

\* MissionManager.assign: no mission under way is replaced, and none is begun a second time.
MayBegin(task) == ~Active(rover) /\ rover.mission.task # task
Begun(task, custody) ==
  [NoMission EXCEPT !.task = task, !.status = "TO_PICKUP", !.custody = custody]

\* assign_mission; of the task held already, active or not, it starts nothing.
Assign(task, custody) ==
  /\ ~rover.estop /\ MayBegin(task)
  /\ rover' = [Run(rover, PickupPath[task]) EXCEPT !.mission = Begun(task, custody)]
  /\ hist' = [acquired_at |-> NoPlace, asked |-> TRUE, replaced |-> FALSE]
  /\ UNCHANGED <<motor, place>>

\* An OFFER that assess_offer finds feasible.
Accept(task) ==
  /\ rover.mode # "ERROR" /\ MotionReady /\ rover.seen # NoPlace /\ CustodySensing
  /\ Assign(task, TRUE)

StartLocal(path) ==
  /\ rover' = Run(rover, path)
  /\ hist' = [hist EXCEPT !.asked = TRUE, !.replaced = @ \/ Active(rover)]
  /\ UNCHANGED <<motor, place>>

Stop == rover' = StopMission(rover) /\ UNCHANGED <<motor, place, hist>>
Pause == rover' = PauseMission(rover) /\ UNCHANGED <<motor, place, hist>>

Resume ==
  /\ ResumedRoute(rover) # <<>>
  /\ rover' = ResumeMission(rover)
  /\ Told
  /\ UNCHANGED <<motor, place>>

Return ==
  /\ HomePosition(rover) # NoPlace
  /\ rover' = ReturnToBase(rover)
  /\ Told
  /\ UNCHANGED <<motor, place>>

EngageStop ==
  /\ rover' = EmergencyStop(rover)
  /\ hist' = [hist EXCEPT !.asked = FALSE]
  /\ UNCHANGED <<motor, place>>

\* clear_emergency_stop also acknowledges a reboot; the link must prove itself again.
ClearStop ==
  /\ rover' = [rover EXCEPT !.estop = FALSE]
  /\ motor' = [motor EXCEPT !.latched = FALSE]
  /\ UNCHANGED <<place, hist>>

ResumeIdle ==
  /\ rover' = [rover EXCEPT !.mode = "IDLE", !.intent = "stop"]
  /\ UNCHANGED <<motor, place, hist>>

\* record_custody: at a stop that was reached on a measured position, once each.
Acquire ==
  /\ rover.mission.status = "AT_PICKUP" /\ rover.mission.pickup_measured
  /\ rover.mission.custody /\ ~rover.mission.acquired
  /\ rover' = [rover EXCEPT !.mission.acquired = TRUE]
  /\ hist' = [hist EXCEPT !.acquired_at = place]
  /\ UNCHANGED <<motor, place>>
Release ==
  /\ rover.mission.status = "AT_DROP" /\ rover.mission.drop_measured
  /\ rover.mission.acquired /\ ~rover.mission.released
  /\ rover' = [rover EXCEPT !.mission.released = TRUE]
  /\ UNCHANGED <<motor, place, hist>>

(***************************************************************************)
(* The world: external to src/, but for what Esp32Link says of the motors. *)
(***************************************************************************)
Drive ==
  /\ rover.intent = "drive" /\ MotionReady /\ rover.route # <<>>
  /\ place' = Waypoint(rover)
  /\ UNCHANGED <<rover, motor, hist>>
\* Under way, at no waypoint.
Between ==
  /\ rover.intent = "drive" /\ MotionReady
  /\ place' \in Places
  /\ \A t \in Tasks : place' \notin {PickupPath[t][i] : i \in DOMAIN PickupPath[t]}
                                     \cup {DropPath[t][i] : i \in DOMAIN DropPath[t]}
  /\ UNCHANGED <<rover, motor, hist>>

MotorLost == MotionReady /\ motor' = [motor EXCEPT !.up = FALSE] /\ UNCHANGED <<rover, place, hist>>
MotorBack ==
  /\ ~motor.up /\ ~motor.latched
  /\ motor' = [motor EXCEPT !.up = TRUE]
  /\ UNCHANGED <<rover, place, hist>>
MotorReboots ==
  /\ motor' = [up |-> FALSE, latched |-> TRUE, unhandled |-> TRUE]
  /\ UNCHANGED <<rover, place, hist>>

Requests ==
  \/ \E task \in Tasks : Accept(task) \/ Assign(task, FALSE)
  \/ \E path \in LocalPaths : StartLocal(path)
  \/ Stop \/ Pause \/ Resume \/ Return \/ EngageStop \/ ClearStop \/ ResumeIdle
  \/ Acquire \/ Release
World == Drive \/ Between \/ MotorLost \/ MotorBack \/ MotorReboots

Next == Tick \/ TickFails \/ Requests \/ World
Spec == Init /\ [][Next]_vars

\* The loop ticks, now and then with a fix, a clear view and the motors ready; the rover gets
\* to where it is driven and is ticked there; the link recovers; the parcel is handed over; a
\* pause is resumed when the motors are ready.
Sees == MotionReady /\ rover.mode = "AUTO" /\ TickWith(TRUE, "clear")
Fairness ==
  /\ WF_vars(Tick) /\ SF_vars(Sees)
  /\ SF_vars(rover.route # <<>> /\ place = Waypoint(rover) /\ Sees)
  /\ SF_vars(Drive) /\ SF_vars(MotorBack) /\ WF_vars(Acquire) /\ WF_vars(Release)
  /\ SF_vars(rover.mode = "PAUSED" /\ MotionReady /\ Resume)
FairSpec == Spec /\ Fairness

(***************************************************************************)
(* Properties.                                                             *)
(***************************************************************************)
Missions ==
  [task: Tasks \cup {NoTask}, status: {Stages[i] : i \in DOMAIN Stages} \cup Terminal,
   custody: BOOLEAN, acquired: BOOLEAN, released: BOOLEAN,
   pickup_measured: BOOLEAN, drop_measured: BOOLEAN]

\* The types, and that the planner's index stays within its route and its counts in bounds.
TypeOK ==
  /\ rover.mode \in Modes /\ rover.estop \in BOOLEAN /\ rover.intent \in {"stop", "drive"}
  /\ {rover.kept, rover.route} \subseteq Seq(Places)
  /\ {rover.origin, rover.seen} \subseteq Places \cup {NoPlace}
  /\ rover.mission \in Missions
  /\ rover.idx >= 1 /\ (rover.route # <<>> => rover.idx <= Len(rover.route))
  /\ rover.off \in 0..OffRouteAfter /\ rover.blocked \in 0..BlockedAfter
  /\ motor \in [up: BOOLEAN, latched: BOOLEAN, unhandled: BOOLEAN]
  /\ place \in Places

\* Whatever request, reboot, lost link or finished mission comes between two ticks or during
\* one, the published intent never moves the rover outside AUTO or under the latch, nor before
\* somebody asked for motion since the last emergency stop or reboot of the ESP32: clearing the
\* latch is not enough.
NeverDrivesHalted ==
  rover.intent = "drive" => rover.mode = "AUTO" /\ ~rover.estop /\ hist.asked

\* While a mission is active, and no local route replaced it, what the navigator follows is the
\* path of the mission's present leg, so that an arrival is never one somewhere else.
NavigatesItsLeg ==
  Active(rover) /\ ~hist.replaced =>
    \/ rover.route = LegPath(rover.mission)
    \/ rover.route = <<>> /\ rover.mission.status = "AT_DROP"

\* The parcel is taken on where the task says: from the arrival to the handover the rover does
\* not leave the pickup, through pauses, faults, lost fixes and resumptions.
AcquiredAtPickup ==
  hist.acquired_at # NoPlace /\ ~hist.replaced =>
    LET p == PickupPath[rover.mission.task] IN hist.acquired_at = p[Len(p)]

\* The way to the drop begins with the parcel, and the delivery ends without it.
DeliveredWithParcel ==
  rover.mission.custody =>
    /\ rover.mission.status \in DropLegs => rover.mission.acquired
    /\ rover.mission.status = "COMPLETE" => rover.mission.released

Stage(m) == IF m.status \in Terminal THEN 5 ELSE CHOOSE i \in DOMAIN Stages : Stages[i] = m.status

\* At the drop the route has been cleared, and a RESUME loads the drop path again from its
\* first waypoint (resume_mission), although the Rover should hold there.
DropReloaded == Resume /\ rover.mission.status = "AT_DROP" /\ rover.route = <<>>

\* A mission never goes back a stage, and one that is over stays over.  At every stage, the
\* holding at the pickup and at the drop included, the navigator keeps its route and goes
\* forward on it, whatever is requested, resumed, paused or failed; but for one step, an
\* operator's RESUME at the drop.
LegNeverRestarts ==
  [][LET m == rover.mission n == rover'.mission
     IN n.task = m.task =>
          /\ Stage(n) >= Stage(m)
          /\ m.status \in Terminal => n.status = m.status
          /\ n.status = m.status /\ Active(rover) /\ ~hist'.replaced =>
               (rover'.route = rover.route /\ rover'.idx >= rover.idx) \/ DropReloaded]_vars

\* A mission ends, delivered or aborted, unless the agent is halted: no pause, fault, lost fix
\* or handover leaves it waiting for something that does not come.
Halted == rover.mode \notin {"AUTO", "PAUSED"} \/ rover.estop
MissionEnds == Active(rover) ~> ~Active(rover) \/ Halted
=============================================================================
