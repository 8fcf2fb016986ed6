------------------------ MODULE AgentMission_proofs -------------------------
(***************************************************************************)
(* Proofs about AgentMission, for all tasks, paths, scenes and limits: no  *)
(* motion while halted, each leg on its own path and never a second time,  *)
(* custody before the legs, and the parcel taken on at the pickup.         *)
(***************************************************************************)
EXTENDS AgentMission, SequenceTheorems, TLAPS

(***************************************************************************)
(* The invariant.  Everything the agent does is an operator on its record, *)
(* so the invariant is one of records: each operator keeps it.             *)
(***************************************************************************)
Rovers ==
  [mode: Modes, estop: BOOLEAN, intent: {"stop", "drive"}, kept: Seq(Places),
   origin: Places \cup {NoPlace}, seen: Places \cup {NoPlace}, mission: Missions,
   route: Seq(Places), idx: Nat, off: Nat, blocked: Nat]

Typed(r) ==
  /\ r \in Rovers
  /\ r.idx >= 1 /\ (r.route # <<>> => r.idx <= Len(r.route))
  /\ r.off <= OffRouteAfter /\ r.blocked <= BlockedAfter

\* NeverDrivesHalted, NavigatesItsLeg and DeliveredWithParcel of a record; and that an active
\* mission has a task.
Still(r) == r.intent = "drive" => r.mode = "AUTO" /\ ~r.estop
OnLeg(r) ==
  Active(r) =>
    \/ r.route = LegPath(r.mission)
    \/ r.route = <<>> /\ r.mission.status = "AT_DROP"
WithParcel(r) ==
  r.mission.custody =>
    /\ r.mission.status \in DropLegs => r.mission.acquired
    /\ r.mission.status = "COMPLETE" => r.mission.released
HasTask(r) == Active(r) => r.mission.task \in Tasks
Sound(r) == Typed(r) /\ Still(r) /\ WithParcel(r) /\ HasTask(r)

IInv ==
  /\ Sound(rover)
  /\ ~hist.replaced => OnLeg(rover)
  /\ rover.mode = "AUTO" => hist.asked
  /\ hist = [acquired_at |-> hist.acquired_at, asked |-> hist.asked, replaced |-> hist.replaced]
  /\ motor \in [up: BOOLEAN, latched: BOOLEAN, unhandled: BOOLEAN]
  /\ place \in Places

(***************************************************************************)
(* The operators.                                                          *)
(***************************************************************************)
LEMMA StatusesAre ==
  {Stages[i] : i \in DOMAIN Stages} = {"TO_PICKUP", "AT_PICKUP", "TO_DROP", "AT_DROP"}
  <1>1. DOMAIN Stages = {1, 2, 3, 4}
    BY DEF Stages
  <1> QED
    BY <1>1 DEF Stages

LEMMA MissionsAre ==
  Missions =
    [task: Tasks \cup {NoTask},
     status: {"TO_PICKUP", "AT_PICKUP", "TO_DROP", "AT_DROP", "COMPLETE", "ABORTED"},
     custody: BOOLEAN, acquired: BOOLEAN, released: BOOLEAN,
     pickup_measured: BOOLEAN, drop_measured: BOOLEAN]
  <1>1. {Stages[i] : i \in DOMAIN Stages} \cup Terminal
          = {"TO_PICKUP", "AT_PICKUP", "TO_DROP", "AT_DROP", "COMPLETE", "ABORTED"}
    BY StatusesAre DEF Terminal
  <1> QED
    BY <1>1 DEF Missions

\* A path of a mission is a path.
LEMMA LegPathType ==
  ASSUME NEW r, Sound(r), Active(r)
  PROVE  LegPath(r.mission) \in Seq(Places) /\ LegPath(r.mission) # <<>>
  <1>1. r.mission.task \in Tasks
    BY DEF Sound, HasTask
  <1>2. /\ PickupPath[r.mission.task] \in Seq(Places) /\ Len(PickupPath[r.mission.task]) >= 2
        /\ DropPath[r.mission.task] \in Seq(Places) /\ Len(DropPath[r.mission.task]) >= 2
    BY <1>1, PlacesAssumption
  <1> QED
    BY <1>2 DEF LegPath

LEMMA SetRouteSound ==
  ASSUME NEW r, Sound(r), NEW path \in Seq(Places)
  PROVE  /\ Sound(SetRoute(r, path))
         /\ SetRoute(r, path).route = path
         /\ SetRoute(r, path).mission = r.mission
  <1> DEFINE s == SetRoute(r, path)
  <1>1. (path # <<>> => 1 <= Len(path)) /\ 0 <= OffRouteAfter /\ 0 <= BlockedAfter
    BY EmptySeq, LenProperties, PlacesAssumption
  <1>2. s.mission = r.mission /\ s.mode = r.mode /\ s.estop = r.estop /\ s.intent = r.intent
        /\ s.route = path /\ s.idx = 1 /\ s.off = 0 /\ s.blocked = 0
    BY DEF SetRoute, Sound, Typed, Rovers
  <1>3. s \in Rovers
    BY DEF SetRoute, Sound, Typed, Rovers
  <1> QED
    BY <1>1, <1>2, <1>3 DEF Sound, Typed, Still, WithParcel, HasTask, Active

\* A pause, an emergency stop and a failed tick halt, and keep the rest.
LEMMA PauseSound ==
  ASSUME NEW r, Sound(r)
  PROVE  /\ Sound(PauseMission(r)) /\ (OnLeg(r) => OnLeg(PauseMission(r)))
         /\ Sound(EmergencyStop(r)) /\ (OnLeg(r) => OnLeg(EmergencyStop(r)))
         /\ Sound(Failed(r)) /\ (OnLeg(r) => OnLeg(Failed(r)))
  <1>1. Sound(PauseMission(r)) /\ (OnLeg(r) => OnLeg(PauseMission(r)))
    BY DEF Sound, Typed, Rovers, Still, WithParcel, HasTask, Active, OnLeg, LegPath, PauseMission, Modes
  <1>2. Sound(EmergencyStop(r)) /\ (OnLeg(r) => OnLeg(EmergencyStop(r)))
    BY DEF Sound, Typed, Rovers, Still, WithParcel, HasTask, Active, OnLeg, LegPath, EmergencyStop, Modes
  <1>3. Sound(Failed(r)) /\ (OnLeg(r) => OnLeg(Failed(r)))
    BY DEF Sound, Typed, Rovers, Still, WithParcel, HasTask, Active, OnLeg, LegPath, Failed, Modes
  <1> QED
    BY <1>1, <1>2, <1>3

LEMMA AbandonSound ==
  ASSUME NEW r, Sound(r)
  PROVE  Sound(Abandon(r)) /\ ~Active(Abandon(r))
  BY MissionsAre
  DEF Sound, Typed, Rovers, Still, WithParcel, HasTask, Active, Abandon, Terminal, DropLegs

\* Navigation changes the index and the count of off-route ticks, and keeps them in bounds.
LEMMA NavigatedSound ==
  ASSUME NEW r, Sound(r), NEW here \in Places \cup {NoPlace}
  PROVE  Sound(Navigated(r, here)) /\ (OnLeg(r) => OnLeg(Navigated(r, here)))
  <1>1. CASE r.route = <<>> \/ here = NoPlace
    BY <1>1 DEF Navigated
  <1>2. CASE ~(r.route = <<>> \/ here = NoPlace)
    <2>1. Len(r.route) \in Nat /\ OffRouteAfter \in Nat /\ OffRouteAfter >= 1
      BY PlacesAssumption, LenProperties DEF Sound, Typed, Rovers
    <2> DEFINE p == Passed(r, here)
    <2>2. /\ p = [r EXCEPT !.idx = p.idx, !.off = p.off]
          /\ p.idx \in Nat /\ p.idx >= 1 /\ p.idx <= Len(r.route)
          /\ p.off \in Nat /\ p.off <= OffRouteAfter
      <3>1. CASE here # Waypoint(r)
        <4>1. p = r
          BY <3>1 DEF Passed
        <4> QED
          BY <1>2, <2>1, <4>1 DEF Sound, Typed, Rovers
      <3>2. CASE ~(here # Waypoint(r))
        <4> DEFINE i == IF r.idx < Len(r.route) THEN r.idx + 1 ELSE r.idx
        <4>1. p = [r EXCEPT !.idx = i, !.off = 0]
          BY <3>2 DEF Passed, Sound, Typed, Rovers
        <4>2. i \in Nat /\ i >= 1 /\ i <= Len(r.route)
          BY <1>2, <2>1 DEF Sound, Typed, Rovers
        <4> HIDE DEF i, p
        <4>3. p.idx = i /\ p.off = 0
          BY <4>1 DEF Sound, Typed, Rovers
        <4> QED
          BY <2>1, <4>1, <4>2, <4>3
      <3> QED
        BY <3>1, <3>2
    <2> DEFINE q == Progressed(r, here)
    <2>3. /\ q = [r EXCEPT !.idx = q.idx, !.off = q.off]
          /\ q.idx \in Nat /\ q.idx >= 1 /\ q.idx <= Len(r.route)
          /\ q.off \in Nat /\ q.off <= OffRouteAfter
      <3> HIDE DEF p
      <3>1. /\ q = [p EXCEPT !.off = q.off]
            /\ q.off \in Nat /\ q.off <= OffRouteAfter
        BY <2>1, <2>2 DEF Progressed, p, Sound, Typed, Rovers
      <3> HIDE DEF q
      <3>2. q.idx = p.idx
        BY <2>2, <3>1 DEF Sound, Typed, Rovers
      <3>3. q = [r EXCEPT !.idx = q.idx, !.off = q.off]
        BY <2>2, <3>1, <3>2 DEF Sound, Typed, Rovers
      <3> QED
        BY <2>2, <3>1, <3>2, <3>3
    <2> HIDE DEF p, q
    <2>4. Sound(q)
      BY <2>3 DEF Sound, Typed, Rovers, Still, WithParcel, HasTask, Active
    <2>5. OnLeg(r) => OnLeg(q)
      BY <2>3 DEF OnLeg, Active, LegPath, Sound, Typed, Rovers
    <2> QED
      BY <1>2, <2>4, <2>5 DEF Navigated, q
  <1> QED
    BY <1>1, <1>2

LEMMA LeavePickupSound ==
  ASSUME NEW r, Sound(r), r.mission.status = "AT_PICKUP", ~Holds(r.mission)
  PROVE  Sound(LeavePickup(r)) /\ OnLeg(LeavePickup(r))
  <1> DEFINE d == DropPath[r.mission.task]
             s == SetRoute(r, d)
             l == LeavePickup(r)
  <1>1. Active(r)
    BY DEF Active, Terminal
  <1>2. d \in Seq(Places)
    BY <1>1, PlacesAssumption DEF Sound, HasTask
  <1>3. Sound(s) /\ s.route = d /\ s.mission = r.mission
    BY <1>2, SetRouteSound
  <1>4. l = [s EXCEPT !.mission.status = "TO_DROP", !.kept = d]
    BY DEF LeavePickup
  <1> HIDE DEF l, s, d
  <1>5. /\ l.mission = [r.mission EXCEPT !.status = "TO_DROP"] /\ l.route = d /\ l.kept = d
        /\ l \in Rovers
    BY <1>2, <1>3, <1>4, MissionsAre DEF Sound, Typed, Rovers
  <1>6. Typed(l) /\ Still(l)
    BY <1>3, <1>4, <1>5 DEF Sound, Typed, Rovers, Still
  <1>7. /\ l.mission.status = "TO_DROP" /\ l.mission.task = r.mission.task
        /\ l.mission.custody = r.mission.custody /\ l.mission.acquired = r.mission.acquired
    BY <1>5, MissionsAre DEF Sound, Typed, Rovers
  <1>8. r.mission.custody => r.mission.acquired
    BY MissionsAre DEF Holds, Sound, Typed, Rovers
  <1>9. WithParcel(l) /\ HasTask(l)
    BY <1>1, <1>7, <1>8 DEF WithParcel, HasTask, Sound, Active
  <1>10. OnLeg(l)
    BY <1>5, <1>7 DEF OnLeg, LegPath, DropLegs, d
  <1> QED
    BY <1>6, <1>9, <1>10 DEF Sound, l

LEMMA FinishSound ==
  ASSUME NEW r, Sound(r), r.mission.custody => r.mission.released
  PROVE  Sound(Finish(r)) /\ ~Active(Finish(r))
  <1> DEFINE f == Finish(r)
  <1>1. /\ f.mission = [r.mission EXCEPT !.status = "COMPLETE"] /\ f.intent = "stop"
        /\ f \in Rovers /\ f.route = r.route /\ f.idx = r.idx /\ f.off = r.off
        /\ f.blocked = r.blocked
    BY EmptySeq, MissionsAre DEF Finish, Sound, Typed, Rovers, Modes
  <1>2. /\ f.mission.status = "COMPLETE" /\ f.mission.released = r.mission.released
        /\ f.mission.custody = r.mission.custody
    BY <1>1, MissionsAre DEF Sound, Typed, Rovers
  <1> HIDE DEF f
  <1> QED
    BY <1>1, <1>2 DEF Sound, Typed, Still, WithParcel, HasTask, Active, Terminal, DropLegs, f

LEMMA ArriveSound ==
  ASSUME NEW r, Sound(r), NEW measured \in BOOLEAN,
         r.mission.status \in {"TO_PICKUP", "TO_DROP"}
  PROVE  Sound(Arrive(r, measured)) /\ (OnLeg(r) => OnLeg(Arrive(r, measured)))
  <1>1. CASE r.mission.status = "TO_PICKUP"
    <2> DEFINE a == [r EXCEPT !.mission.status = "AT_PICKUP", !.mission.pickup_measured = measured]
               m == [r.mission EXCEPT !.status = "AT_PICKUP", !.pickup_measured = measured]
    <2>1. Arrive(r, measured) = a
      BY <1>1 DEF Arrive
    <2>2. m \in Missions
      BY MissionsAre DEF Sound, Typed, Rovers
    <2>3. m.status = "AT_PICKUP" /\ m.task = r.mission.task
      BY MissionsAre DEF Sound, Typed, Rovers
    <2>4. a = [r EXCEPT !.mission = m]
      BY DEF Sound, Typed, Rovers
    <2> HIDE DEF a, m
    <2>5. Sound(a)
      BY <1>1, <2>2, <2>3, <2>4
      DEF Sound, Typed, Rovers, Still, WithParcel, HasTask, Active, Terminal, DropLegs
    <2>6. OnLeg(r) => OnLeg(a)
      BY <1>1, <2>2, <2>3, <2>4 DEF OnLeg, LegPath, Active, Terminal, DropLegs, Sound, Typed, Rovers
    <2> QED
      BY <2>1, <2>5, <2>6
  <1>2. CASE r.mission.status = "TO_DROP"
    <2> DEFINE m == [r.mission EXCEPT !.drop_measured = measured]
               d == [r EXCEPT !.mission.drop_measured = measured]
    <2>1. m \in Missions
      BY MissionsAre DEF Sound, Typed, Rovers
    <2>2. /\ m.status = r.mission.status /\ m.task = r.mission.task
          /\ m.custody = r.mission.custody /\ m.acquired = r.mission.acquired
          /\ m.released = r.mission.released
      BY MissionsAre DEF Sound, Typed, Rovers
    <2>3. d = [r EXCEPT !.mission = m]
      BY DEF Sound, Typed, Rovers
    <2> HIDE DEF d, m
    <2>4. Sound(d) /\ d.mission = m
      BY <2>1, <2>2, <2>3 DEF Sound, Typed, Rovers, Still, WithParcel, HasTask, Active
    <2> DEFINE e == SetRoute(d, <<>>)
    <2>5. Sound(e) /\ e.route = <<>> /\ e.mission = m
      BY <2>4, SetRouteSound, EmptySeq
    <2>6. Arrive(r, measured) = IF m.custody THEN AtDrop(d) ELSE Finish(e)
      BY <1>2, <2>2 DEF Arrive, d
    <2>7. CASE m.custody
      <3> DEFINE n == [m EXCEPT !.status = "AT_DROP"]
      <3>1. AtDrop(d) = [e EXCEPT !.mission = n]
        BY <2>4, <2>5 DEF AtDrop, Sound, Typed, Rovers
      <3>2. /\ n \in Missions /\ n.status = "AT_DROP" /\ n.task = m.task
            /\ n.custody = m.custody /\ n.acquired = m.acquired
        BY <2>1, MissionsAre
      <3> HIDE DEF n, e
      <3>3. Sound(AtDrop(d))
        BY <1>2, <2>2, <2>5, <3>1, <3>2
        DEF Sound, Typed, Rovers, Still, WithParcel, HasTask, Active, Terminal, DropLegs
      <3>4. OnLeg(AtDrop(d))
        BY <2>5, <3>1, <3>2 DEF OnLeg, Sound, Typed, Rovers
      <3> QED
        BY <2>6, <2>7, <3>3, <3>4
    <2>8. CASE ~m.custody
      <3>1. Sound(Finish(e)) /\ ~Active(Finish(e))
        BY <2>5, <2>8, FinishSound
      <3> QED
        BY <2>6, <2>8, <3>1 DEF OnLeg
    <2> QED
      BY <2>7, <2>8
  <1> QED
    BY <1>1, <1>2


LEMMA AdvanceSound ==
  ASSUME NEW r, Sound(r), NEW nav, NEW measured \in BOOLEAN
  PROVE  /\ Sound(Advance(r, nav, measured))
         /\ OnLeg(r) => OnLeg(Advance(r, nav, measured))
  <1> DEFINE a == Advance(r, nav, measured)
             c == r.mission.status
  <1>1. CASE ~Active(r) \/ Holds(r.mission)
    BY <1>1 DEF Advance
  <1>2. CASE ~(~Active(r) \/ Holds(r.mission))
    <2>1. c \in {"TO_PICKUP", "AT_PICKUP", "TO_DROP", "AT_DROP"}
      BY <1>2, MissionsAre DEF Active, Terminal, Sound, Typed, Rovers
    <2>2. CASE c = "AT_PICKUP"
      <3>1. a = LeavePickup(r)
        BY <1>2, <2>2 DEF Advance
      <3> QED
        BY <1>2, <2>2, <3>1, LeavePickupSound
    <2>3. CASE c = "AT_DROP"
      <3>1. a = Finish(r)
        BY <1>2, <2>3 DEF Advance
      <3>2. r.mission.custody => r.mission.released
        BY <1>2, <2>3, MissionsAre DEF Holds, Sound, Typed, Rovers
      <3> QED
        BY <3>1, <3>2, FinishSound DEF OnLeg
    <2>4. CASE c \in {"TO_PICKUP", "TO_DROP"}
      <3>1. a = IF nav = "ARRIVED" THEN Arrive(r, measured) ELSE r
        BY <1>2, <2>4 DEF Advance
      <3> QED
        BY <2>4, <3>1, ArriveSound
    <2> QED
      BY <2>1, <2>2, <2>3, <2>4
  <1> QED
    BY <1>1, <1>2

\* What only changes the mode, the kept route and where the run began, and may stop.
LEMMA ModeSound ==
  ASSUME NEW r, Sound(r), NEW a \in Rovers,
         a.mission = r.mission, a.route = r.route, a.idx = r.idx, a.off = r.off,
         a.blocked = r.blocked, a.estop = r.estop,
         a.intent = "stop" \/ (a.intent = r.intent /\ a.mode = "AUTO")
  PROVE  Sound(a)
  BY DEF Sound, Typed, Still, WithParcel, HasTask, Active

LEMMA RunSound ==
  ASSUME NEW r, Sound(r), NEW path \in Seq(Places)
  PROVE  Sound(Run(r, path)) /\ Run(r, path).route = path /\ Run(r, path).mission = r.mission
  <1> DEFINE s == SetRoute(r, path)
             o == IF r.seen # NoPlace THEN r.seen ELSE r.origin
  <1>1. Sound(s) /\ s.route = path /\ s.mission = r.mission /\ s.origin = r.origin
    BY SetRouteSound DEF SetRoute, Sound, Typed, Rovers
  <1>2. o \in Places \cup {NoPlace}
    BY DEF Sound, Typed, Rovers
  <1>3. Run(r, path) = [s EXCEPT !.kept = path, !.mode = "AUTO", !.origin = o]
    BY <1>1 DEF Run, Sound, Typed, Rovers
  <1> DEFINE a == Run(r, path)
  <1> HIDE DEF s, o, a
  <1>4. a \in Rovers
    BY <1>1, <1>2, <1>3 DEF Sound, Typed, Rovers, Modes, a
  <1>5. /\ a.mission = s.mission /\ a.route = s.route /\ a.idx = s.idx /\ a.off = s.off
        /\ a.blocked = s.blocked /\ a.estop = s.estop /\ a.intent = s.intent /\ a.mode = "AUTO"
    BY <1>1, <1>3 DEF Sound, Typed, Rovers, a
  <1>6. Sound(a)
    BY <1>1, <1>4, <1>5, ModeSound
  <1> QED
    BY <1>1, <1>5, <1>6 DEF a

LEMMA ResumeSound ==
  ASSUME NEW r, Sound(r)
  PROVE  Sound(ResumeMission(r)) /\ (OnLeg(r) => OnLeg(ResumeMission(r)))
  <1> DEFINE k == ResumedRoute(r)
             l == IF r.route = <<>> THEN SetRoute(r, k) ELSE r
  <1>1. k \in Seq(Places)
    BY LegPathType DEF ResumedRoute, Sound, Typed, Rovers
  <1>2. Sound(l) /\ l.mission = r.mission /\ l.route = IF r.route = <<>> THEN k ELSE r.route
    BY <1>1, SetRouteSound
  <1>3. ResumeMission(r) = [l EXCEPT !.kept = k, !.mode = "AUTO"]
    BY DEF ResumeMission
  <1>4. Active(r) => k = LegPath(r.mission)
    BY DEF ResumedRoute
  <1> HIDE DEF k, l
  <1> DEFINE a == ResumeMission(r)
  <1> HIDE DEF a
  <1>5. a \in Rovers
    BY <1>1, <1>2, <1>3 DEF Sound, Typed, Rovers, Modes, a
  <1>6. /\ a.mission = l.mission /\ a.route = l.route /\ a.idx = l.idx /\ a.off = l.off
        /\ a.blocked = l.blocked /\ a.estop = l.estop /\ a.intent = l.intent /\ a.mode = "AUTO"
    BY <1>2, <1>3 DEF Sound, Typed, Rovers, a
  <1>7. Sound(a)
    BY <1>2, <1>5, <1>6, ModeSound
  <1> QED
    BY <1>2, <1>4, <1>6, <1>7 DEF OnLeg, Active, a

LEMMA ReturnSound ==
  ASSUME NEW r, Sound(r), HomePosition(r) # NoPlace
  PROVE  Sound(ReturnToBase(r)) /\ ~Active(ReturnToBase(r))
  <1> DEFINE path == <<HomePosition(r)>>
             s == SetRoute(Abandon(r), path)
  <1>1. path \in Seq(Places)
    BY PlacesAssumption DEF HomePosition, Sound, Typed, Rovers
  <1>2. Sound(Abandon(r)) /\ ~Active(Abandon(r))
    BY AbandonSound
  <1>3. Sound(s) /\ s.mission = Abandon(r).mission
    BY <1>1, <1>2, SetRouteSound
  <1>4. ReturnToBase(r) = [s EXCEPT !.kept = path, !.mode = "AUTO"]
    BY DEF ReturnToBase
  <1> HIDE DEF path, s
  <1> DEFINE a == ReturnToBase(r)
  <1> HIDE DEF a
  <1>5. a \in Rovers
    BY <1>1, <1>3, <1>4 DEF Sound, Typed, Rovers, Modes, a
  <1>6. /\ a.mission = s.mission /\ a.route = s.route /\ a.idx = s.idx /\ a.off = s.off
        /\ a.blocked = s.blocked /\ a.estop = s.estop /\ a.intent = s.intent /\ a.mode = "AUTO"
    BY <1>3, <1>4 DEF Sound, Typed, Rovers, a
  <1>7. Sound(a)
    BY <1>3, <1>5, <1>6, ModeSound
  <1> QED
    BY <1>2, <1>3, <1>6, <1>7 DEF Active, a

LEMMA StopSound ==
  ASSUME NEW r, Sound(r)
  PROVE  Sound(StopMission(r)) /\ ~Active(StopMission(r)) /\ StopMission(r).mode # "AUTO"
  <1> DEFINE s == SetRoute(Abandon(r), <<>>)
  <1>1. Sound(Abandon(r)) /\ ~Active(Abandon(r))
    BY AbandonSound
  <1>2. Sound(s) /\ s.mission = Abandon(r).mission
    BY <1>1, SetRouteSound, EmptySeq
  <1>3. StopMission(r) = [s EXCEPT !.kept = <<>>, !.mode = "STOPPED", !.intent = "stop"]
    BY DEF StopMission
  <1> DEFINE a == StopMission(r)
  <1> HIDE DEF a, s
  <1>4. a \in Rovers
    <2>1. <<>> \in Seq(Places)
      BY EmptySeq
    <2> QED
      BY <1>2, <1>3, <2>1 DEF Sound, Typed, Rovers, Modes, a
  <1>5. /\ a.mission = s.mission /\ a.route = s.route /\ a.idx = s.idx /\ a.off = s.off
        /\ a.blocked = s.blocked /\ a.estop = s.estop /\ a.intent = "stop"
        /\ a.mode = "STOPPED"
    BY <1>2, <1>3 DEF Sound, Typed, Rovers, a
  <1>6. Sound(a)
    BY <1>2, <1>4, <1>5 DEF Sound, Typed, Still, WithParcel, HasTask, Active
  <1> QED
    BY <1>1, <1>2, <1>5, <1>6 DEF Active, a

LEMMA DecidedSound ==
  ASSUME NEW r, Sound(r), NEW nav, NEW scene
  PROVE  Sound(Decided(r, nav, scene)) /\ (OnLeg(r) => OnLeg(Decided(r, nav, scene)))
  <1> DEFINE i == IF MayMove(r, nav) /\ scene = "clear" THEN "drive" ELSE "stop"
             b == IF MayMove(r, nav) /\ scene = "obstacle" /\ r.blocked < BlockedAfter
                  THEN r.blocked + 1 ELSE r.blocked
             d == Decided(r, nav, scene)
  <1>1. d = [r EXCEPT !.intent = i, !.blocked = b]
    BY DEF Decided, Sound, Typed, Rovers
  <1>2. i \in {"stop", "drive"} /\ (i = "drive" => r.mode = "AUTO" /\ ~r.estop)
    BY DEF MayMove
  <1>3. b \in Nat /\ b <= BlockedAfter
    BY PlacesAssumption DEF Sound, Typed, Rovers
  <1> HIDE DEF i, b, d
  <1>4. Sound(d)
    BY <1>1, <1>2, <1>3 DEF Sound, Typed, Rovers, Still, WithParcel, HasTask, Active
  <1>5. OnLeg(r) => OnLeg(d)
    BY <1>1 DEF OnLeg, Active, LegPath, Sound, Typed, Rovers
  <1> QED
    BY <1>4, <1>5 DEF d

(***************************************************************************)
(* Who sets the Rover going.                                               *)
(***************************************************************************)

\* A record whose mode is that of r, or one in which nothing moves.
NoSooner(r, a) == a.mode = r.mode \/ a.mode # "AUTO"

LEMMA SetRouteMode ==
  ASSUME NEW r, Sound(r), NEW path
  PROVE  DOMAIN SetRoute(r, path) = DOMAIN r /\ SetRoute(r, path).mode = r.mode
  BY DEF SetRoute, Sound, Typed, Rovers

LEMMA NavigatedMode ==
  ASSUME NEW r, Sound(r), NEW here \in Places \cup {NoPlace}
  PROVE  Navigated(r, here).mode = r.mode
  <1> DEFINE p == Passed(r, here)
  <1>1. p.mode = r.mode /\ p \in Rovers
    <2>1. CASE here # Waypoint(r)
      BY <2>1 DEF Passed, Sound, Typed, Rovers
    <2>2. CASE here = Waypoint(r)
      <3> DEFINE i == IF r.idx < Len(r.route) THEN r.idx + 1 ELSE r.idx
      <3>1. p = [r EXCEPT !.idx = i, !.off = 0] /\ i \in Nat
        BY <2>2, LenProperties DEF Passed, Sound, Typed, Rovers
      <3> HIDE DEF i, p
      <3> QED
        BY <3>1 DEF Sound, Typed, Rovers
    <2> QED
      BY <2>1, <2>2
  <1>2. Progressed(r, here).mode = p.mode
    <2> DEFINE o == IF <<here, Waypoint(p)>> \notin Far THEN (IF p.off = 0 THEN 0 ELSE p.off - 1)
                    ELSE IF p.off < OffRouteAfter THEN p.off + 1 ELSE p.off
    <2>1. Progressed(r, here) = [p EXCEPT !.off = o]
      BY <1>1 DEF Progressed, Rovers
    <2> HIDE DEF o, p
    <2> QED
      BY <1>1, <2>1 DEF Rovers
  <1> QED
    BY <1>1, <1>2 DEF Navigated

LEMMA AdvanceMode ==
  ASSUME NEW r, Sound(r), NEW nav, NEW measured \in BOOLEAN
  PROVE  NoSooner(r, Advance(r, nav, measured))
  <1>1. LeavePickup(r).mode = r.mode
    <2> DEFINE d == DropPath[r.mission.task]
               s == SetRoute(r, d)
    <2>1. LeavePickup(r) = [s EXCEPT !.mission.status = "TO_DROP", !.kept = d]
      BY DEF LeavePickup
    <2>2. s.mode = r.mode /\ DOMAIN s = DOMAIN r /\ "mode" \in DOMAIN r
      BY SetRouteMode DEF Sound, Typed, Rovers
    <2> HIDE DEF d, s
    <2> QED
      BY <2>1, <2>2
  <1>2. Finish(r).mode # "AUTO"
    BY DEF Finish, Sound, Typed, Rovers
  <1>3. ASSUME r.mission.status \in {"TO_PICKUP", "TO_DROP"}
        PROVE  NoSooner(r, Arrive(r, measured))
    <2> DEFINE d == [r EXCEPT !.mission.drop_measured = measured]
               s == SetRoute(d, <<>>)
    <2>1. d.mode = r.mode /\ DOMAIN d = DOMAIN r /\ "mode" \in DOMAIN r
      BY DEF Sound, Typed, Rovers
    <2> HIDE DEF d
    <2>2. s.mode = r.mode /\ DOMAIN s = DOMAIN r
      BY <2>1 DEF SetRoute
    <2> HIDE DEF s
    <2>3. [s EXCEPT !.mission.status = "AT_DROP"].mode = r.mode
      BY <2>1, <2>2
    <2>4. Finish(s).mode # "AUTO"
      BY <2>1, <2>2 DEF Finish
    <2>5. r.mission.status = "TO_DROP"
            => Arrive(r, measured) = IF r.mission.custody THEN AtDrop(d) ELSE Finish(s)
      BY DEF Arrive, d, s
    <2>6. AtDrop(d).mode = r.mode
      BY <2>3 DEF AtDrop, s
    <2>7. CASE r.mission.status = "TO_PICKUP"
      BY <2>7 DEF Arrive, NoSooner, Sound, Typed, Rovers
    <2>8. CASE r.mission.status = "TO_DROP"
      BY <2>4, <2>5, <2>6, <2>8 DEF NoSooner
    <2> QED
      BY <1>3, <2>7, <2>8
  <1>4. Active(r) => r.mission.status \in {"AT_PICKUP", "AT_DROP", "TO_PICKUP", "TO_DROP"}
    <2>1. r.mission \in Missions
      BY DEF Sound, Typed, Rovers
    <2> QED
      BY <2>1, MissionsAre DEF Active, Terminal
  <1>5. NoSooner(r, r)
    BY DEF NoSooner
  <1>6. CASE Active(r) /\ ~Holds(r.mission)
    BY <1>1, <1>2, <1>3, <1>4, <1>5, <1>6 DEF Advance, NoSooner
  <1> QED
    BY <1>5, <1>6 DEF Advance

(***************************************************************************)
(* The tick.                                                               *)
(***************************************************************************)
LEMMA PositionsAre ==
  ASSUME IInv, NEW fix \in BOOLEAN
  PROVE  Positions(fix) \subseteq Places \cup {NoPlace}
  BY PlacesAssumption DEF IInv, Positions

LEMMA SensedSound ==
  ASSUME IInv, NEW here \in Places \cup {NoPlace}, NEW fix \in BOOLEAN
  PROVE  Sound(Sensed(here, fix)) /\ (OnLeg(rover) => OnLeg(Sensed(here, fix)))
  <1> DEFINE p == IF fix THEN here ELSE NoPlace
             s == [rover EXCEPT !.seen = p]
  <1>1. Sensed(here, fix) = s /\ p \in Places \cup {NoPlace} /\ Sound(rover)
    BY DEF Sensed, IInv
  <1> HIDE DEF p
  <1>2. Sound(s)
    BY <1>1 DEF Sound, Typed, Rovers, Still, WithParcel, HasTask, Active
  <1>3. OnLeg(rover) => OnLeg(s)
    BY <1>1 DEF OnLeg, Active, LegPath, Sound, Typed, Rovers
  <1> QED
    BY <1>1, <1>2, <1>3

LEMMA SupervisedSound ==
  ASSUME IInv, NEW here \in Places \cup {NoPlace}, NEW fix \in BOOLEAN
  PROVE  Sound(Supervised(here, fix)) /\ (OnLeg(rover) => OnLeg(Supervised(here, fix)))
  <1> DEFINE s == Sensed(here, fix)
             e == IF motor.unhandled THEN EmergencyStop(s) ELSE s
  <1>1. Sound(s) /\ (OnLeg(rover) => OnLeg(s))
    BY SensedSound
  <1>2. Sound(e) /\ (OnLeg(s) => OnLeg(e))
    <2>1. Sound(EmergencyStop(s)) /\ (OnLeg(s) => OnLeg(EmergencyStop(s)))
      BY <1>1, PauseSound
    <2> QED
      BY <1>1, <2>1
  <1>3. Sound(PauseMission(e)) /\ (OnLeg(e) => OnLeg(PauseMission(e)))
    BY <1>2, PauseSound
  <1>4. Supervised(here, fix) = IF e.mode = "AUTO" /\ ~MotionReady THEN PauseMission(e) ELSE e
    BY DEF Supervised
  <1> HIDE DEF s, e
  <1> QED
    BY <1>1, <1>2, <1>3, <1>4

\* Wherever in a tick, the agent's record is sound and its route the leg's.
LEMMA TickStatesSound ==
  ASSUME IInv, NEW here \in Places \cup {NoPlace}, NEW fix \in BOOLEAN, NEW scene, NEW i \in 1..3
  PROVE  /\ Sound(TickStates(fix, here, scene)[i])
         /\ OnLeg(rover) => OnLeg(TickStates(fix, here, scene)[i])
  <1> DEFINE s == Supervised(here, fix)
             n == Navigated(s, here)
             nav == NavigationStatus(n, here)
             a == Advance(n, nav, fix)
             d == Decided(a, nav, scene)
  <1>1. Sound(s) /\ (OnLeg(rover) => OnLeg(s))
    BY SupervisedSound
  <1>2. Sound(n) /\ (OnLeg(s) => OnLeg(n))
    BY <1>1, NavigatedSound
  <1>3. Sound(a) /\ (OnLeg(n) => OnLeg(a))
    BY <1>2, AdvanceSound
  <1>4. Sound(d) /\ (OnLeg(a) => OnLeg(d))
    BY <1>3, DecidedSound
  <1>5. TickStates(fix, here, scene) = <<s, a, d>>
    BY DEF TickStates
  <1>6. i = 1 \/ i = 2 \/ i = 3
    OBVIOUS
  <1> HIDE DEF s, n, nav, a, d
  <1>7. TickStates(fix, here, scene)[1] = s /\ TickStates(fix, here, scene)[2] = a
        /\ TickStates(fix, here, scene)[3] = d
    BY <1>5
  <1> QED
    BY <1>1, <1>2, <1>3, <1>4, <1>6, <1>7

\* No tick sets the Rover going, and one that handles a reboot stops it.
LEMMA TickStatesMode ==
  ASSUME IInv, NEW here \in Places \cup {NoPlace}, NEW fix \in BOOLEAN, NEW scene, NEW i \in 1..3
  PROVE  TickStates(fix, here, scene)[i].mode = "AUTO"
           => rover.mode = "AUTO" /\ ~motor.unhandled
  <1> DEFINE s == Supervised(here, fix)
             n == Navigated(s, here)
             nav == NavigationStatus(n, here)
             a == Advance(n, nav, fix)
             d == Decided(a, nav, scene)
  <1>1. s.mode = "AUTO" => rover.mode = "AUTO" /\ ~motor.unhandled
    <2>1. Sound(Sensed(here, fix)) /\ Sensed(here, fix).mode = rover.mode
      BY SensedSound DEF Sensed, IInv, Sound, Typed, Rovers
    <2> DEFINE t == Sensed(here, fix)
               e == IF motor.unhandled THEN EmergencyStop(t) ELSE t
    <2>2. EmergencyStop(t).mode = "STOPPED" /\ Sound(EmergencyStop(t))
      BY <2>1, PauseSound DEF EmergencyStop, Sound, Typed, Rovers
    <2>3. Sound(e) /\ (e.mode = "AUTO" => rover.mode = "AUTO" /\ ~motor.unhandled)
      BY <2>1, <2>2
    <2>4. s = IF e.mode = "AUTO" /\ ~MotionReady THEN PauseMission(e) ELSE e
      BY DEF Supervised
    <2> HIDE DEF t, e, s
    <2>5. PauseMission(e).mode = "PAUSED"
      BY <2>3 DEF PauseMission, Sound, Typed, Rovers
    <2> QED
      BY <2>3, <2>4, <2>5
  <1>2. Sound(s) /\ Sound(n) /\ Sound(a)
    BY SupervisedSound, NavigatedSound, AdvanceSound
  <1>3. n.mode = s.mode
    BY <1>2, NavigatedMode
  <1>4. a.mode = n.mode \/ a.mode # "AUTO"
    BY <1>2, AdvanceMode DEF NoSooner
  <1>5. d.mode = a.mode
    BY <1>2 DEF Decided, Sound, Typed, Rovers
  <1>6. TickStates(fix, here, scene) = <<s, a, d>>
    BY DEF TickStates
  <1>7. i = 1 \/ i = 2 \/ i = 3
    OBVIOUS
  <1> HIDE DEF s, n, nav, a, d
  <1>8. TickStates(fix, here, scene)[1] = s /\ TickStates(fix, here, scene)[2] = a
        /\ TickStates(fix, here, scene)[3] = d
    BY <1>6
  <1> QED
    BY <1>1, <1>3, <1>4, <1>5, <1>7, <1>8

(***************************************************************************)
(* The steps.                                                              *)
(***************************************************************************)
LEMMA InitEstablishes == Init => IInv
  <1> SUFFICES ASSUME Init PROVE IInv
    OBVIOUS
  <1>1. <<>> \in Seq(Places) /\ OffRouteAfter \in Nat /\ BlockedAfter \in Nat
    BY EmptySeq, PlacesAssumption
  <1>2. NoMission \in Missions /\ NoMission.status = "ABORTED" /\ NoMission.custody = FALSE
    BY MissionsAre DEF NoMission
  <1> DEFINE m == NoMission
  <1>3. /\ rover.mission = m /\ rover.intent = "stop" /\ rover.idx = 1 /\ rover.route = <<>>
        /\ rover.off = 0 /\ rover.blocked = 0 /\ rover \in Rovers
    <2> HIDE DEF m
    <2> QED
      BY <1>1, <1>2 DEF Init, Rovers, Modes, m
  <1> HIDE DEF m
  <1>4. ~Active(rover)
    BY <1>2, <1>3 DEF Active, Terminal, m
  <1>5. Typed(rover)
    BY <1>1, <1>3 DEF Typed
  <1>6. Still(rover) /\ WithParcel(rover) /\ HasTask(rover) /\ OnLeg(rover)
    BY <1>2, <1>3, <1>4 DEF Still, WithParcel, HasTask, OnLeg, m
  <1> QED
    BY <1>5, <1>6 DEF Init, IInv, Sound

\* What a step that leaves the ghosts' shape and the world alone has to show.
LEMMA Kept ==
  ASSUME IInv, Sound(rover'), OnLeg(rover) => OnLeg(rover'),
         hist' = [hist EXCEPT !.asked = hist'.asked] \/ hist' = hist,
         rover'.mode = "AUTO" => hist'.asked,
         motor' \in [up: BOOLEAN, latched: BOOLEAN, unhandled: BOOLEAN], place' \in Places
  PROVE  IInv'
  <1>1. hist'.replaced = hist.replaced
        /\ hist' = [acquired_at |-> hist'.acquired_at, asked |-> hist'.asked,
                     replaced |-> hist'.replaced]
    BY DEF IInv
  <1> QED
    BY <1>1 DEF IInv

LEMMA TickKeeps == IInv /\ (Tick \/ TickFails) => IInv'
  <1>1. ASSUME IInv, Tick PROVE IInv'
    <2>1. PICK fix \in BOOLEAN, scene \in Scenes : TickWith(fix, scene)
      BY <1>1 DEF Tick
    <2>2. PICK here \in Positions(fix) : rover' = TickStates(fix, here, scene)[3]
      BY <2>1 DEF TickWith
    <2>3. here \in Places \cup {NoPlace}
      BY <1>1, PositionsAre
    <2>4. Sound(rover') /\ (OnLeg(rover) => OnLeg(rover'))
      BY <1>1, <2>2, <2>3, TickStatesSound
    <2>5. place' = place /\ motor' = [motor EXCEPT !.unhandled = FALSE]
          /\ hist' = [hist EXCEPT !.asked = hist.asked /\ ~motor.unhandled]
      BY <2>1 DEF TickWith, LinkHandled
    <2>6. hist' = [hist EXCEPT !.asked = hist'.asked]
          /\ (hist.asked /\ ~motor.unhandled => hist'.asked)
      BY <1>1, <2>5 DEF IInv
    <2>7. rover'.mode = "AUTO" => rover.mode = "AUTO" /\ ~motor.unhandled
      <3>1. 3 \in 1..3
        OBVIOUS
      <3> QED
        BY <1>1, <2>2, <2>3, <3>1, TickStatesMode
    <2>8. rover'.mode = "AUTO" => hist'.asked
      BY <1>1, <2>6, <2>7 DEF IInv
    <2> QED
      BY <1>1, <2>4, <2>5, <2>6, <2>8, Kept DEF IInv
  <1>2. ASSUME IInv, TickFails PROVE IInv'
    <2>1. PICK fix \in BOOLEAN, scene \in Scenes : \E here \in Positions(fix) :
            \/ /\ \E i \in 1..3 : rover' = Failed(TickStates(fix, here, scene)[i])
               /\ LinkHandled
            \/ /\ rover' \in {Failed(rover), Failed(Sensed(here, fix))}
               /\ UNCHANGED <<motor, hist>>
      BY <1>2 DEF TickFails
    <2>2. PICK here \in Positions(fix) :
            \/ /\ \E i \in 1..3 : rover' = Failed(TickStates(fix, here, scene)[i])
               /\ LinkHandled
            \/ /\ rover' \in {Failed(rover), Failed(Sensed(here, fix))}
               /\ UNCHANGED <<motor, hist>>
      BY <2>1
    <2>3. here \in Places \cup {NoPlace} /\ place' = place
      BY <1>2, PositionsAre DEF TickFails
    <2>4. CASE (\E i \in 1..3 : rover' = Failed(TickStates(fix, here, scene)[i])) /\ LinkHandled
      <3>1. PICK i \in 1..3 : rover' = Failed(TickStates(fix, here, scene)[i])
        BY <2>4
      <3> DEFINE t == TickStates(fix, here, scene)[i]
      <3>2. Sound(t) /\ (OnLeg(rover) => OnLeg(t))
        BY <1>2, <2>3, TickStatesSound
      <3> HIDE DEF t
      <3>3. Sound(Failed(t)) /\ (OnLeg(t) => OnLeg(Failed(t)))
        BY <3>2, PauseSound
      <3>4. Sound(rover') /\ (OnLeg(rover) => OnLeg(rover'))
        BY <3>1, <3>2, <3>3 DEF t
      <3>5. motor' = [motor EXCEPT !.unhandled = FALSE]
            /\ hist' = [hist EXCEPT !.asked = hist.asked /\ ~motor.unhandled]
        BY <2>4 DEF LinkHandled
      <3>6. hist' = [hist EXCEPT !.asked = hist'.asked]
        BY <1>2, <3>5 DEF IInv
      <3>7. rover'.mode # "AUTO"
        BY <3>1, <3>2 DEF Failed, t, Sound, Typed, Rovers
      <3> QED
        BY <1>2, <2>3, <3>4, <3>5, <3>6, <3>7, Kept DEF IInv
    <2>5. CASE rover' \in {Failed(rover), Failed(Sensed(here, fix))} /\ UNCHANGED <<motor, hist>>
      <3> DEFINE t == Sensed(here, fix)
      <3>1. Sound(rover) /\ Sound(t) /\ (OnLeg(rover) => OnLeg(t))
        BY <1>2, <2>3, SensedSound DEF IInv
      <3> HIDE DEF t
      <3>2. /\ Sound(Failed(t)) /\ (OnLeg(t) => OnLeg(Failed(t)))
            /\ Sound(Failed(rover)) /\ (OnLeg(rover) => OnLeg(Failed(rover)))
        BY <3>1, PauseSound
      <3>3. rover' = Failed(rover) \/ rover' = Failed(t)
        BY <2>5 DEF t
      <3>4. Sound(rover') /\ (OnLeg(rover) => OnLeg(rover'))
        BY <3>1, <3>2, <3>3
      <3>5. rover'.mode # "AUTO"
        BY <3>1, <3>3 DEF Failed, Sound, Typed, Rovers
      <3> QED
        BY <1>2, <2>3, <2>5, <3>4, <3>5, Kept DEF IInv
    <2> QED
      BY <2>2, <2>4, <2>5
  <1> QED
    BY <1>1, <1>2

LEMMA AssignKeeps ==
  ASSUME IInv, NEW task \in Tasks, NEW custody \in BOOLEAN, Assign(task, custody)
  PROVE  IInv'
  <1> DEFINE path == PickupPath[task]
             s == Run(rover, path)
             m == [NoMission EXCEPT !.task = task, !.status = "TO_PICKUP", !.custody = custody]
             a == [s EXCEPT !.mission = m]
  <1>1. path \in Seq(Places)
    BY PlacesAssumption
  <1>2. Sound(s) /\ s.route = path
    BY <1>1, RunSound DEF IInv
  <1>3. m \in Missions /\ m.task = task /\ m.status = "TO_PICKUP"
    BY MissionsAre DEF NoMission
  <1> HIDE DEF s, m, path
  <1>4. Sound(a)
    BY <1>2, <1>3 DEF Sound, Typed, Rovers, Still, WithParcel, HasTask, Active, Terminal, DropLegs
  <1>5. OnLeg(a)
    BY <1>2, <1>3 DEF OnLeg, LegPath, DropLegs, Sound, Typed, Rovers, path
  <1>6. rover' = a /\ hist' = [acquired_at |-> NoPlace, asked |-> TRUE, replaced |-> FALSE]
        /\ motor' = motor /\ place' = place
    BY DEF Assign, MayBegin, Begun, a, s, m, path
  <1> HIDE DEF a
  <1> QED
    BY <1>4, <1>5, <1>6 DEF IInv

LEMMA CustodySound ==
  ASSUME NEW r, Sound(r), NEW n \in Missions, NEW a, a = [r EXCEPT !.mission = n],
         n.task = r.mission.task, n.status = r.mission.status, n.custody = r.mission.custody,
         r.mission.acquired => n.acquired, r.mission.released => n.released
  PROVE  Sound(a) /\ (OnLeg(r) => OnLeg(a))
  <1>1. a \in Rovers /\ a.mission = n /\ a.route = r.route
    BY DEF Sound, Typed, Rovers
  <1>2. Sound(a)
    BY <1>1 DEF Sound, Typed, Rovers, Still, WithParcel, HasTask, Active
  <1>3. OnLeg(r) => OnLeg(a)
    BY <1>1 DEF OnLeg, Active, LegPath
  <1> QED
    BY <1>2, <1>3

LEMMA RequestsKeep == IInv /\ Requests => IInv'
  <1> SUFFICES ASSUME IInv, Requests PROVE IInv'
    OBVIOUS
  <1>1. Sound(rover)
    BY DEF IInv
  <1>2. ASSUME NEW task \in Tasks, Accept(task) PROVE IInv'
    BY <1>2, AssignKeeps DEF Accept
  <1>3. ASSUME NEW task \in Tasks, Assign(task, FALSE) PROVE IInv'
    BY <1>3, AssignKeeps
  <1>4. ASSUME NEW path \in LocalPaths, StartLocal(path) PROVE IInv'
    <2>1. path \in Seq(Places)
      BY PlacesAssumption
    <2>2. /\ Sound(rover') /\ rover'.mission = rover.mission
          /\ motor' = motor /\ place' = place
      BY <1>1, <1>4, <2>1, RunSound DEF StartLocal
    <2>3. hist' = [hist EXCEPT !.asked = TRUE,
                               !.replaced = hist.replaced \/ Active(rover)]
      BY <1>4 DEF StartLocal
    <2>4. hist'.replaced = (hist.replaced \/ Active(rover)) /\ hist'.asked
          /\ hist' = [acquired_at |-> hist'.acquired_at, asked |-> hist'.asked,
                       replaced |-> hist'.replaced]
      BY <2>3 DEF IInv
    <2>5. ~hist'.replaced => OnLeg(rover')
      BY <2>2, <2>4 DEF OnLeg, Active
    <2> QED
      BY <2>2, <2>4, <2>5 DEF IInv
  <1>5. CASE Stop
    <2>1. Sound(rover') /\ OnLeg(rover') /\ rover'.mode # "AUTO"
      BY <1>1, <1>5, StopSound DEF Stop, OnLeg
    <2> QED
      BY <1>5, <2>1, Kept DEF Stop, IInv
  <1>6. CASE Pause
    <2>1. Sound(rover') /\ (OnLeg(rover) => OnLeg(rover'))
      BY <1>1, <1>6, PauseSound DEF Pause
    <2>2. rover'.mode # "AUTO"
      BY <1>1, <1>6 DEF Pause, PauseMission, Sound, Typed, Rovers
    <2> QED
      BY <1>6, <2>1, <2>2, Kept DEF Pause, IInv
  <1>7. CASE Resume
    <2>1. Sound(rover') /\ (OnLeg(rover) => OnLeg(rover'))
      BY <1>1, <1>7, ResumeSound DEF Resume
    <2>2. hist' = [hist EXCEPT !.asked = hist'.asked] /\ hist'.asked
      BY <1>7 DEF Resume, Told, IInv
    <2> QED
      BY <1>7, <2>1, <2>2, Kept DEF Resume, IInv
  <1>8. CASE Return
    <2>1. Sound(rover') /\ OnLeg(rover')
      BY <1>1, <1>8, ReturnSound DEF Return, OnLeg
    <2>2. hist' = [hist EXCEPT !.asked = hist'.asked] /\ hist'.asked
      BY <1>8 DEF Return, Told, IInv
    <2> QED
      BY <1>8, <2>1, <2>2, Kept DEF Return, IInv
  <1>9. CASE EngageStop
    <2>1. Sound(rover') /\ (OnLeg(rover) => OnLeg(rover'))
      BY <1>1, <1>9, PauseSound DEF EngageStop
    <2>2. hist' = [hist EXCEPT !.asked = hist'.asked]
      BY <1>9 DEF EngageStop, IInv
    <2>3. rover'.mode # "AUTO"
      BY <1>1, <1>9 DEF EngageStop, EmergencyStop, Sound, Typed, Rovers
    <2> QED
      BY <1>9, <2>1, <2>2, <2>3, Kept DEF EngageStop, IInv
  <1>10. CASE ClearStop
    <2>1. rover' = [rover EXCEPT !.estop = FALSE]
      BY <1>10 DEF ClearStop
    <2>2. Sound(rover')
      BY <1>1, <2>1 DEF Sound, Typed, Rovers, Still, WithParcel, HasTask, Active
    <2>3. OnLeg(rover) => OnLeg(rover')
      BY <1>1, <2>1 DEF OnLeg, Active, LegPath, Sound, Typed, Rovers
    <2>4. rover'.mode = rover.mode
      BY <1>1, <2>1 DEF Sound, Typed, Rovers
    <2> QED
      BY <1>10, <2>2, <2>3, <2>4, Kept DEF ClearStop, IInv
  <1>11. CASE ResumeIdle
    <2>1. rover' = [rover EXCEPT !.mode = "IDLE", !.intent = "stop"]
      BY <1>11 DEF ResumeIdle
    <2>2. Sound(rover')
      BY <1>1, <2>1 DEF Sound, Typed, Rovers, Still, WithParcel, HasTask, Active, Modes
    <2>3. OnLeg(rover) => OnLeg(rover')
      BY <1>1, <2>1 DEF OnLeg, Active, LegPath, Sound, Typed, Rovers
    <2>4. rover'.mode # "AUTO"
      BY <1>1, <2>1 DEF Sound, Typed, Rovers
    <2> QED
      BY <1>11, <2>2, <2>3, <2>4, Kept DEF ResumeIdle, IInv
  <1>12. CASE Acquire
    <2> DEFINE n == [rover.mission EXCEPT !.acquired = TRUE]
    <2>1. /\ n \in Missions /\ n.task = rover.mission.task /\ n.status = rover.mission.status
          /\ n.custody = rover.mission.custody /\ n.acquired /\ n.released = rover.mission.released
      BY <1>1, MissionsAre DEF Sound, Typed, Rovers
    <2>2. rover' = [rover EXCEPT !.mission = n]
      BY <1>1, <1>12 DEF Acquire, Sound, Typed, Rovers
    <2> HIDE DEF n
    <2>3. Sound(rover') /\ (OnLeg(rover) => OnLeg(rover'))
      BY <1>1, <2>1, <2>2, CustodySound
    <2>4. hist' = [hist EXCEPT !.acquired_at = place] /\ motor' = motor /\ place' = place
      BY <1>12 DEF Acquire
    <2>5. rover'.mode = rover.mode
      BY <1>1, <2>2 DEF Sound, Typed, Rovers
    <2>6. hist'.asked = hist.asked
      BY <2>4 DEF IInv
    <2> QED
      BY <2>3, <2>4, <2>5, <2>6 DEF IInv
  <1>13. CASE Release
    <2> DEFINE n == [rover.mission EXCEPT !.released = TRUE]
    <2>1. /\ n \in Missions /\ n.task = rover.mission.task /\ n.status = rover.mission.status
          /\ n.custody = rover.mission.custody /\ n.released /\ n.acquired = rover.mission.acquired
      BY <1>1, MissionsAre DEF Sound, Typed, Rovers
    <2>2. rover' = [rover EXCEPT !.mission = n]
      BY <1>1, <1>13 DEF Release, Sound, Typed, Rovers
    <2> HIDE DEF n
    <2>3. Sound(rover') /\ (OnLeg(rover) => OnLeg(rover'))
      BY <1>1, <2>1, <2>2, CustodySound
    <2>4. rover'.mode = rover.mode
      BY <1>1, <2>2 DEF Sound, Typed, Rovers
    <2> QED
      BY <1>13, <2>3, <2>4, Kept DEF Release, IInv
  <1> QED
    BY <1>2, <1>3, <1>4, <1>5, <1>6, <1>7, <1>8, <1>9, <1>10, <1>11, <1>12, <1>13 DEF Requests

\* The world moves the rover and the motors, not the agent.
LEMMA WorldKeeps == IInv /\ World => IInv'
  <1> SUFFICES ASSUME IInv, World PROVE IInv'
    OBVIOUS
  <1>1. Sound(rover)
    BY DEF IInv
  <1>2. CASE Drive
    <2>1. rover.route \in Seq(Places) /\ rover.idx \in 1..Len(rover.route)
      BY <1>1, <1>2, LenProperties DEF Drive, Sound, Typed, Rovers
    <2>2. place' \in Places
      BY <1>2, <2>1, ElementOfSeq DEF Drive, Waypoint
    <2> QED
      BY <1>2, <2>2 DEF Drive, IInv
  <1>3. CASE Between
    BY <1>3 DEF Between, IInv
  <1>4. CASE MotorLost
    BY <1>4 DEF MotorLost, IInv
  <1>5. CASE MotorBack
    BY <1>5 DEF MotorBack, IInv
  <1>6. CASE MotorReboots
    BY <1>6 DEF MotorReboots, IInv
  <1> QED
    BY <1>2, <1>3, <1>4, <1>5, <1>6 DEF World

LEMMA NextKeeps == IInv /\ [Next]_vars => IInv'
  <1>1. IInv /\ UNCHANGED vars => IInv'
    <2> SUFFICES ASSUME IInv, UNCHANGED vars PROVE IInv'
      OBVIOUS
    <2> QED
      BY DEF vars, IInv
  <1> QED
    BY <1>1, TickKeeps, RequestsKeep, WorldKeeps DEF Next

LEMMA Inductive == Spec => []IInv
  BY InitEstablishes, NextKeeps, PTL DEF Spec

(***************************************************************************)
(* The theorems.                                                           *)
(***************************************************************************)

\* Every field keeps its type, and the planner's index and counts their bounds, whatever is
\* requested and however ticks end.
THEOREM TypeCorrect == Spec => []TypeOK
  <1>1. IInv => TypeOK
    BY DEF IInv, Sound, Typed, Rovers, TypeOK
  <1> QED
    BY <1>1, Inductive, PTL

\* The published intent moves the rover only in AUTO with the latch open.
THEOREM NeverDrivesHaltedHolds == Spec => []NeverDrivesHalted
  <1>1. IInv => NeverDrivesHalted
    BY DEF IInv, Sound, Still, NeverDrivesHalted
  <1> QED
    BY <1>1, Inductive, PTL

\* The navigator follows the path of the active mission's leg, unless a local route replaced it.
THEOREM NavigatesItsLegHolds == Spec => []NavigatesItsLeg
  <1>1. IInv => NavigatesItsLeg
    BY DEF IInv, OnLeg, NavigatesItsLeg
  <1> QED
    BY <1>1, Inductive, PTL

\* No mission with custody is under way to the drop without the parcel, or complete with it.
THEOREM DeliveredWithParcelHolds == Spec => []DeliveredWithParcel
  <1>1. IInv => DeliveredWithParcel
    BY DEF IInv, Sound, WithParcel, DeliveredWithParcel
  <1> QED
    BY <1>1, Inductive, PTL

(***************************************************************************)
(* What a step keeps of the mission, the route and the place on it.        *)
(***************************************************************************)

Same(r, a) == a.mission = r.mission /\ a.route = r.route /\ a.idx = r.idx
Calmer(r, a) == a.intent = "stop" \/ a.intent = r.intent

LEMMA HaltSame ==
  ASSUME NEW r, Sound(r)
  PROVE  /\ Same(r, PauseMission(r)) /\ PauseMission(r).intent = "stop"
         /\ Same(r, EmergencyStop(r)) /\ EmergencyStop(r).intent = "stop"
         /\ Same(r, Failed(r)) /\ Failed(r).intent = "stop"
  BY DEF Sound, Typed, Rovers, Same, PauseMission, EmergencyStop, Failed

LEMMA SensedSame ==
  ASSUME IInv, NEW here \in Places \cup {NoPlace}, NEW fix \in BOOLEAN
  PROVE  Same(rover, Sensed(here, fix)) /\ Calmer(rover, Sensed(here, fix))
  BY DEF IInv, Sound, Typed, Rovers, Same, Calmer, Sensed

LEMMA SupervisedSame ==
  ASSUME IInv, NEW here \in Places \cup {NoPlace}, NEW fix \in BOOLEAN
  PROVE  Same(rover, Supervised(here, fix)) /\ Calmer(rover, Supervised(here, fix))
  <1> DEFINE s == Sensed(here, fix)
             e == IF motor.unhandled THEN EmergencyStop(s) ELSE s
  <1>1. Sound(s) /\ Same(rover, s) /\ Calmer(rover, s)
    BY SensedSound, SensedSame
  <1>2. Sound(e) /\ Same(rover, e) /\ Calmer(rover, e)
    <2>1. Sound(EmergencyStop(s)) /\ Same(s, EmergencyStop(s)) /\ EmergencyStop(s).intent = "stop"
      BY <1>1, PauseSound, HaltSame
    <2> QED
      BY <1>1, <2>1 DEF Same, Calmer
  <1>3. Same(e, PauseMission(e)) /\ PauseMission(e).intent = "stop"
    BY <1>2, HaltSame
  <1>4. Supervised(here, fix) = IF e.mode = "AUTO" /\ ~MotionReady THEN PauseMission(e) ELSE e
    BY DEF Supervised
  <1> HIDE DEF s, e
  <1> QED
    BY <1>2, <1>3, <1>4 DEF Same, Calmer

\* The navigator goes on along its route, and not beyond the last point.
LEMMA NavigatedGoesOn ==
  ASSUME NEW r, Sound(r), NEW here \in Places \cup {NoPlace}
  PROVE  LET n == Navigated(r, here)
         IN /\ n.mission = r.mission /\ n.route = r.route /\ n.intent = r.intent
            /\ n.idx >= r.idx
            /\ r.idx = Len(r.route) => n.idx = r.idx
  <1>1. CASE r.route = <<>> \/ here = NoPlace
    BY <1>1 DEF Navigated, Sound, Typed, Rovers
  <1>2. CASE ~(r.route = <<>> \/ here = NoPlace)
    <2> DEFINE p == Passed(r, here)
               q == Progressed(r, here)
    <2>1. Len(r.route) \in Nat /\ r.idx \in Nat
      BY LenProperties DEF Sound, Typed, Rovers
    <2>2. /\ p \in Rovers
          /\ p.mission = r.mission /\ p.route = r.route /\ p.intent = r.intent
          /\ p.idx >= r.idx /\ (r.idx = Len(r.route) => p.idx = r.idx)
      <3>1. CASE here # Waypoint(r)
        BY <2>1, <3>1 DEF Passed, Sound, Typed, Rovers
      <3>2. CASE here = Waypoint(r)
        <4> DEFINE i == IF r.idx < Len(r.route) THEN r.idx + 1 ELSE r.idx
        <4>1. p = [r EXCEPT !.idx = i, !.off = 0]
          BY <3>2 DEF Passed, Sound, Typed, Rovers
        <4>2. i \in Nat /\ i >= r.idx /\ (r.idx = Len(r.route) => i = r.idx)
          BY <2>1
        <4> HIDE DEF i, p
        <4> QED
          BY <4>1, <4>2 DEF Sound, Typed, Rovers
      <3> QED
        BY <3>1, <3>2
    <2> DEFINE o == IF <<here, Waypoint(p)>> \notin Far THEN (IF p.off = 0 THEN 0 ELSE p.off - 1)
                    ELSE IF p.off < OffRouteAfter THEN p.off + 1 ELSE p.off
    <2>3. q = [p EXCEPT !.off = o]
      BY <2>2 DEF Progressed, Rovers
    <2> HIDE DEF p, o
    <2>4. q.mission = p.mission /\ q.route = p.route /\ q.intent = p.intent /\ q.idx = p.idx
      BY <2>2, <2>3 DEF Rovers
    <2>5. Navigated(r, here) = q
      BY <1>2 DEF Navigated
    <2> HIDE DEF q
    <2> QED
      BY <2>2, <2>4, <2>5
  <1> QED
    BY <1>1, <1>2

LEMMA DecidedSame ==
  ASSUME NEW r, Sound(r), NEW nav, NEW scene
  PROVE  /\ Same(r, Decided(r, nav, scene))
         /\ Decided(r, nav, scene).intent = "drive" => nav = "NAVIGATING"
  <1> DEFINE i == IF MayMove(r, nav) /\ scene = "clear" THEN "drive" ELSE "stop"
             b == IF MayMove(r, nav) /\ scene = "obstacle" /\ r.blocked < BlockedAfter
                  THEN r.blocked + 1 ELSE r.blocked
             d == Decided(r, nav, scene)
  <1>1. d = [r EXCEPT !.intent = i, !.blocked = b]
    BY DEF Decided, Sound, Typed, Rovers
  <1>2. i = "drive" => nav = "NAVIGATING"
    BY DEF MayMove
  <1> HIDE DEF i, b, d
  <1>3. Same(r, d) /\ d.intent = i
    BY <1>1 DEF Sound, Typed, Rovers, Same
  <1> QED
    BY <1>2, <1>3 DEF d

\* The stages a leg may go on to; a mission that is over goes nowhere.
LaterThan(s) ==
  CASE s = "TO_PICKUP" -> {"AT_PICKUP", "TO_DROP", "AT_DROP", "COMPLETE", "ABORTED"}
    [] s = "AT_PICKUP" -> {"TO_DROP", "AT_DROP", "COMPLETE", "ABORTED"}
    [] s = "TO_DROP" -> {"AT_DROP", "COMPLETE", "ABORTED"}
    [] s = "AT_DROP" -> {"COMPLETE", "ABORTED"}
    [] OTHER -> {}

\* The mission manager keeps the mission as it is, or ends its leg.  A pickup is reached where
\* the navigator arrived, and nothing is lost of the route by reaching it.
LEMMA AdvanceGoesOn ==
  ASSUME NEW r, Sound(r), NEW nav, NEW measured \in BOOLEAN
  PROVE  LET a == Advance(r, nav, measured)
         IN /\ a.mission.task = r.mission.task
            /\ a = r \/ a.mission.status \in LaterThan(r.mission.status)
            /\ a.mission.status = "AT_PICKUP" =>
                 a = r \/ (nav = "ARRIVED" /\ a.route = r.route /\ a.idx = r.idx)
  <1> DEFINE a == Advance(r, nav, measured)
             c == r.mission.status
             Goal == /\ a.mission.task = r.mission.task
                     /\ a = r \/ a.mission.status \in LaterThan(c)
                     /\ a.mission.status = "AT_PICKUP" =>
                          a = r \/ (nav = "ARRIVED" /\ a.route = r.route /\ a.idx = r.idx)
  <1>1. CASE ~Active(r) \/ Holds(r.mission)
    BY <1>1 DEF Advance
  <1>2. CASE ~(~Active(r) \/ Holds(r.mission))
    <2>1. c \in {"TO_PICKUP", "AT_PICKUP", "TO_DROP", "AT_DROP"} /\ r.mission \in Missions
      BY <1>2, MissionsAre DEF Active, Terminal, Sound, Typed, Rovers
    <2>2. ASSUME NEW f, Sound(f), f.mission.task = r.mission.task, c \in {"TO_DROP", "AT_DROP"}
          PROVE  /\ Finish(f).mission.task = r.mission.task
                 /\ Finish(f).mission.status = "COMPLETE"
                 /\ "COMPLETE" \in LaterThan(c)
      <3>1. f.mission \in Missions
        BY <2>2 DEF Sound, Typed, Rovers
      <3>2. Finish(f).mission = [f.mission EXCEPT !.status = "COMPLETE"]
        BY <2>2 DEF Finish, Sound, Typed, Rovers
      <3>3. Finish(f).mission.task = f.mission.task /\ Finish(f).mission.status = "COMPLETE"
        BY <3>1, <3>2, MissionsAre
      <3> QED
        BY <2>2, <3>3 DEF LaterThan
    <2>3. CASE c = "AT_PICKUP"
      <3> DEFINE d == DropPath[r.mission.task]
                 s == SetRoute(r, d)
      <3>1. a = LeavePickup(r) /\ LeavePickup(r) = [s EXCEPT !.mission.status = "TO_DROP", !.kept = d]
        BY <1>2, <2>3 DEF Advance, LeavePickup
      <3>2. s.mission = r.mission /\ "mission" \in DOMAIN s
        BY DEF SetRoute, Sound, Typed, Rovers
      <3> HIDE DEF s, d, a
      <3>3. a.mission = [r.mission EXCEPT !.status = "TO_DROP"]
        BY <3>1, <3>2
      <3>4. a.mission.task = r.mission.task /\ a.mission.status = "TO_DROP"
        BY <2>1, <3>3, MissionsAre
      <3>5. "TO_DROP" \in LaterThan(c)
        BY <2>3 DEF LaterThan
      <3> QED
        BY <3>4, <3>5 DEF a
    <2>4. CASE c = "AT_DROP"
      <3>1. a = Finish(r)
        BY <1>2, <2>4 DEF Advance
      <3> QED
        BY <2>2, <2>4, <3>1
    <2>5. CASE c \in {"TO_PICKUP", "TO_DROP"} /\ nav # "ARRIVED"
      <3>1. a = r
        BY <1>2, <2>5 DEF Advance
      <3> QED
        BY <3>1
    <2>6. CASE c = "TO_PICKUP" /\ nav = "ARRIVED"
      <3> DEFINE m == [r.mission EXCEPT !.status = "AT_PICKUP", !.pickup_measured = measured]
      <3>1. a = [r EXCEPT !.mission = m]
        BY <1>2, <2>6 DEF Advance, Arrive, Sound, Typed, Rovers
      <3>2. m.task = r.mission.task /\ m.status = "AT_PICKUP"
        BY <2>1, MissionsAre
      <3> HIDE DEF m, a
      <3>3. a.mission = m /\ a.route = r.route /\ a.idx = r.idx
        BY <3>1 DEF Sound, Typed, Rovers
      <3>4. "AT_PICKUP" \in LaterThan(c)
        BY <2>6 DEF LaterThan
      <3> QED
        BY <2>6, <3>2, <3>3, <3>4 DEF a
    <2>7. CASE c = "TO_DROP" /\ nav = "ARRIVED"
      <3> DEFINE m == [r.mission EXCEPT !.drop_measured = measured]
                 d == [r EXCEPT !.mission.drop_measured = measured]
                 e == SetRoute(d, <<>>)
      <3>1. m \in Missions /\ m.task = r.mission.task /\ m.custody = r.mission.custody
            /\ m.status = c /\ m.acquired = r.mission.acquired /\ m.released = r.mission.released
        BY <2>1, MissionsAre
      <3>2. d = [r EXCEPT !.mission = m]
        BY DEF Sound, Typed, Rovers
      <3>3. a = IF m.custody THEN AtDrop(d) ELSE Finish(e)
        BY <1>2, <2>7, <3>1 DEF Advance, Arrive
      <3> HIDE DEF m, d, a
      <3>4. Sound(d) /\ d.mission = m
        BY <3>1, <3>2 DEF Sound, Typed, Rovers, Still, WithParcel, HasTask, Active
      <3>5. Sound(e) /\ e.mission = m
        BY <3>4, SetRouteSound, EmptySeq
      <3> HIDE DEF e
      <3>6. CASE m.custody
        <4>1. a = [e EXCEPT !.mission.status = "AT_DROP"]
          BY <3>3, <3>6 DEF AtDrop, e
        <4>2. a.mission = [m EXCEPT !.status = "AT_DROP"]
          BY <3>5, <4>1 DEF Sound, Typed, Rovers
        <4>3. a.mission.task = r.mission.task /\ a.mission.status = "AT_DROP"
          BY <3>1, <4>2, MissionsAre
        <4>4. "AT_DROP" \in LaterThan(c)
          BY <2>7 DEF LaterThan
        <4> QED
          BY <4>3, <4>4 DEF a
      <3>7. CASE ~m.custody
        <4>1. a = Finish(e)
          BY <3>3, <3>7
        <4>2. a.mission.task = r.mission.task /\ a.mission.status = "COMPLETE"
              /\ "COMPLETE" \in LaterThan(c)
          BY <2>2, <2>7, <3>1, <3>5, <4>1
        <4> QED
          BY <4>2 DEF a
      <3> QED
        BY <3>6, <3>7
    <2> QED
      BY <2>1, <2>3, <2>4, <2>5, <2>6, <2>7
  <1> QED
    BY <1>1, <1>2

(***************************************************************************)
(* Where the parcel is taken on.                                           *)
(***************************************************************************)

\* At a pickup reached on a measured position the index is at the last point and the Rover is
\* there; and nothing moves it.
AtMeasuredPickup(m) == m.status = "AT_PICKUP" /\ m.pickup_measured
There(r, p) == AtMeasuredPickup(r.mission) => r.idx = Len(r.route) /\ p = Waypoint(r)
Waits(r, p) == There(r, p) /\ (AtMeasuredPickup(r.mission) => r.intent = "stop")
PickupEnd(m) == PickupPath[m.task][Len(PickupPath[m.task])]
TakenThere(h, m) == h.acquired_at # NoPlace => h.acquired_at = PickupEnd(m)

PickupInv ==
  /\ IInv
  /\ ~hist.replaced => Waits(rover, place) /\ TakenThere(hist, rover.mission)

LEMMA SameThere ==
  ASSUME NEW r, NEW a, NEW p, Same(r, a)
  PROVE  /\ There(r, p) => There(a, p)
         /\ Waits(r, p) /\ Calmer(r, a) => Waits(a, p)
         /\ There(r, p) /\ a.intent = "stop" => Waits(a, p)
  BY DEF Same, Calmer, There, Waits, Waypoint

\* Throughout a tick without dead reckoning, a pickup is reached where the Rover is.
LEMMA TickStatesThere ==
  ASSUME IInv, Inferred = {}, Waits(rover, place),
         NEW fix \in BOOLEAN, NEW here \in Positions(fix), NEW scene
  PROVE  /\ \A i \in 1..3 : There(TickStates(fix, here, scene)[i], place)
         /\ Waits(TickStates(fix, here, scene)[3], place)
  <1> DEFINE s == Supervised(here, fix)
             n == Navigated(s, here)
             nav == NavigationStatus(n, here)
             a == Advance(n, nav, fix)
             d == Decided(a, nav, scene)
  <1>1. here \in Places \cup {NoPlace} /\ (here # NoPlace => here = place)
    <2>1. here \in Places \cup {NoPlace}
      BY PositionsAre
    <2> QED
      BY <2>1 DEF Positions
  <1>2. Sound(s) /\ Waits(s, place)
    BY <1>1, SupervisedSound, SupervisedSame, SameThere
  <1>3. Sound(n)
    BY <1>1, <1>2, NavigatedSound
  <1>4. There(n, place)
    <2>1. n.mission = s.mission /\ n.route = s.route /\ (s.idx = Len(s.route) => n.idx = s.idx)
      BY <1>1, <1>2, NavigatedGoesOn
    <2> HIDE DEF n, s
    <2> QED
      BY <1>2, <2>1 DEF Waits, There, Waypoint
  <1>5. nav = "ARRIVED" => n.idx = Len(n.route) /\ place = Waypoint(n)
    <2> HIDE DEF n
    <2>1. ASSUME nav = "ARRIVED" PROVE here # NoPlace /\ Arrived(n, here)
      BY <2>1 DEF NavigationStatus
    <2> QED
      BY <1>1, <2>1 DEF Arrived
  <1>6. AtMeasuredPickup(n.mission) => nav # "NAVIGATING"
    <2> HIDE DEF n
    <2>1. ASSUME n.idx = Len(n.route), place = Waypoint(n) PROVE nav # "NAVIGATING"
      <3>1. CASE here = NoPlace
        BY <3>1 DEF NavigationStatus
      <3>2. CASE here # NoPlace
        BY <1>1, <2>1, <3>2 DEF NavigationStatus, Arrived
      <3> QED
        BY <3>1, <3>2
    <2> QED
      BY <1>4, <2>1 DEF There
  <1> HIDE DEF s, n, nav
  <1>7. Sound(a)
    BY <1>3, AdvanceSound
  <1>8. a.mission.status = "AT_PICKUP" =>
          a = n \/ (nav = "ARRIVED" /\ a.route = n.route /\ a.idx = n.idx)
    BY <1>3, AdvanceGoesOn
  <1> HIDE DEF a
  <1>9. There(a, place) /\ (AtMeasuredPickup(a.mission) => nav # "NAVIGATING")
    BY <1>4, <1>5, <1>6, <1>8 DEF There, AtMeasuredPickup, Waypoint
  <1>10. Same(a, d) /\ (d.intent = "drive" => nav = "NAVIGATING") /\ Sound(d)
    BY <1>7, DecidedSame, DecidedSound
  <1> HIDE DEF d
  <1>11. d.intent \in {"stop", "drive"}
    BY <1>10 DEF Sound, Typed, Rovers
  <1>12. There(d, place) /\ Waits(d, place)
    BY <1>9, <1>10, <1>11, SameThere DEF Same, Waits
  <1>13. TickStates(fix, here, scene) = <<s, a, d>>
    BY DEF TickStates, s, n, nav, a, d
  <1> QED
    BY <1>2, <1>9, <1>12, <1>13 DEF Waits

LEMMA TickTask ==
  ASSUME IInv, NEW here \in Places \cup {NoPlace}, NEW fix \in BOOLEAN, NEW scene, NEW i \in 1..3
  PROVE  TickStates(fix, here, scene)[i].mission.task = rover.mission.task
  <1> DEFINE s == Supervised(here, fix)
             n == Navigated(s, here)
             nav == NavigationStatus(n, here)
             a == Advance(n, nav, fix)
             d == Decided(a, nav, scene)
  <1>1. Sound(s) /\ s.mission = rover.mission
    BY SupervisedSound, SupervisedSame DEF Same
  <1>2. Sound(n) /\ n.mission = s.mission
    BY <1>1, NavigatedSound, NavigatedGoesOn
  <1>3. Sound(a) /\ a.mission.task = n.mission.task
    BY <1>2, AdvanceSound, AdvanceGoesOn
  <1>4. d.mission = a.mission
    BY <1>3, DecidedSame DEF Same
  <1>5. TickStates(fix, here, scene) = <<s, a, d>>
    BY DEF TickStates
  <1> HIDE DEF s, n, nav, a, d
  <1>6. i = 1 \/ i = 2 \/ i = 3
    OBVIOUS
  <1> QED
    BY <1>1, <1>2, <1>3, <1>4, <1>5, <1>6

LEMMA TickPickup ==
  ASSUME PickupInv, Inferred = {}, Tick \/ TickFails
  PROVE  ~hist'.replaced => Waits(rover', place') /\ TakenThere(hist', rover'.mission)
  <1>1. IInv
    BY DEF PickupInv
  <1>2. ASSUME LinkHandled \/ UNCHANGED <<motor, hist>>, rover'.mission.task = rover.mission.task
        PROVE  /\ hist'.replaced = hist.replaced
               /\ TakenThere(hist, rover.mission) => TakenThere(hist', rover'.mission)
    BY <1>1, <1>2 DEF LinkHandled, IInv, TakenThere, PickupEnd
  <1>3. CASE Tick
    <2>1. PICK fix \in BOOLEAN, scene \in Scenes : TickWith(fix, scene)
      BY <1>3 DEF Tick
    <2>2. PICK here \in Positions(fix) : rover' = TickStates(fix, here, scene)[3]
      BY <2>1 DEF TickWith
    <2>3. place' = place /\ LinkHandled
      BY <2>1 DEF TickWith
    <2>4. here \in Places \cup {NoPlace} /\ 3 \in 1..3
      BY <1>1, PositionsAre
    <2>5. rover'.mission.task = rover.mission.task
      BY <1>1, <2>2, <2>4, TickTask
    <2>6. Waits(rover, place) => Waits(rover', place)
      BY <1>1, <2>2, TickStatesThere
    <2> QED
      BY <1>2, <2>3, <2>5, <2>6 DEF PickupInv
  <1>4. CASE TickFails
    <2>1. PICK fix \in BOOLEAN, scene \in Scenes : \E here \in Positions(fix) :
            \/ /\ \E i \in 1..3 : rover' = Failed(TickStates(fix, here, scene)[i])
               /\ LinkHandled
            \/ /\ rover' \in {Failed(rover), Failed(Sensed(here, fix))}
               /\ UNCHANGED <<motor, hist>>
      BY <1>4 DEF TickFails
    <2>2. PICK here \in Positions(fix) :
            \/ /\ \E i \in 1..3 : rover' = Failed(TickStates(fix, here, scene)[i])
               /\ LinkHandled
            \/ /\ rover' \in {Failed(rover), Failed(Sensed(here, fix))}
               /\ UNCHANGED <<motor, hist>>
      BY <2>1
    <2>3. here \in Places \cup {NoPlace} /\ place' = place
      BY <1>1, <1>4, PositionsAre DEF TickFails
    <2>4. PICK t : /\ rover' = Failed(t) /\ Sound(t) /\ t.mission.task = rover.mission.task
                   /\ Waits(rover, place) => There(t, place)
                   /\ LinkHandled \/ UNCHANGED <<motor, hist>>
      <3>1. CASE (\E i \in 1..3 : rover' = Failed(TickStates(fix, here, scene)[i])) /\ LinkHandled
        <4>1. PICK i \in 1..3 : rover' = Failed(TickStates(fix, here, scene)[i])
          BY <3>1
        <4> QED
          BY <1>1, <2>3, <3>1, <4>1, TickStatesSound, TickTask, TickStatesThere
      <3>2. CASE rover' \in {Failed(rover), Failed(Sensed(here, fix))} /\ UNCHANGED <<motor, hist>>
        <4>1. Sound(rover) /\ Sound(Sensed(here, fix)) /\ Same(rover, Sensed(here, fix))
          BY <1>1, <2>3, SensedSound, SensedSame DEF IInv
        <4>2. There(rover, place) => There(Sensed(here, fix), place)
          BY <4>1, SameThere
        <4> QED
          BY <3>2, <4>1, <4>2 DEF Waits, Same
      <3> QED
        BY <2>2, <3>1, <3>2
    <2>5. Same(t, rover') /\ rover'.intent = "stop"
      BY <2>4, HaltSame
    <2>6. Waits(rover, place) => Waits(rover', place)
      BY <2>4, <2>5, SameThere
    <2> QED
      BY <1>2, <2>3, <2>4, <2>5, <2>6 DEF PickupInv, Same
  <1> QED
    BY <1>3, <1>4

\* A mission that is not active is at no stop.
LEMMA NotActiveNotThere ==
  ASSUME NEW r, ~Active(r), NEW p
  PROVE  Waits(r, p)
  BY DEF Active, Terminal, Waits, There, AtMeasuredPickup

LEMMA AbandonTask ==
  ASSUME NEW r, Sound(r)
  PROVE  Abandon(r).mission.task = r.mission.task
  <1>1. [r.mission EXCEPT !.status = "ABORTED"].task = r.mission.task /\ r \in Rovers
    BY MissionsAre DEF Sound, Typed, Rovers
  <1> QED
    BY <1>1 DEF Abandon, Rovers

\* What ends a mission keeps its task.
LEMMA EndedTask ==
  ASSUME NEW r, Sound(r)
  PROVE  /\ StopMission(r).mission.task = r.mission.task
         /\ StopMission(r).mission = Abandon(r).mission
         /\ HomePosition(r) # NoPlace => ReturnToBase(r).mission.task = r.mission.task
         /\ HomePosition(r) # NoPlace => ReturnToBase(r).mission = Abandon(r).mission
  <1>1. Sound(Abandon(r)) /\ Abandon(r).mission.task = r.mission.task
    BY AbandonSound, AbandonTask
  <1>2. /\ Sound(SetRoute(Abandon(r), <<>>))
        /\ SetRoute(Abandon(r), <<>>).mission = Abandon(r).mission
    BY <1>1, SetRouteSound, EmptySeq
  <1>3. StopMission(r).mission = Abandon(r).mission
    BY <1>2 DEF StopMission, Sound, Typed, Rovers
  <1>4. ASSUME HomePosition(r) # NoPlace PROVE ReturnToBase(r).mission = Abandon(r).mission
    <2>1. <<HomePosition(r)>> \in Seq(Places)
      BY <1>4, PlacesAssumption DEF HomePosition, Sound, Typed, Rovers
    <2> DEFINE s == SetRoute(Abandon(r), <<HomePosition(r)>>)
    <2>2. Sound(s) /\ s.mission = Abandon(r).mission
      BY <1>1, <2>1, SetRouteSound
    <2>3. ReturnToBase(r) = [s EXCEPT !.kept = <<HomePosition(r)>>, !.mode = "AUTO"]
      BY DEF ReturnToBase
    <2> HIDE DEF s
    <2> QED
      BY <2>2, <2>3 DEF Sound, Typed, Rovers
  <1> QED
    BY <1>1, <1>3, <1>4

\* Resuming a mission whose route is loaded only changes the mode and the kept route.
LEMMA ResumeSame ==
  ASSUME NEW r, Sound(r)
  PROVE  /\ ResumeMission(r).mission = r.mission
         /\ r.route # <<>> => Same(r, ResumeMission(r)) /\ Calmer(r, ResumeMission(r))
  <1> DEFINE k == ResumedRoute(r)
             l == IF r.route = <<>> THEN SetRoute(r, k) ELSE r
  <1>1. ResumeMission(r) = [l EXCEPT !.kept = k, !.mode = "AUTO"]
    BY DEF ResumeMission
  <1>2. l.mission = r.mission /\ DOMAIN l = DOMAIN r /\ (r.route # <<>> => l = r)
    BY DEF SetRoute, Sound, Typed, Rovers
  <1> HIDE DEF k, l
  <1>3. /\ ResumeMission(r).mission = l.mission /\ ResumeMission(r).route = l.route
        /\ ResumeMission(r).idx = l.idx /\ ResumeMission(r).intent = l.intent
    BY <1>1, <1>2
  <1> QED
    BY <1>2, <1>3 DEF Same, Calmer

LEMMA RunFields ==
  ASSUME NEW r, Sound(r), NEW path
  PROVE  Run(r, path).mission = r.mission /\ DOMAIN Run(r, path) = DOMAIN r
  <1> DEFINE s == SetRoute(r, path)
             o == IF r.seen # NoPlace THEN r.seen ELSE s.origin
  <1>1. s.mission = r.mission /\ DOMAIN s = DOMAIN r
    BY DEF SetRoute, Sound, Typed, Rovers
  <1>2. Run(r, path) = [s EXCEPT !.kept = path, !.mode = "AUTO", !.origin = o]
    BY <1>1 DEF Run, Sound, Typed, Rovers
  <1> HIDE DEF s, o
  <1> QED
    BY <1>1, <1>2

\* A mission that is begun.
LEMMA AssignedMission ==
  ASSUME IInv, NEW task \in Tasks, NEW custody \in BOOLEAN, Assign(task, custody)
  PROVE  /\ rover'.mission.status = "TO_PICKUP" /\ rover'.mission.task = task
         /\ rover.mission.task # task
         /\ hist' = [acquired_at |-> NoPlace, asked |-> TRUE, replaced |-> FALSE]
         /\ place' = place
  <1> DEFINE m == Begun(task, custody)
             s == Run(rover, PickupPath[task])
  <1>1. m.status = "TO_PICKUP" /\ m.task = task
    BY DEF Begun, NoMission
  <1>2. rover' = [s EXCEPT !.mission = m] /\ "mission" \in DOMAIN s
    BY RunFields DEF Assign, IInv, Sound, Typed, Rovers
  <1> HIDE DEF m, s
  <1> QED
    BY <1>1, <1>2 DEF Assign, MayBegin

LEMMA RequestsPickup ==
  ASSUME PickupInv, Requests
  PROVE  ~hist'.replaced => Waits(rover', place') /\ TakenThere(hist', rover'.mission)
  <1> DEFINE Goal == ~hist'.replaced => Waits(rover', place') /\ TakenThere(hist', rover'.mission)
  <1>1. IInv /\ Sound(rover)
    BY DEF PickupInv, IInv
  <1>2. ASSUME hist'.replaced = hist.replaced, hist'.acquired_at = hist.acquired_at,
               rover'.mission.task = rover.mission.task, place' = place,
               ~hist.replaced /\ Waits(rover, place) => Waits(rover', place)
        PROVE  Goal
    BY <1>2 DEF PickupInv, TakenThere, PickupEnd
  <1>3. ASSUME hist' = hist \/ hist' = [hist EXCEPT !.asked = hist'.asked]
        PROVE  hist'.replaced = hist.replaced /\ hist'.acquired_at = hist.acquired_at
    BY <1>1, <1>3 DEF IInv
  <1>4. ASSUME NEW task \in Tasks, NEW custody \in BOOLEAN, Assign(task, custody) PROVE Goal
    <2>1. rover'.mission.status = "TO_PICKUP" /\ hist'.acquired_at = NoPlace
      BY <1>1, <1>4, AssignedMission
    <2> QED
      BY <2>1 DEF Waits, There, AtMeasuredPickup, TakenThere
  <1>5. ASSUME NEW path \in LocalPaths, StartLocal(path) PROVE Goal
    <2>1. path \in Seq(Places)
      BY PlacesAssumption
    <2>2. rover'.mission = rover.mission /\ place' = place
      BY <1>1, <1>5, <2>1, RunSound DEF StartLocal
    <2>3. /\ hist'.replaced = (hist.replaced \/ Active(rover))
          /\ hist'.acquired_at = hist.acquired_at
      BY <1>1, <1>5 DEF StartLocal, IInv
    <2>4. ~hist'.replaced => ~hist.replaced /\ Waits(rover', place')
      BY <2>2, <2>3, NotActiveNotThere DEF Active, Waits, There, AtMeasuredPickup, Terminal
    <2> QED
      BY <2>2, <2>3, <2>4 DEF PickupInv, TakenThere, PickupEnd
  <1>6. CASE Stop
    <2>1. Waits(rover', place) /\ rover'.mission.task = rover.mission.task
      BY <1>1, <1>6, StopSound, EndedTask, NotActiveNotThere DEF Stop
    <2> QED
      BY <1>2, <1>6, <2>1 DEF Stop
  <1>7. CASE Pause
    <2>1. Same(rover, rover') /\ Calmer(rover, rover')
      BY <1>1, <1>7, HaltSame DEF Pause, Calmer
    <2>2. Waits(rover, place) => Waits(rover', place)
      BY <2>1, SameThere
    <2> QED
      BY <1>2, <1>7, <2>1, <2>2 DEF Pause, Same
  <1>8. CASE Resume
    <2>1. ResumeMission(rover).mission = rover.mission
      BY <1>1, ResumeSame
    <2>2. ASSUME ~hist.replaced, Waits(rover, place) PROVE Waits(rover', place)
      <3>1. CASE rover.mission.status = "AT_PICKUP"
        <4>1. Active(rover)
          BY <3>1 DEF Active, Terminal
        <4>2. rover.route # <<>>
          BY <1>1, <2>2, <3>1, <4>1, LegPathType DEF IInv, OnLeg
        <4> QED
          BY <1>1, <1>8, <2>2, <4>2, ResumeSame, SameThere DEF Resume
      <3>2. CASE rover.mission.status # "AT_PICKUP"
        BY <1>8, <2>1, <3>2 DEF Resume, Waits, There, AtMeasuredPickup
      <3> QED
        BY <3>1, <3>2
    <2>3. hist' = [hist EXCEPT !.asked = hist'.asked] /\ place' = place
      BY <1>1, <1>8 DEF Resume, Told, IInv
    <2>4. rover'.mission = rover.mission
      BY <1>8, <2>1 DEF Resume
    <2> QED
      BY <1>2, <1>3, <2>2, <2>3, <2>4
  <1>9. CASE Return
    <2>1. Waits(rover', place) /\ rover'.mission.task = rover.mission.task
      BY <1>1, <1>9, ReturnSound, EndedTask, NotActiveNotThere DEF Return
    <2>2. hist' = [hist EXCEPT !.asked = hist'.asked] /\ place' = place
      BY <1>1, <1>9 DEF Return, Told, IInv
    <2> QED
      BY <1>2, <1>3, <2>1, <2>2
  <1>10. CASE EngageStop
    <2>1. Same(rover, rover') /\ Calmer(rover, rover')
      BY <1>1, <1>10, HaltSame DEF EngageStop, Calmer
    <2>2. Waits(rover, place) => Waits(rover', place)
      BY <2>1, SameThere
    <2>3. hist' = [hist EXCEPT !.asked = hist'.asked] /\ place' = place
      BY <1>1, <1>10 DEF EngageStop, IInv
    <2> QED
      BY <1>2, <1>3, <2>1, <2>2, <2>3 DEF Same
  <1>11. CASE ClearStop \/ ResumeIdle
    <2>1. Same(rover, rover') /\ Calmer(rover, rover')
      BY <1>1, <1>11 DEF ClearStop, ResumeIdle, Same, Calmer, Sound, Typed, Rovers
    <2>2. Waits(rover, place) => Waits(rover', place)
      BY <2>1, SameThere
    <2> QED
      BY <1>2, <1>11, <2>1, <2>2 DEF ClearStop, ResumeIdle, Same
  <1>12. CASE Acquire
    <2>1. /\ rover.mission.status = "AT_PICKUP" /\ rover.mission.pickup_measured
          /\ hist' = [hist EXCEPT !.acquired_at = place] /\ place' = place
          /\ rover' = [rover EXCEPT !.mission.acquired = TRUE]
      BY <1>12 DEF Acquire
    <2> DEFINE n == [rover.mission EXCEPT !.acquired = TRUE]
    <2>2. /\ n.task = rover.mission.task /\ n.status = rover.mission.status
          /\ n.pickup_measured = rover.mission.pickup_measured
      BY <1>1, MissionsAre DEF Sound, Typed, Rovers
    <2>3. rover' = [rover EXCEPT !.mission = n]
      BY <1>1, <2>1 DEF Sound, Typed, Rovers
    <2> HIDE DEF n
    <2>4. /\ rover'.mission = n /\ rover'.route = rover.route /\ rover'.idx = rover.idx
          /\ rover'.intent = rover.intent
      BY <1>1, <2>3 DEF Sound, Typed, Rovers
    <2>5. hist'.replaced = hist.replaced /\ hist'.acquired_at = place
      BY <1>1, <2>1 DEF IInv
    <2>6. ASSUME ~hist.replaced PROVE Waits(rover', place) /\ TakenThere(hist', rover'.mission)
      <3>1. Waits(rover, place)
        BY <2>6 DEF PickupInv
      <3>2. place = Waypoint(rover) /\ rover.idx = Len(rover.route)
        BY <2>1, <3>1 DEF Waits, There, AtMeasuredPickup
      <3>3. rover.route = LegPath(rover.mission)
        BY <1>1, <2>1, <2>6 DEF IInv, OnLeg, Active, Terminal
      <3>4. place = PickupEnd(rover.mission)
        BY <2>1, <3>2, <3>3 DEF LegPath, DropLegs, PickupEnd, Waypoint
      <3> QED
        BY <2>2, <2>4, <2>5, <3>1, <3>4
        DEF Waits, There, AtMeasuredPickup, Waypoint, TakenThere, PickupEnd
    <2> QED
      BY <2>1, <2>5, <2>6
  <1>13. CASE Release
    <2> DEFINE n == [rover.mission EXCEPT !.released = TRUE]
    <2>1. n.task = rover.mission.task /\ n.status = "AT_DROP"
      BY <1>1, <1>13, MissionsAre DEF Release, Sound, Typed, Rovers
    <2>2. rover'.mission = n
      BY <1>1, <1>13 DEF Release, Sound, Typed, Rovers
    <2> HIDE DEF n
    <2>3. Waits(rover', place)
      BY <2>1, <2>2 DEF Waits, There, AtMeasuredPickup
    <2> QED
      BY <1>2, <1>13, <2>1, <2>2, <2>3 DEF Release
  <1>14. ASSUME NEW task \in Tasks, Accept(task) PROVE Goal
    BY <1>4, <1>14 DEF Accept
  <1> QED
    BY <1>4, <1>5, <1>6, <1>7, <1>8, <1>9, <1>10, <1>11, <1>12, <1>13, <1>14 DEF Requests

\* The world leaves a Rover that waits where it is; one that is driven waits nowhere.
LEMMA WorldPickup ==
  ASSUME PickupInv, World
  PROVE  ~hist'.replaced => Waits(rover', place') /\ TakenThere(hist', rover'.mission)
  <1>1. rover' = rover /\ hist' = hist
    BY DEF World, Drive, Between, MotorLost, MotorBack, MotorReboots
  <1>2. CASE Drive \/ Between
    <2>1. rover.intent = "drive"
      BY <1>2 DEF Drive, Between
    <2>2. Waits(rover, place) => Waits(rover, place')
      BY <2>1 DEF Waits, There
    <2> QED
      BY <1>1, <2>2 DEF PickupInv
  <1>3. CASE MotorLost \/ MotorBack \/ MotorReboots
    BY <1>1, <1>3 DEF PickupInv, MotorLost, MotorBack, MotorReboots
  <1> QED
    BY <1>2, <1>3 DEF World

LEMMA PickupInductive ==
  ASSUME Inferred = {}
  PROVE  Spec => []PickupInv
  <1>1. Init => PickupInv
    <2> SUFFICES ASSUME Init PROVE PickupInv
      OBVIOUS
    <2>1. rover.mission.status = "ABORTED" /\ hist.acquired_at = NoPlace
      BY DEF Init, NoMission
    <2> QED
      BY <2>1, InitEstablishes
      DEF PickupInv, Waits, There, AtMeasuredPickup, TakenThere
  <1>2. PickupInv /\ [Next]_vars => PickupInv'
    <2> SUFFICES ASSUME PickupInv, [Next]_vars PROVE PickupInv'
      OBVIOUS
    <2>1. IInv'
      BY NextKeeps DEF PickupInv
    <2>2. ~hist'.replaced => Waits(rover', place') /\ TakenThere(hist', rover'.mission)
      <3>1. CASE Tick \/ TickFails
        BY <3>1, TickPickup
      <3>2. CASE Requests
        BY <3>2, RequestsPickup
      <3>3. CASE World
        BY <3>3, WorldPickup
      <3>4. CASE UNCHANGED vars
        BY <3>4 DEF vars, PickupInv
      <3> QED
        BY <3>1, <3>2, <3>3, <3>4 DEF Next
    <2> QED
      BY <2>1, <2>2 DEF PickupInv
  <1> QED
    BY <1>1, <1>2, PTL DEF Spec

\* With measured positions only, as is the default (deadreckon_enabled), the parcel is taken on
\* at the last point of the pickup path: the Rover waits there from the arrival on.
THEOREM AcquiredAtPickupHolds ==
  ASSUME Inferred = {}
  PROVE  Spec => []AcquiredAtPickup
  <1>1. PickupInv => AcquiredAtPickup
    BY DEF PickupInv, TakenThere, PickupEnd, AcquiredAtPickup
  <1> QED
    BY <1>1, PickupInductive, PTL

(***************************************************************************)
(* A mission never goes back.                                              *)
(***************************************************************************)

\* From r to a the mission goes on or stays; while it stays, the route does and the index does
\* not go back.
Onward(r, a) ==
  /\ a.mission.task = r.mission.task
  /\ a.mission.status \in {r.mission.status} \cup LaterThan(r.mission.status)
OnLegFurther(r, a) ==
  a.mission.status = r.mission.status /\ Active(r) => a.route = r.route /\ a.idx >= r.idx

LEMMA SameOnward ==
  ASSUME NEW r, Sound(r), NEW a, Same(r, a)
  PROVE  Onward(r, a) /\ OnLegFurther(r, a)
  BY DEF Sound, Typed, Rovers, Same, Onward, OnLegFurther

LEMMA AbandonOnward ==
  ASSUME NEW r, Sound(r), NEW a, a.mission = Abandon(r).mission
  PROVE  Onward(r, a) /\ OnLegFurther(r, a)
  <1>1. CASE Active(r)
    <2>1. r.mission.status \in {"TO_PICKUP", "AT_PICKUP", "TO_DROP", "AT_DROP"}
      BY <1>1, MissionsAre DEF Active, Terminal, Sound, Typed, Rovers
    <2>2. a.mission = [r.mission EXCEPT !.status = "ABORTED"]
      BY <1>1 DEF Abandon, Sound, Typed, Rovers
    <2>3. a.mission.status = "ABORTED" /\ a.mission.task = r.mission.task
      BY <2>2, MissionsAre DEF Sound, Typed, Rovers
    <2> QED
      BY <2>1, <2>3 DEF Onward, OnLegFurther, LaterThan
  <1>2. CASE ~Active(r)
    BY <1>2 DEF Abandon, Active, Terminal, Onward, OnLegFurther
  <1> QED
    BY <1>1, <1>2

\* The stages are in the order of LaterThan.
LEMMA StageOrder ==
  ASSUME NEW m \in Missions, NEW n \in Missions,
         n.status \in {m.status} \cup LaterThan(m.status)
  PROVE  /\ Stage(n) >= Stage(m)
         /\ m.status \in Terminal => n.status = m.status
  <1>1. DOMAIN Stages = {1, 2, 3, 4} /\ Stages[1] = "TO_PICKUP" /\ Stages[2] = "AT_PICKUP"
        /\ Stages[3] = "TO_DROP" /\ Stages[4] = "AT_DROP"
    BY DEF Stages
  <1>2. ASSUME NEW l \in Missions
        PROVE  Stage(l) = CASE l.status = "TO_PICKUP" -> 1
                            [] l.status = "AT_PICKUP" -> 2
                            [] l.status = "TO_DROP" -> 3
                            [] l.status = "AT_DROP" -> 4
                            [] OTHER -> 5
    <2> DEFINE c == CHOOSE i \in DOMAIN Stages : Stages[i] = l.status
    <2>1. l.status \in {"TO_PICKUP", "AT_PICKUP", "TO_DROP", "AT_DROP", "COMPLETE", "ABORTED"}
      BY MissionsAre
    <2>2. CASE l.status \in Terminal
      BY <2>2 DEF Stage, Terminal
    <2>3. CASE l.status \notin Terminal
      <3>1. Stage(l) = c
        BY <2>3 DEF Stage
      <3>2. \E i \in DOMAIN Stages : Stages[i] = l.status
        BY <1>1, <2>1, <2>3 DEF Terminal
      <3>3. c \in {1, 2, 3, 4} /\ Stages[c] = l.status
        BY <1>1, <3>2
      <3> HIDE DEF c
      <3> QED
        BY <1>1, <2>1, <2>3, <3>1, <3>3 DEF Terminal
    <2> QED
      BY <2>2, <2>3
  <1>3. m.status \in {"TO_PICKUP", "AT_PICKUP", "TO_DROP", "AT_DROP", "COMPLETE", "ABORTED"}
    BY MissionsAre
  <1>4. \/ n.status = m.status
        \/ m.status = "TO_PICKUP" /\ n.status \in {"AT_PICKUP", "TO_DROP", "AT_DROP", "COMPLETE", "ABORTED"}
        \/ m.status = "AT_PICKUP" /\ n.status \in {"TO_DROP", "AT_DROP", "COMPLETE", "ABORTED"}
        \/ m.status = "TO_DROP" /\ n.status \in {"AT_DROP", "COMPLETE", "ABORTED"}
        \/ m.status = "AT_DROP" /\ n.status \in {"COMPLETE", "ABORTED"}
    BY <1>3 DEF LaterThan
  <1>5. Stage(m) = CASE m.status = "TO_PICKUP" -> 1
                     [] m.status = "AT_PICKUP" -> 2
                     [] m.status = "TO_DROP" -> 3
                     [] m.status = "AT_DROP" -> 4
                     [] OTHER -> 5
    BY <1>2
  <1>6. Stage(n) = CASE n.status = "TO_PICKUP" -> 1
                     [] n.status = "AT_PICKUP" -> 2
                     [] n.status = "TO_DROP" -> 3
                     [] n.status = "AT_DROP" -> 4
                     [] OTHER -> 5
    BY <1>2
  <1> QED
    BY <1>3, <1>4, <1>5, <1>6 DEF Terminal

\* Throughout a tick.
LEMMA TickStatesOnward ==
  ASSUME IInv, NEW here \in Places \cup {NoPlace}, NEW fix \in BOOLEAN, NEW scene, NEW i \in 1..3
  PROVE  LET t == TickStates(fix, here, scene)[i] IN Onward(rover, t) /\ OnLegFurther(rover, t)
  <1> DEFINE s == Supervised(here, fix)
             n == Navigated(s, here)
             nav == NavigationStatus(n, here)
             a == Advance(n, nav, fix)
             d == Decided(a, nav, scene)
  <1>1. Sound(s) /\ Same(rover, s) /\ Sound(rover)
    BY SupervisedSound, SupervisedSame DEF IInv
  <1>2. Sound(n) /\ n.mission = s.mission /\ n.route = s.route /\ n.idx >= s.idx
    BY <1>1, NavigatedSound, NavigatedGoesOn
  <1>3. Sound(a) /\ a.mission.task = n.mission.task
        /\ (a = n \/ a.mission.status \in LaterThan(n.mission.status))
    BY <1>2, AdvanceSound, AdvanceGoesOn
  <1>4. Same(a, d)
    BY <1>3, DecidedSame
  <1>5. TickStates(fix, here, scene) = <<s, a, d>>
    BY DEF TickStates
  <1> HIDE DEF s, n, nav, a, d
  <1>6. i = 1 \/ i = 2 \/ i = 3
    OBVIOUS
  <1>7. Onward(rover, s) /\ OnLegFurther(rover, s)
    BY <1>1, SameOnward
  <1>8. Onward(rover, a) /\ OnLegFurther(rover, a)
    <2>1. CASE a = n
      BY <1>1, <1>2, <2>1 DEF Same, Onward, OnLegFurther, Active
    <2>2. CASE a.mission.status \in LaterThan(n.mission.status)
      <3>1. n.mission.status \notin LaterThan(n.mission.status)
        BY DEF LaterThan
      <3> QED
        BY <1>1, <1>2, <1>3, <2>2, <3>1 DEF Same, Onward, OnLegFurther, Active
    <2> QED
      BY <1>3, <2>1, <2>2
  <1>9. Onward(rover, d) /\ OnLegFurther(rover, d)
    BY <1>4, <1>8 DEF Same, Onward, OnLegFurther, Active
  <1> QED
    BY <1>5, <1>6, <1>7, <1>8, <1>9

LEMMA TickOnward ==
  ASSUME IInv, Tick \/ TickFails
  PROVE  Onward(rover, rover') /\ OnLegFurther(rover, rover')
  <1>1. CASE Tick
    <2>1. PICK fix \in BOOLEAN, scene \in Scenes : TickWith(fix, scene)
      BY <1>1 DEF Tick
    <2>2. PICK here \in Positions(fix) : rover' = TickStates(fix, here, scene)[3]
      BY <2>1 DEF TickWith
    <2>3. here \in Places \cup {NoPlace} /\ 3 \in 1..3
      BY PositionsAre
    <2> QED
      BY <2>2, <2>3, TickStatesOnward
  <1>2. CASE TickFails
    <2>1. PICK fix \in BOOLEAN, scene \in Scenes : \E here \in Positions(fix) :
            \/ /\ \E i \in 1..3 : rover' = Failed(TickStates(fix, here, scene)[i])
               /\ LinkHandled
            \/ /\ rover' \in {Failed(rover), Failed(Sensed(here, fix))}
               /\ UNCHANGED <<motor, hist>>
      BY <1>2 DEF TickFails
    <2>2. PICK here \in Positions(fix) :
            \/ \E i \in 1..3 : rover' = Failed(TickStates(fix, here, scene)[i])
            \/ rover' \in {Failed(rover), Failed(Sensed(here, fix))}
      BY <2>1
    <2>3. here \in Places \cup {NoPlace} /\ Sound(rover)
      BY PositionsAre DEF IInv
    <2>4. PICK t : rover' = Failed(t) /\ Sound(t) /\ Onward(rover, t) /\ OnLegFurther(rover, t)
      <3>1. CASE \E i \in 1..3 : rover' = Failed(TickStates(fix, here, scene)[i])
        BY <2>3, <3>1, TickStatesSound, TickStatesOnward
      <3>2. CASE rover' \in {Failed(rover), Failed(Sensed(here, fix))}
        <4>1. Sound(Sensed(here, fix)) /\ Same(rover, Sensed(here, fix)) /\ Same(rover, rover)
          BY <2>3, SensedSound, SensedSame DEF Same
        <4> QED
          BY <2>3, <3>2, <4>1, SameOnward
      <3> QED
        BY <2>2, <3>1, <3>2
    <2>5. Same(t, rover')
      BY <2>4, HaltSame
    <2> QED
      BY <2>4, <2>5 DEF Same, Onward, OnLegFurther, Active
  <1> QED
    BY <1>1, <1>2

\* A request keeps the mission's task only with the mission going on, and its route but for
\* the resumption at the drop.
LEMMA RequestsOnward ==
  ASSUME IInv, Requests, rover'.mission.task = rover.mission.task
  PROVE  /\ Onward(rover, rover')
         /\ ~hist'.replaced => OnLegFurther(rover, rover') \/ DropReloaded
  <1> DEFINE Goal == /\ Onward(rover, rover')
                     /\ ~hist'.replaced => OnLegFurther(rover, rover') \/ DropReloaded
  <1>1. Sound(rover)
    BY DEF IInv
  <1>2. ASSUME NEW task \in Tasks, Accept(task) \/ Assign(task, FALSE) PROVE Goal
    BY <1>2, AssignedMission DEF Accept
  <1>3. ASSUME NEW path \in LocalPaths, StartLocal(path) PROVE Goal
    <2>1. path \in Seq(Places)
      BY PlacesAssumption
    <2>2. rover'.mission = rover.mission
      BY <1>1, <1>3, <2>1, RunSound DEF StartLocal
    <2>3. hist'.replaced = (hist.replaced \/ Active(rover))
      BY <1>3 DEF StartLocal, IInv
    <2> QED
      BY <2>2, <2>3 DEF Onward, OnLegFurther, Active, Terminal
  <1>4. CASE Stop \/ Return
    <2>1. rover'.mission = Abandon(rover).mission
      BY <1>1, <1>4, EndedTask DEF Stop, Return
    <2> QED
      BY <1>1, <2>1, AbandonOnward
  <1>5. CASE Resume
    <2>1. rover' = ResumeMission(rover) /\ ResumeMission(rover).mission = rover.mission
          /\ hist'.replaced = hist.replaced
      BY <1>1, <1>5, ResumeSame DEF Resume, Told, IInv
    <2>2. ASSUME ~hist'.replaced, Active(rover), ~DropReloaded
          PROVE  rover'.route = rover.route /\ rover'.idx >= rover.idx
      <3>1. rover.route # <<>>
        BY <1>1, <1>5, <2>1, <2>2, LegPathType DEF IInv, OnLeg, DropReloaded
      <3>2. Same(rover, rover')
        BY <1>1, <2>1, <3>1, ResumeSame
      <3> QED
        BY <1>1, <3>2 DEF Same, Sound, Typed, Rovers
    <2> QED
      BY <2>1, <2>2 DEF Onward, OnLegFurther
  <1>6. CASE Pause \/ EngageStop \/ ClearStop \/ ResumeIdle
    <2>1. Same(rover, rover')
      <3>1. CASE Pause \/ EngageStop
        BY <1>1, <3>1, HaltSame DEF Pause, EngageStop
      <3>2. CASE ClearStop \/ ResumeIdle
        BY <1>1, <3>2 DEF ClearStop, ResumeIdle, Same, Sound, Typed, Rovers
      <3> QED
        BY <1>6, <3>1, <3>2
    <2> QED
      BY <1>1, <2>1, SameOnward
  <1>7. CASE Acquire \/ Release
    <2>1. /\ rover' = [rover EXCEPT !.mission.acquired = TRUE]
             \/ rover' = [rover EXCEPT !.mission.released = TRUE]
          /\ rover.mission.status \in {"AT_PICKUP", "AT_DROP"}
      BY <1>7 DEF Acquire, Release
    <2>2. /\ rover'.mission.status = rover.mission.status
          /\ rover'.route = rover.route /\ rover'.idx = rover.idx
      BY <1>1, <2>1, MissionsAre DEF Sound, Typed, Rovers
    <2> QED
      BY <1>1, <2>2 DEF Onward, OnLegFurther, Sound, Typed, Rovers
  <1> QED
    BY <1>2, <1>3, <1>4, <1>5, <1>6, <1>7 DEF Requests

\* A mission never goes back a stage, one that is over stays over, and at every stage the route
\* is kept and followed forward, but for the resumption at the drop (resume_mission).
THEOREM LegNeverRestartsHolds == Spec => LegNeverRestarts
  <1> DEFINE A == LET m == rover.mission n == rover'.mission
                  IN n.task = m.task =>
                       /\ Stage(n) >= Stage(m)
                       /\ m.status \in Terminal => n.status = m.status
                       /\ n.status = m.status /\ Active(rover) /\ ~hist'.replaced
                            => (rover'.route = rover.route /\ rover'.idx >= rover.idx) \/ DropReloaded
  <1>1. IInv /\ [Next]_vars => [A]_vars
    <2> SUFFICES ASSUME IInv, Next, rover'.mission.task = rover.mission.task PROVE A
      OBVIOUS
    <2>1. rover.mission \in Missions /\ rover'.mission \in Missions /\ Sound(rover)
      BY NextKeeps DEF IInv, Sound, Typed, Rovers
    <2>2. /\ Onward(rover, rover')
          /\ ~hist'.replaced => OnLegFurther(rover, rover') \/ DropReloaded
      <3>1. CASE Tick \/ TickFails
        BY <3>1, TickOnward
      <3>2. CASE Requests
        BY <3>2, RequestsOnward
      <3>3. CASE World
        <4>1. rover' = rover
          BY <3>3 DEF World, Drive, Between, MotorLost, MotorBack, MotorReboots
        <4> QED
          BY <2>1, <4>1, SameOnward DEF Same
      <3> QED
        BY <3>1, <3>2, <3>3 DEF Next
    <2>3. /\ Stage(rover'.mission) >= Stage(rover.mission)
          /\ rover.mission.status \in Terminal => rover'.mission.status = rover.mission.status
      BY <2>1, <2>2, StageOrder DEF Onward
    <2> QED
      BY <2>2, <2>3 DEF OnLegFurther
  <1> QED
    BY <1>1, Inductive, PTL DEF Spec, LegNeverRestarts
=============================================================================
