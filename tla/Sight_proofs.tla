---------------------------- MODULE Sight_proofs ----------------------------
(***************************************************************************)
(* Proofs about Sight, for every view, detector, limit and interleaving of *)
(* the camera's thread, the detector's and the tick: a camera that stalled *)
(* is looked at no more than once, the types, and that what is asked of    *)
(* the motors is warranted by what is seen.                                *)
(***************************************************************************)
EXTENDS Sight, TLAPS, WellFoundedInduction

(***************************************************************************)
(* The inductive invariant.  Once a frame was found worth looking at while *)
(* the newest was stale, the newest is stale still, and nothing is under   *)
(* inference: the next cycle will find its frame too old.                  *)
(***************************************************************************)
Shape ==
  /\ camera = [device |-> camera.device, frame |-> camera.frame, age |-> camera.age,
               errors |-> camera.errors, failed |-> camera.failed]
  /\ camera.age \in Nat
  /\ worker = [pc |-> worker.pc, hand |-> worker.hand]
  /\ worker.pc = "aging" => camera.frame # NoFrame
OneAtMost ==
  /\ late \in {0, 1}
  /\ late = 1 => Stalled /\ worker.pc # "inferring"
IInv == Shape /\ OneAtMost

LEMMA InitIInv == Init => IInv
<1> SUFFICES ASSUME Init PROVE IInv
  OBVIOUS
<1>1. \E d \in {"disabled", "on", "failed"} : camera = Camera(d)
  BY DEF Init, StartCamera, Acquire
<1>2. worker \in {Off, Idle}
  BY DEF Init, StartPerception
<1>3. late = 0
  BY DEF Init
<1> QED
  BY <1>1, <1>2, <1>3 DEF IInv, Shape, OneAtMost, Camera, Off, Idle

LEMMA CameraKeeps == IInv /\ (Capture \/ CaptureError \/ Pass) => IInv'
<1> SUFFICES ASSUME IInv, Capture \/ CaptureError \/ Pass PROVE IInv'
  OBVIOUS
<1>1. CASE Capture
  <2>1. late' = 0 /\ UNCHANGED worker
    BY <1>1 DEF Capture
  <2>2. PICK view \in Views :
          camera' = [camera EXCEPT !.frame = view, !.age = 0, !.errors = 0, !.failed = FALSE]
    BY <1>1 DEF Capture
  <2>3. camera'.age = 0 /\ camera'.frame # NoFrame
    BY <2>2, SightAssumption DEF IInv, Shape
  <2>4. camera' = [device |-> camera'.device, frame |-> camera'.frame, age |-> camera'.age,
                   errors |-> camera'.errors, failed |-> camera'.failed]
    BY <2>2 DEF IInv, Shape
  <2> QED
    BY <2>1, <2>3, <2>4 DEF IInv, Shape, OneAtMost
<1>2. CASE CaptureError
  <2>1. UNCHANGED <<worker, late>> /\ camera'.age = camera.age /\ camera'.frame = camera.frame
    BY <1>2 DEF CaptureError, IInv, Shape
  <2>2. camera' = [device |-> camera'.device, frame |-> camera'.frame, age |-> camera'.age,
                   errors |-> camera'.errors, failed |-> camera'.failed]
    BY <1>2 DEF CaptureError, IInv, Shape
  <2> QED
    BY <2>1, <2>2 DEF IInv, Shape, OneAtMost, Stalled
<1>3. CASE Pass
  <2>1. /\ UNCHANGED <<worker, late>> /\ camera'.frame = camera.frame
        /\ camera'.age = IF camera.frame = NoFrame THEN 0 ELSE Least(camera.age + 1, FrameStale + 1)
    BY <1>3 DEF Pass, IInv, Shape
  <2>2. camera' = [device |-> camera'.device, frame |-> camera'.frame, age |-> camera'.age,
                   errors |-> camera'.errors, failed |-> camera'.failed]
    BY <1>3 DEF Pass, IInv, Shape
  <2>3. camera'.age \in Nat /\ (Stalled => Stalled')
    BY <2>1, SightAssumption DEF Least, Stalled, IInv, Shape
  <2> QED
    BY <2>1, <2>2, <2>3 DEF IInv, Shape, OneAtMost
<1> QED
  BY <1>1, <1>2, <1>3

LEMMA WorkerKeeps == IInv /\ (GetFrame \/ GetAge \/ Infer \/ CycleFails) => IInv'
<1> SUFFICES ASSUME IInv, GetFrame \/ GetAge \/ Infer \/ CycleFails PROVE IInv'
  OBVIOUS
<1>1. UNCHANGED camera /\ (Stalled <=> Stalled')
  BY DEF GetFrame, GetAge, Infer, CycleFails, Stalled
<1>2. CASE GetFrame
  BY <1>1, <1>2 DEF GetFrame, Rest, Idle, IInv, Shape, OneAtMost
<1>3. CASE GetAge
  <2>1. late' = late /\ (Stalled => worker' = Idle)
    BY <1>3 DEF GetAge, Rest, Stalled
  <2>2. worker' = [pc |-> worker'.pc, hand |-> worker'.hand] /\ worker'.pc # "aging"
    BY <1>3 DEF GetAge, Rest, Idle, IInv, Shape
  <2> QED
    BY <1>1, <2>1, <2>2 DEF IInv, Shape, OneAtMost, Idle
<1>4. CASE Infer
  <2>1. late = 0 /\ worker' = Idle /\ late' = IF Stalled THEN Least(late + 1, 2) ELSE late
    BY <1>4 DEF Infer, Rest, IInv, OneAtMost
  <2> QED
    BY <1>1, <2>1 DEF IInv, Shape, OneAtMost, Idle, Least
<1>5. CASE CycleFails
  BY <1>1, <1>5 DEF CycleFails, Rest, Idle, IInv, Shape, OneAtMost
<1> QED
  BY <1>2, <1>3, <1>4, <1>5

LEMMA StepKeeps == IInv /\ [Next]_vars => IInv'
<1>1. IInv /\ (UNCHANGED vars \/ \E due \in BOOLEAN : Tick(due)) => IInv'
  BY DEF vars, Tick, IInv, Shape, OneAtMost, Stalled
<1> QED
  BY <1>1, CameraKeeps, WorkerKeeps DEF Next

\* However long inference takes and whatever the camera's thread does meanwhile, of a camera that
\* stalled at most one result is still published as what is there (PerceptionPipeline).
THEOREM OneLateResultHolds == Spec => []OneLateResult
<1>1. IInv => OneLateResult
  BY DEF IInv, OneAtMost, OneLateResult
<1> QED
  BY <1>1, InitIInv, StepKeeps, PTL DEF Spec

(***************************************************************************)
(* What is seen: boxes within the frame, and the largest of them.          *)
(***************************************************************************)
LEMMA SizesAreNat ==
  /\ Width \in Nat \ {0} /\ Height \in Nat \ {0} /\ ScaleX \in Nat \ {0} /\ ScaleY \in Nat \ {0}
  /\ Full \in Nat \ {0} /\ SafetyMaxSpeed \in Nat \ {0} /\ ErrorLimit \in Nat \ {0}
  /\ StaleAfter \in Nat /\ FrameStale \in Nat /\ MaxIntentAge \in Nat /\ StopDistance \in Nat
  /\ CenterBand \in 0..Width /\ (Width - CenterBand) % 2 = 0
  BY SightAssumption

LEMMA WithinProperties ==
  ASSUME NEW x \in Int, NEW low \in Int, NEW high \in Int, low <= high
  PROVE  /\ Within(x, low, high) \in low..high
         /\ x \in low..high => Within(x, low, high) = x
  BY DEF Within, Most, Least

LEMMA ProductsOrdered ==
  ASSUME NEW a \in Nat, NEW b \in Nat, NEW m \in Nat, NEW n \in Nat, a <= m, b <= n
  PROVE  a * b \in 0..(m * n)
<1>1. a * b <= m * b
  OBVIOUS
<1>2. m * b <= m * n
  OBVIOUS
<1>3. a * b \in Nat /\ m * b \in Nat /\ m * n \in Nat
  OBVIOUS
<1> QED
  BY <1>1, <1>2, <1>3

IsSight(d) ==
  /\ \A i \in 1..4 : d.bbox[i] \in Int
  /\ InFrame(d.bbox)
  /\ d.area \in 0..(Width * Height)

LEMMA BoxesInFrame ==
  ASSUME NEW b, \A i \in 1..4 : b[i] \in Int, IsBox(Rescaled(b)),
         ~Scaled => InFrame(b)
  PROVE  InFrame(Rescaled(b)) /\ \A i \in 1..4 : Rescaled(b)[i] \in Int
<1>1. b[1] \in Int /\ b[2] \in Int /\ b[3] \in Int /\ b[4] \in Int
  OBVIOUS
<1>2. CASE ~Scaled
  BY <1>2 DEF Rescaled
<1>3. CASE Scaled
  <2>1. /\ b[1] * ScaleX \in Int /\ b[3] * ScaleX \in Int
        /\ b[2] * ScaleY \in Int /\ b[4] * ScaleY \in Int
    BY <1>1, SizesAreNat
  <2> DEFINE c1 == Within(b[1] * ScaleX, 0, Width - 1)
             c2 == Within(b[2] * ScaleY, 0, Height - 1)
             c3 == Within(b[3] * ScaleX, 0, Width)
             c4 == Within(b[4] * ScaleY, 0, Height)
  <2>2. c1 \in 0..(Width - 1) /\ c2 \in 0..(Height - 1) /\ c3 \in 0..Width /\ c4 \in 0..Height
    <3>1. Width - 1 \in Int /\ 0 <= Width - 1 /\ Height - 1 \in Int /\ 0 <= Height - 1
      BY SizesAreNat
    <3>2. Width \in Int /\ 0 <= Width /\ Height \in Int /\ 0 <= Height
      BY SizesAreNat
    <3>3. ASSUME NEW x \in Int
          PROVE  /\ Within(x, 0, Width - 1) \in 0..(Width - 1) /\ Within(x, 0, Width) \in 0..Width
                 /\ Within(x, 0, Height - 1) \in 0..(Height - 1)
                 /\ Within(x, 0, Height) \in 0..Height
      BY <3>1, <3>2 DEF Within, Most, Least
    <3> QED
      BY <2>1, <3>3, Zenon
  <2>3. Rescaled(b) = <<c1, c2, c3, c4>>
    BY <1>3 DEF Rescaled
  <2> HIDE DEF c1, c2, c3, c4
  <2>4. /\ Rescaled(b)[1] = c1 /\ Rescaled(b)[2] = c2
        /\ Rescaled(b)[3] = c3 /\ Rescaled(b)[4] = c4
    BY <2>3
  <2>5. c1 \in Int /\ c2 \in Int /\ c3 \in Int /\ c4 \in Int /\ c1 >= 0 /\ c2 >= 0
    BY <2>2, SizesAreNat
  <2>6. \A i \in 1..4 : i = 1 \/ i = 2 \/ i = 3 \/ i = 4
    OBVIOUS
  <2>7. c3 <= Width /\ c4 <= Height
    BY <2>2, SizesAreNat
  <2>8. \A i \in 1..4 : Rescaled(b)[i] \in Int
    BY <2>4, <2>5, <2>6
  <2> QED
    BY <2>4, <2>5, <2>7, <2>8 DEF InFrame
<1> QED
  BY <1>2, <1>3

LEMMA SightIsInFrame ==
  ASSUME NEW view \in Views, NEW d \in Sighting[view]
  PROVE  IsSight(d)
<1>1. PICK row \in view : d = Detection(row) /\ IsBox(row.box) /\ IsBox(Rescaled(row.box))
  BY DEF Sighting, Detections
<1> DEFINE b == Rescaled(row.box)
<1>2. InFrame(b) /\ \A i \in 1..4 : b[i] \in Int
  BY <1>1, ViewsAssumption, BoxesInFrame
<1>3. d.bbox = b /\ d.area = (b[3] - b[1]) * (b[4] - b[2])
  BY <1>1 DEF Detection
<1> HIDE DEF b
<1>4. /\ b[3] - b[1] \in Nat /\ b[4] - b[2] \in Nat
      /\ b[3] - b[1] <= Width /\ b[4] - b[2] <= Height
  BY <1>2, SizesAreNat DEF InFrame, IsBox
<1>5. d.area \in 0..(Width * Height)
  BY <1>3, <1>4, ProductsOrdered, SizesAreNat
<1> QED
  BY <1>2, <1>3, <1>5 DEF IsSight

LEMMA SeensAreInFrame == ASSUME NEW seen \in Seens PROVE \A d \in seen : IsSight(d)
  BY SightIsInFrame DEF Seens

LEMMA LargestExists ==
  ASSUME NEW S, S # {}, S \subseteq 0..(Width * Height)
  PROVE  \E a \in S : \A b \in S : b <= a
<1> DEFINE most == Width * Height
           gaps == {most - a : a \in S}
<1>1. most \in Nat
  BY SizesAreNat
<1> HIDE DEF most
<1>2. S \subseteq 0..most
  BY DEF most
<1>3. gaps \subseteq Nat /\ gaps # {}
  <2>1. ASSUME NEW a \in S PROVE most - a \in Nat
    BY <1>1, <1>2
  <2> QED
    BY <2>1
<1>4. PICK g \in gaps : \A h \in gaps : g <= h
  <2>1. PICK g \in gaps : \A h \in gaps : ~(<<h, g>> \in OpToRel(<, Nat))
    <3>1. IsWellFoundedOn(OpToRel(<, Nat), Nat)
      BY NatLessThanWellFounded
    <3> HIDE DEF gaps
    <3> QED
      BY <1>3, <3>1, WFMin
  <2>2. ASSUME NEW h \in gaps PROVE g <= h
    <3>1. ~(h < g) /\ g \in Nat /\ h \in Nat
      BY <1>3, <2>1 DEF OpToRel
    <3> QED
      BY <3>1
  <2> QED
    BY <2>2
<1>5. PICK a \in S : g = most - a
  OBVIOUS
<1>6. ASSUME NEW b \in S PROVE b <= a
  <2>1. most - b \in gaps
    OBVIOUS
  <2>2. most - a <= most - b
    BY <1>4, <1>5, <2>1
  <2>3. a \in Int /\ b \in Int
    BY <1>1, <1>2
  <2> QED
    BY <1>1, <2>2, <2>3
<1> QED
  BY <1>6

LEMMA LargestIsNat == ASSUME NEW seen, \A d \in seen : IsSight(d) PROVE LargestArea(seen) \in Nat
<1>1. Areas(seen) # {} /\ Areas(seen) \subseteq 0..(Width * Height)
  <2>1. 0 \in 0..(Width * Height)
    <3>1. Width * Height \in Nat
      BY SizesAreNat
    <3> QED
      BY <3>1
  <2> QED
    BY <2>1 DEF Areas, IsSight
<1>2. \E a \in Areas(seen) : \A b \in Areas(seen) : b <= a
  BY <1>1, LargestExists
<1>3. LargestArea(seen) \in Areas(seen)
  BY <1>2 DEF LargestArea
<1> QED
  BY <1>1, <1>3

(***************************************************************************)
(* The types.                                                              *)
(***************************************************************************)
Healths == {"HEALTHY", "DEGRADED", "FAILED", "UNKNOWN"}

\* The worst of three healths is one of them.
LEMMA OverallIsHealth ==
  ASSUME NEW a \in Healths, NEW b \in Healths, NEW c \in Healths
  PROVE  Overall({a, b, c}) \in Healths
<1> DEFINE worst == CHOOSE h \in {a, b, c} : \A g \in {a, b, c} : Severity[g] <= Severity[h]
<1>1. \A h \in Healths : Severity[h] \in 0..3
  BY DEF Healths, Severity
<1>2. \E h \in {a, b, c} : \A g \in {a, b, c} : Severity[g] <= Severity[h]
  <2>1. Severity[a] \in 0..3 /\ Severity[b] \in 0..3 /\ Severity[c] \in 0..3
    BY <1>1
  <2> QED
    BY <2>1
<1>3. worst \in {a, b, c}
  BY <1>2
<1>4. Overall({a, b, c}) = IF worst = "UNKNOWN" THEN "DEGRADED" ELSE worst
  BY DEF Overall
<1> HIDE DEF worst
<1> QED
  BY <1>3, <1>4 DEF Healths

LEMMA LatestProperties ==
  ASSUME TypeOK
  PROVE  /\ Latest.status \in Statuses
         /\ Usable(Latest) => Latest = result /\ result.status = "OK" /\ result.age <= StaleAfter
<1>1. result.age \in Nat /\ StaleAfter \in Nat
  BY SizesAreNat DEF TypeOK
<1> QED
  BY <1>1 DEF TypeOK, Latest, Unavailable, Usable, Statuses

LEMMA ReportsAreHealths == ASSUME TypeOK PROVE HealthReports \subseteq Healths
<1>1. CameraHealth \in Healths
  BY DEF TypeOK, CameraHealth, CameraVerdict, CameraStatus, Healths
<1>2. PerceptionHealth \in Healths
  BY LatestProperties DEF PerceptionHealth, PerceptionVerdict, Statuses, Healths
<1>3. \A m \in Metrics : SystemHealth(m) \in Healths
  BY SightAssumption DEF SystemHealth, Healths
<1>4. \A m \in Metrics : Overall({CameraHealth, PerceptionHealth, SystemHealth(m)}) \in Healths
  BY <1>1, <1>2, <1>3, OverallIsHealth
<1> QED
  BY <1>4 DEF HealthReports

CameraTypes == [device: {"disabled", "failed", "on"}, frame: Views \cup {NoFrame},
                age: 0..(FrameStale + 1), errors: 0..ErrorLimit, failed: BOOLEAN]
ResultTypes == [status: Statuses \ {"STALE"}, seen: Seens, delta: Int, age: 0..(StaleAfter + 1)]
ResultTyped(r) ==
  /\ r \in ResultTypes
  /\ \A d \in r.seen : InFrame(d.bbox)
  /\ r.status # "OK" => r.seen = {}
WorkerTyped(w) ==
  /\ w \in [pc: {"off", "idle", "aging", "inferring"}, hand: Views \cup {NoFrame}]
  /\ w.pc \in {"aging", "inferring"} <=> w.hand # NoFrame
RestTyped == prev \in Nat /\ moving \in BOOLEAN /\ report \in Healths /\ late \in 0..2

LEMMA Parts ==
  TypeOK <=> camera \in CameraTypes /\ WorkerTyped(worker) /\ ResultTyped(result) /\ RestTyped
  BY DEF TypeOK, CameraTypes, WorkerTyped, ResultTyped, ResultTypes, RestTyped, Healths

LEMMA PartsNext ==
  TypeOK' <=> camera' \in CameraTypes /\ WorkerTyped(worker') /\ ResultTyped(result') /\ RestTyped'
  BY DEF TypeOK, CameraTypes, WorkerTyped, ResultTyped, ResultTypes, RestTyped, Healths

LEMMA UnavailableTyped ==
  ASSUME NEW status \in {"NO_FRAME", "DETECTOR_ERROR", "DISABLED"}
  PROVE  ResultTyped(Unavailable(status))
<1>1. {} \in Seens /\ 0 \in Int /\ 0 \in 0..(StaleAfter + 1)
  BY SizesAreNat DEF Seens
<1> QED
  BY <1>1 DEF ResultTyped, ResultTypes, Unavailable, Statuses

LEMMA RestIsTyped == WorkerTyped(Idle) /\ WorkerTyped(Off)
  BY DEF WorkerTyped, Idle, Off

LEMMA InitTyped == Init => TypeOK
<1> SUFFICES ASSUME Init PROVE TypeOK
  OBVIOUS
<1>1. camera \in CameraTypes
  <2>1. \E d \in {"disabled", "on", "failed"} : camera = Camera(d)
    BY DEF Init, StartCamera, Acquire
  <2>2. 0 \in 0..(FrameStale + 1) /\ 0 \in 0..ErrorLimit
    BY SizesAreNat
  <2> QED
    BY <2>1, <2>2 DEF Camera, CameraTypes
<1>2. worker \in {Off, Idle} /\ result \in {Unavailable("DISABLED"), Unavailable("NO_FRAME")}
  BY DEF Init, StartPerception
<1>3. WorkerTyped(worker) /\ ResultTyped(result)
  BY <1>2, RestIsTyped, UnavailableTyped
<1>4. RestTyped
  <2>1. prev = 0 /\ moving = FALSE /\ report = "UNKNOWN" /\ late = 0
    BY DEF Init
  <2>2. prev \in Nat /\ late \in 0..2
    BY <2>1
  <2>3. moving \in BOOLEAN /\ report \in Healths
    BY <2>1, Zenon DEF Healths
  <2> QED
    BY <2>2, <2>3, Zenon DEF RestTyped
<1> QED
  BY <1>1, <1>3, <1>4, Parts

LEMMA CameraTyped == TypeOK /\ (Capture \/ CaptureError) => TypeOK'
<1> SUFFICES ASSUME TypeOK, Capture \/ CaptureError PROVE TypeOK'
  OBVIOUS
<1>1. camera \in CameraTypes /\ WorkerTyped(worker) /\ ResultTyped(result) /\ RestTyped
  BY Parts
<1>2. UNCHANGED <<worker, result, prev, moving, report>> /\ late' \in {0, late}
  BY DEF Capture, CaptureError
<1>3. camera' \in CameraTypes
  <2>1. CASE Capture
    <3>1. 0 \in 0..(FrameStale + 1) /\ 0 \in 0..ErrorLimit
      BY SizesAreNat
    <3> QED
      BY <1>1, <2>1, <3>1 DEF Capture, CameraTypes
  <2>2. CASE CaptureError
    <3> DEFINE e == Least(camera.errors + 1, ErrorLimit)
               f == camera.failed \/ camera.errors + 1 >= ErrorLimit
    <3>1. e \in 0..ErrorLimit
      BY <1>1, SizesAreNat DEF CameraTypes, Least
    <3>2. f \in BOOLEAN
      BY <1>1 DEF CameraTypes
    <3>3. camera' = [camera EXCEPT !.errors = e, !.failed = f]
      BY <2>2 DEF CaptureError
    <3> HIDE DEF e, f
    <3> QED
      BY <1>1, <3>1, <3>2, <3>3 DEF CameraTypes
  <2> QED
    BY <2>1, <2>2
<1> QED
  <2>1. late' \in 0..2
    BY <1>1, <1>2 DEF RestTyped
  <2> QED
    BY <1>1, <1>2, <1>3, <2>1, PartsNext DEF RestTyped

LEMMA PassTyped == TypeOK /\ Pass => TypeOK'
<1> SUFFICES ASSUME TypeOK, Pass PROVE TypeOK'
  OBVIOUS
<1>1. camera \in CameraTypes /\ WorkerTyped(worker) /\ ResultTyped(result) /\ RestTyped
  BY Parts
<1> DEFINE a == IF camera.frame = NoFrame THEN 0 ELSE Least(camera.age + 1, FrameStale + 1)
           b == IF result.status = "OK" THEN Least(result.age + 1, StaleAfter + 1) ELSE 0
<1>2. a \in 0..(FrameStale + 1)
  BY <1>1, SizesAreNat DEF CameraTypes, Least
<1>3. b \in 0..(StaleAfter + 1)
  BY <1>1, SizesAreNat DEF ResultTyped, ResultTypes, Least
<1>4. camera' = [camera EXCEPT !.age = a] /\ result' = [result EXCEPT !.age = b]
  BY DEF Pass
<1> HIDE DEF a, b
<1>5. camera' \in CameraTypes
  BY <1>1, <1>2, <1>4 DEF CameraTypes
<1>6. result' \in ResultTypes /\ result'.seen = result.seen /\ result'.status = result.status
  BY <1>1, <1>3, <1>4 DEF ResultTyped, ResultTypes
<1>7. UNCHANGED <<worker, prev, moving, report, late>>
  BY DEF Pass
<1> QED
  BY <1>1, <1>5, <1>6, <1>7, PartsNext DEF ResultTyped, RestTyped

LEMMA WorkerKeepsTypes == TypeOK /\ (GetFrame \/ GetAge \/ Infer \/ CycleFails) => TypeOK'
<1> SUFFICES ASSUME TypeOK, GetFrame \/ GetAge \/ Infer \/ CycleFails PROVE TypeOK'
  OBVIOUS
<1>1. camera \in CameraTypes /\ WorkerTyped(worker) /\ ResultTyped(result) /\ RestTyped
  BY Parts
<1>2. UNCHANGED <<camera, moving, report>>
  BY DEF GetFrame, GetAge, Infer, CycleFails
<1>3. WorkerTyped(worker') /\ ResultTyped(result') /\ prev' \in Nat /\ late' \in 0..2
  <2>1. CASE GetFrame
    <3>1. UNCHANGED <<prev, late>>
      BY <2>1 DEF GetFrame
    <3>2. CASE camera.frame = NoFrame
      BY <1>1, <2>1, <3>1, <3>2, UnavailableTyped, RestIsTyped DEF GetFrame, Publish, Rest, RestTyped
    <3>3. CASE camera.frame # NoFrame
      <4>1. worker' = [pc |-> "aging", hand |-> camera.frame] /\ UNCHANGED result
        BY <2>1, <3>3 DEF GetFrame
      <4>2. WorkerTyped(worker')
        BY <1>1, <3>3, <4>1 DEF WorkerTyped, CameraTypes
      <4> QED
        BY <1>1, <3>1, <4>1, <4>2 DEF RestTyped
    <3> QED
      BY <3>2, <3>3
  <2>2. CASE GetAge
    <3>1. UNCHANGED <<prev, late>> /\ worker.pc = "aging"
      BY <2>2 DEF GetAge
    <3>2. CASE camera.age > FrameStale
      BY <1>1, <2>2, <3>1, <3>2, UnavailableTyped, RestIsTyped DEF GetAge, Publish, Rest, RestTyped
    <3>3. CASE ~(camera.age > FrameStale)
      <4>1. worker' = [worker EXCEPT !.pc = "inferring"] /\ UNCHANGED result
        BY <2>2, <3>3 DEF GetAge
      <4>2. WorkerTyped(worker')
        BY <1>1, <3>1, <4>1 DEF WorkerTyped
      <4> QED
        BY <1>1, <3>1, <4>1, <4>2 DEF RestTyped
    <3> QED
      BY <3>2, <3>3
  <2>3. CASE Infer
    <3> DEFINE seen == Sighting[worker.hand]
               size == LargestArea(seen)
    <3>1. /\ worker.hand \in Views
          /\ worker' = Idle
          /\ result' = [status |-> "OK", seen |-> seen, delta |-> size - prev, age |-> 0]
          /\ prev' = size
          /\ late' = IF Stalled THEN Least(late + 1, 2) ELSE late
      BY <1>1, <2>3 DEF Infer, Publish, Rest, WorkerTyped
    <3>2. seen \in Seens
      BY <3>1 DEF Seens
    <3>3. \A d \in seen : IsSight(d)
      BY <3>2, SeensAreInFrame
    <3> HIDE DEF seen
    <3>4. size \in Nat
      BY <3>3, LargestIsNat
    <3> HIDE DEF size
    <3>5. size - prev \in Int /\ 0 \in 0..(StaleAfter + 1)
      BY <1>1, <3>4, SizesAreNat DEF RestTyped
    <3>6. ResultTyped(result')
      BY <3>1, <3>2, <3>3, <3>5 DEF ResultTyped, ResultTypes, Statuses, IsSight
    <3>7. late' \in 0..2
      BY <1>1, <3>1 DEF RestTyped, Least
    <3> QED
      BY <3>1, <3>4, <3>6, <3>7, RestIsTyped
  <2>4. CASE CycleFails
    BY <1>1, <2>4, UnavailableTyped, RestIsTyped DEF CycleFails, Publish, Rest, RestTyped
  <2> QED
    BY <2>1, <2>2, <2>3, <2>4
<1> QED
  BY <1>1, <1>2, <1>3, PartsNext DEF RestTyped

LEMMA TickTyped == TypeOK /\ (\E due \in BOOLEAN : Tick(due)) => TypeOK'
<1> SUFFICES ASSUME TypeOK, NEW due \in BOOLEAN, Tick(due) PROVE TypeOK'
  OBVIOUS
<1>1. camera \in CameraTypes /\ WorkerTyped(worker) /\ ResultTyped(result) /\ RestTyped
  BY Parts
<1>2. UNCHANGED <<camera, worker, result, prev, late>>
  BY DEF Tick
<1>3. report' \in Healths
  BY <1>1, ReportsAreHealths DEF Tick, RestTyped
<1>4. moving' \in BOOLEAN
  BY DEF Tick
<1> QED
  BY <1>1, <1>2, <1>3, <1>4, PartsNext DEF RestTyped

\* What the three threads hand each other always has its shape, and what is taken for seen lies
\* within the frame, whatever the detector and the rescaling make of its rows: _rescale cuts off
\* what reaches beyond it (PerceptionPipeline).
THEOREM TypeCorrect == Spec => []TypeOK
<1>1. TypeOK /\ [Next]_vars => TypeOK'
  <2>1. TypeOK /\ UNCHANGED vars => TypeOK'
    BY DEF vars, TypeOK
  <2> QED
    BY <2>1, CameraTyped, PassTyped, WorkerKeepsTypes, TickTyped DEF Next
<1> QED
  BY <1>1, InitTyped, PTL DEF Spec

(***************************************************************************)
(* What the decision and the gate make of a result.                        *)
(***************************************************************************)
LEMMA NothingWithin == ASSUME NEW n \in Nat PROVE Within(0, -n, n) = 0
  BY DEF Within, Most, Least

LEMMA StopIsStill == /\ ~Moves(Stop) /\ ~Moves(Hold)
                     /\ IsStop(Stop) /\ IsStop(Hold)
<1>1. Full * 1 \in Nat /\ -Full * 1 = -(Full * 1)
  BY SizesAreNat
<1>2. Within(0, -Full * 1, Full * 1) = 0
  BY <1>1, NothingWithin
<1> QED
  BY <1>2 DEF Stop, Hold, Motion, Moves, IsStop

\* What the gate lets through, and what of it.
LEMMA GateLets ==
  ASSUME NEW p, NEW estop \in BOOLEAN, NEW active \in BOOLEAN, NEW age, NEW range, NEW r,
         Moves(Evaluate(p, estop, active, age, range, r)), ~IsStop(p)
  PROVE  /\ ~estop /\ active /\ ~(age > MaxIntentAge) /\ ~RangeVetoes(range) /\ Usable(r)
         /\ \/ /\ Peak(p) > SafetyMaxSpeed * p.per
               /\ Evaluate(p, estop, active, age, range, r) = Clamp(p)
            \/ /\ ~(Peak(p) > SafetyMaxSpeed * p.per)
               /\ Evaluate(p, estop, active, age, range, r) = p
  BY StopIsStill DEF Evaluate

LEMMA StoppedStays ==
  ASSUME NEW p, NEW estop \in BOOLEAN, NEW active, NEW age, NEW range, NEW r,
         Moves(Evaluate(p, estop, active, age, range, r)), IsStop(p)
  PROVE  Moves(p)
  BY StopIsStill DEF Evaluate

\* Where it asks for motion, the decision has a usable result with nobody in it, and heeds what
\* is in the corridor.
LEMMA DecisionHeeds ==
  ASSUME NEW active \in BOOLEAN, NEW nav, NEW r, Decide(active, nav, r) # Stop,
         Decide(active, nav, r) # Hold
  PROVE  /\ Usable(r) /\ \A d \in r.seen : d.label # "person"
         /\ InCorridor(r) # {} => Decide(active, nav, r) = Avoid(Blocking(r), r)
<1>1. active /\ Usable(r) /\ ~(\E d \in r.seen : d.label = "person")
  BY DEF Decide
<1> DEFINE told == CASE nav.status \in {"IDLE", "ARRIVED"} -> Hold
                     [] nav.status \in {"NO_POSITION", "REROUTE_NEEDED"} -> Stop
                     [] OTHER -> IF InCorridor(r) # {} THEN Avoid(Blocking(r), r)
                                 ELSE FollowRoute(nav.error, r)
<1>2. Decide(active, nav, r) = told
  BY <1>1, Zenon DEF Decide
<1>3. told = Stop \/ told = Hold \/ InCorridor(r) = {} \/ told = Avoid(Blocking(r), r)
  OBVIOUS
<1> QED
  BY <1>1, <1>2, <1>3

\* The commands of the motions, and what the gate's clamping leaves of them.
LEMMA Commands ==
  ASSUME NEW speed
  PROVE  /\ TurnLeft(speed).command = "TURN_LEFT" /\ Clamp(TurnLeft(speed)).command = "TURN_LEFT"
         /\ TurnRight(speed).command = "TURN_RIGHT"
         /\ Clamp(TurnRight(speed)).command = "TURN_RIGHT"
         /\ ~IsStop(TurnLeft(speed)) /\ ~IsStop(TurnRight(speed))
  BY DEF TurnLeft, TurnRight, Motion, Clamp, IsStop

(***************************************************************************)
(* The corridor, in whole pixels of twice the middle.                      *)
(***************************************************************************)
LEMMA Halves ==
  ASSUME NEW s \in Int, NEW w \in Nat, NEW c \in 0..w, (w - c) % 2 = 0
  PROVE  /\ s \div 2 \in ((w - c) \div 2)..((w + c) \div 2) <=> s >= w - c /\ s <= w + c + 1
         /\ 2 * (s \div 2) < w <=> s < w + (w % 2)
<1>1. \E q \in Int : w - c = 2 * q
  <2>1. w - c \in Int
    OBVIOUS
  <2>2. w - c = 2 * ((w - c) \div 2) + ((w - c) % 2)
    BY <2>1
  <2> QED
    BY <2>1, <2>2
<1>2. PICK q \in Int : w - c = 2 * q
  BY <1>1
<1>3. (w - c) \div 2 = q /\ (w + c) \div 2 = q + c
  BY <1>2
<1>4. s = 2 * (s \div 2) + (s % 2) /\ s % 2 \in 0..1 /\ s \div 2 \in Int
  OBVIOUS
<1>5. s \div 2 \in q..(q + c) <=> s >= 2 * q /\ s <= 2 * q + 2 * c + 1
  BY <1>4
<1>6. 2 * (s \div 2) < w <=> s < w + (w % 2)
  <2>1. w = 2 * (w \div 2) + (w % 2) /\ w % 2 \in 0..1 /\ w \div 2 \in Int
    OBVIOUS
  <2> QED
    BY <1>4, <2>1
<1> QED
  BY <1>2, <1>3, <1>5, <1>6

Ahead == {d \in result.seen :
            d.area >= MinArea /\ d.bbox[1] + d.bbox[3] >= Width - CenterBand
                              /\ d.bbox[1] + d.bbox[3] <= Width + CenterBand + 1}

LEMMA ResultIsSight == ASSUME TypeOK PROVE \A d \in result.seen : IsSight(d)
<1>1. result.seen \in Seens
  BY DEF TypeOK
<1> QED
  BY <1>1, SeensAreInFrame

LEMMA AheadIsCorridor ==
  ASSUME TypeOK
  PROVE  /\ InCorridor(result) = Ahead
         /\ \A d \in result.seen :
              2 * Cx(d) < Width <=> d.bbox[1] + d.bbox[3] < Width + (Width % 2)
<1>1. ASSUME NEW d \in result.seen
      PROVE  /\ Cx(d) \in CenterZone <=> d.bbox[1] + d.bbox[3] >= Width - CenterBand
                                         /\ d.bbox[1] + d.bbox[3] <= Width + CenterBand + 1
             /\ 2 * Cx(d) < Width <=> d.bbox[1] + d.bbox[3] < Width + (Width % 2)
  <2>1. d.bbox[1] + d.bbox[3] \in Int
    <3>1. IsSight(d)
      BY ResultIsSight
    <3> QED
      BY <3>1 DEF IsSight
  <2> QED
    BY <2>1, Halves, SizesAreNat DEF Cx, CenterZone
<1> QED
  BY <1>1 DEF InCorridor, Ahead

LEMMA BlockingIsLargest ==
  ASSUME TypeOK, Ahead # {}
  PROVE  Blocking(result) \in Ahead /\ \A e \in Ahead : e.area <= Blocking(result).area
<1> DEFINE areas == {d.area : d \in Ahead}
<1>1. areas # {} /\ areas \subseteq 0..(Width * Height)
  BY ResultIsSight DEF Ahead, IsSight
<1>2. \E a \in areas : \A b \in areas : b <= a
  BY <1>1, LargestExists
<1>3. \E d \in Ahead : \A e \in Ahead : e.area <= d.area
  BY <1>2
<1>4. Blocking(result) = CHOOSE d \in Ahead : \A e \in Ahead : e.area <= d.area
  BY AheadIsCorridor DEF Blocking
<1> QED
  BY <1>3, <1>4

LEMMA OnlyWhereClear == TypeOK => MovesOnlyWhereClear
<1> SUFFICES ASSUME TypeOK, NEW active \in BOOLEAN, NEW estop \in BOOLEAN, NEW nav \in Navigations,
                    Moves(Published(active, estop, nav))
             PROVE  /\ result.status = "OK" /\ result.age <= StaleAfter
                    /\ \A d \in result.seen : d.label # "person"
                    /\ Ahead # {} =>
                         /\ Published(active, estop, nav).command \in {"TURN_LEFT", "TURN_RIGHT"}
                         /\ \A d \in Ahead : d.area < StopArea
                         /\ \E d \in Ahead :
                              /\ \A e \in Ahead : e.area <= d.area
                              /\ Published(active, estop, nav).command = "TURN_RIGHT"
                                   <=> d.bbox[1] + d.bbox[3] < Width + (Width % 2)
  BY Zenon DEF MovesOnlyWhereClear, Ahead
<1> DEFINE r == Latest
           p == Decide(active, nav, r)
           i == Published(active, estop, nav)
<1>1. i = Evaluate(p, estop, active, 0, NoSensor, r)
  BY DEF Published
<1>2. p # Stop /\ p # Hold
  <2>1. CASE IsStop(p)
    BY <1>1, <2>1, StoppedStays, StopIsStill
  <2>2. CASE ~IsStop(p)
    BY <2>2, StopIsStill
  <2> QED
    BY <2>1, <2>2
<1>3. /\ Usable(r) /\ \A d \in r.seen : d.label # "person"
      /\ InCorridor(r) # {} => p = Avoid(Blocking(r), r)
  BY <1>2, DecisionHeeds
<1>4. r = result /\ result.status = "OK" /\ result.age <= StaleAfter
  BY <1>3, LatestProperties
<1>5. ASSUME Ahead # {}
      PROVE  /\ i.command \in {"TURN_LEFT", "TURN_RIGHT"}
             /\ \A d \in Ahead : d.area < StopArea
             /\ \E d \in Ahead :
                  /\ \A e \in Ahead : e.area <= d.area
                  /\ i.command = "TURN_RIGHT" <=> d.bbox[1] + d.bbox[3] < Width + (Width % 2)
  <2> DEFINE o == Blocking(result)
  <2>1. o \in Ahead /\ \A e \in Ahead : e.area <= o.area
    BY <1>5, BlockingIsLargest
  <2>2. p = Avoid(o, result)
    BY <1>3, <1>4, <1>5, AheadIsCorridor
  <2>3. 2 * Cx(o) < Width <=> o.bbox[1] + o.bbox[3] < Width + (Width % 2)
    BY <2>1, AheadIsCorridor DEF Ahead
  <2> HIDE DEF o, p, i, r
  <2>4. /\ ~(o.area >= StopArea)
        /\ p = IF 2 * Cx(o) < Width THEN TurnRight(TurnSpeed) ELSE TurnLeft(TurnSpeed)
    BY <1>2, <2>2 DEF Avoid
  <2>5. ~IsStop(p)
    BY <2>4, Commands
  <2>6. i = p \/ i = Clamp(p)
    BY <1>1, <2>5, GateLets DEF i
  <2>7. i.command = IF 2 * Cx(o) < Width THEN "TURN_RIGHT" ELSE "TURN_LEFT"
    BY <2>4, <2>6, Commands
  <2>8. \A d \in Ahead : d.area < StopArea
    <3>1. \A d \in Ahead : d.area \in Nat
      <4>1. Width * Height \in Nat
        BY SizesAreNat
      <4> QED
        BY <4>1, ResultIsSight DEF Ahead, IsSight
    <3>2. StopArea \in Nat
      BY SightAssumption
    <3> QED
      BY <2>1, <2>4, <3>1, <3>2
  <2>9. i.command = "TURN_RIGHT" <=> o.bbox[1] + o.bbox[3] < Width + (Width % 2)
    BY <2>3, <2>7
  <2> QED
    BY <2>1, <2>7, <2>8, <2>9
<1> QED
  BY <1>3, <1>4, <1>5

(***************************************************************************)
(* The gate, on whatever is proposed to it.                                *)
(***************************************************************************)
LEMMA AbsProperties ==
  ASSUME NEW x \in Int, NEW m \in Nat
  PROVE  /\ Abs(x) \in Nat
         /\ Abs(x * m) = Abs(x) * m
         /\ (x * m) * x >= 0 /\ x * x >= 0
<1>1. Abs(x) = (IF x < 0 THEN -x ELSE x) /\ Abs(x * m) = IF x * m < 0 THEN -(x * m) ELSE x * m
  BY DEF Abs, Most
<1>2. CASE x >= 0
  <2>1. x * m >= 0 /\ (x * m) * x >= 0 /\ x * x >= 0
    BY <1>2
  <2> QED
    BY <1>1, <1>2, <2>1
<1>3. CASE x < 0
  <2> DEFINE y == -x
  <2>1. y \in Nat /\ x = -y
    BY <1>3
  <2> HIDE DEF y
  <2>2. x * m = -(y * m) /\ y * m \in Nat /\ x * x = y * y /\ (x * m) * x = (y * m) * y
    BY <2>1
  <2>3. y * y >= 0 /\ (y * m) * y >= 0
    BY <2>1, <2>2
  <2>4. Abs(x) = y /\ Abs(x * m) = y * m
    BY <1>1, <2>1, <2>2
  <2> QED
    BY <2>1, <2>2, <2>3, <2>4
<1> QED
  BY <1>2, <1>3

LEMMA ProposalProperties ==
  ASSUME NEW p \in Proposals
  PROVE  \E l, r \in Int : p = [command |-> "FORWARD", per |-> 1, left |-> l, right |-> r]
<1>1. PICK l, r \in {-Full, 0, 1, Full} : p = Motion("FORWARD", l, r, 1)
  BY DEF Proposals
<1>2. Within(l, -Full * 1, Full * 1) \in Int /\ Within(r, -Full * 1, Full * 1) \in Int
  BY SizesAreNat DEF Within, Most, Least
<1> QED
  BY <1>1, <1>2 DEF Motion

LEMMA GateReduces == GateOnlyReduces
<1> SUFFICES ASSUME NEW p \in Proposals, NEW estop \in BOOLEAN, NEW active \in BOOLEAN,
                    NEW age \in {0, MaxIntentAge + 1}, NEW range \in Ranges, ~IsStop(p),
                    Moves(Evaluate(p, estop, active, age, range, Latest))
             PROVE  LET i == Evaluate(p, estop, active, age, range, Latest)
                    IN /\ ~estop /\ active /\ age = 0 /\ Usable(Latest)
                       /\ range # [status |-> "VALID", distance |-> StopDistance]
                       /\ i.left * p.right = i.right * p.left
                       /\ i.left * p.left >= 0 /\ i.right * p.right >= 0
                       /\ Peak(i) <= Least(Peak(p), SafetyMaxSpeed) * i.per
  BY DEF GateOnlyReduces
<1> DEFINE i == Evaluate(p, estop, active, age, range, Latest)
<1>1. /\ ~estop /\ active /\ ~(age > MaxIntentAge) /\ ~RangeVetoes(range) /\ Usable(Latest)
      /\ \/ Peak(p) > SafetyMaxSpeed * p.per /\ i = Clamp(p)
         \/ ~(Peak(p) > SafetyMaxSpeed * p.per) /\ i = p
  BY GateLets
<1> HIDE DEF i
<1>2. age = 0
  BY <1>1, SizesAreNat
<1>3. range # [status |-> "VALID", distance |-> StopDistance]
  BY <1>1, SizesAreNat DEF RangeVetoes
<1>4. PICK l, r \in Int : p = [command |-> "FORWARD", per |-> 1, left |-> l, right |-> r]
  BY ProposalProperties
<1> DEFINE k == Peak(p)
           S == SafetyMaxSpeed
<1>5. k = Most(Abs(l), Abs(r)) /\ Abs(l) \in Nat /\ Abs(r) \in Nat /\ k \in Nat /\ S \in Nat
  <2>1. Abs(l) \in Nat /\ Abs(r) \in Nat
    BY <1>4, AbsProperties, 0 \in Nat
  <2> QED
    BY <1>4, <2>1, SizesAreNat DEF Peak, Most
<1> HIDE DEF k, S
<1>6. /\ i.left * r = i.right * l
      /\ i.left * l >= 0 /\ i.right * r >= 0
      /\ Peak(i) <= Least(k, S) * i.per
  <2>1. CASE k > S * p.per /\ i = Clamp(p)
    <3>1. i = [command |-> "FORWARD", per |-> k, left |-> l * S, right |-> r * S]
      BY <1>4, <2>1 DEF Clamp, k, S
    <3>2. Least(k, S) = S
      BY <1>4, <1>5, <2>1 DEF Least
    <3>3. Peak(i) = Most(Abs(l) * S, Abs(r) * S)
      BY <1>4, <1>5, <3>1, AbsProperties DEF Peak
    <3>4. Most(Abs(l) * S, Abs(r) * S) <= S * k
      <4>1. Abs(l) <= k /\ Abs(r) <= k
        BY <1>5 DEF Most
      <4>2. Abs(l) * S <= S * k /\ Abs(r) * S <= S * k
        BY <1>5, <4>1
      <4> QED
        BY <4>2 DEF Most
    <3>5. (l * S) * r = (r * S) * l
      BY <1>4, <1>5
    <3>6. (l * S) * l >= 0 /\ (r * S) * r >= 0
      BY <1>4, <1>5, AbsProperties
    <3> QED
      BY <3>1, <3>2, <3>3, <3>4, <3>5, <3>6
  <2>2. CASE ~(k > S * p.per) /\ i = p
    <3>1. k <= Least(k, S) * 1
      BY <1>4, <1>5, <2>2 DEF Least
    <3>2. l * l >= 0 /\ r * r >= 0 /\ l * r = r * l
      BY <1>4, <1>5, AbsProperties
    <3> QED
      BY <1>4, <2>2, <3>1, <3>2 DEF k
  <2> QED
    BY <1>1, <2>1, <2>2 DEF k, S
<1>7. p.left = l /\ p.right = r
  BY <1>4
<1> QED
  BY <1>1, <1>2, <1>3, <1>6, <1>7 DEF i, k, S

\* Whatever the camera shows, whatever the limits of the decision and the gate, the pixels of the
\* frame and the phase of each thread: the tick moves only on a usable result with nobody in it,
\* turns away from the largest thing in the corridor, and the gate only takes away (DecisionMaker,
\* SafetyGate).
THEOREM MotionIsWarrantedHolds == Spec => []MotionIsWarranted
<1>1. TypeOK => MotionIsWarranted
  BY OnlyWhereClear, GateReduces DEF MotionIsWarranted
<1> QED
  BY <1>1, TypeCorrect, PTL
=============================================================================
