# RobotX: a verification project

TLA+ models of the RobotX Rover agent (`robotx/`), model-checked with TLC and proved about
with TLAPS.

## The system and its parts

The Rover is one asyncio process on a Raspberry Pi plus a few threads. A backend offers it
deliveries over Socket.IO; an ESP32 on a serial line owns the motors.

| Part | Code | State it keeps | Operations |
|---|---|---|---|
| Engine channel | `communication/backend_link.py` (`_on_engine_command` .. `_respond_to_offer`), `engine.py` | hold queue `_held_envelopes`, position tracks | admit a signed envelope; apply OFFER, WITHDRAW, RECALL, ABORT_MISSION; answer an OFFER |
| Commitment store | `communication/commitment_store.py` | per commitment: highest fence and sequence, task, response, acknowledged outbox ids, tombstone, custody sent, completion | load at start-up, update (write then keep), held |
| Mission reporting | `backend_link.py` (`_held_mission`, `_publish_custody`, `_publish_task_complete`, heartbeat) | custody sent, completion, track | heartbeat with lease, custody events, task completion |
| Backend session | `backend_link.py` (`_run`, `_connect_once`, `_await_authentication`, loss policy), `token_store.py` | status, authentication events, back-off attempt, stored token | connect, authenticate, stream, back off, pause on loss |
| Operator commands | `communication/commands.py`, `backend_link.py` (`_on_command`) | history of outcomes, bounded by size and age | STOP, PAUSE, RESUME, RETURN, once each |
| Agent | `application/agent.py` | mode, loaded route, last telemetry | start, assign, stop, pause, resume, return, emergency stop, tick |
| Mission manager | `mission/manager.py`, `mission/mission.py` | the active mission: status, leg, custody times | assign, abandon, update, record custody |
| Navigation | `navigation/` | route, waypoint index | set route, clear, advance |
| Safety gate | `control/safety.py` | emergency-stop latch | review an intent |
| ESP32 link | `esp32/link.py`, `protocol.py` | connection, pending commands, sequence, PING proof, reboot latch, motion slot | poll, submit, acknowledge a reboot |
| Robot state | `state/robot_state.py` | the snapshot every part reads | locked updates |
| Perception | `perception/pipeline.py`, `hardware/camera.py` | newest frame, last result, error counts | capture, detect, publish a result |
| Localization | `hardware/gps.py`, `localization/` | last fix, heading, reckoned pose | read, estimate, integrate, reset |
| Health | `diagnostics/health.py` | last report | evaluate the parts' status |

The agent's loop, the link's publisher and every Socket.IO handler are coroutines of one event
loop: they interleave at `await`. The serial link, GPS, camera and sensors have threads of their
own and meet the loop in locked objects.

What is hard, and what makes each part correct:

* **Engine channel.** The engine delivers at least once and in any order, keeps an outbox, and
  believes what it is told. Correct: envelopes are applied once each in sequence order;
  nothing is acknowledged or answered that a restart would not remember; one answer per
  commitment; only accepted, not withdrawn commitments are driven; redelivery gets everything
  settled.
* **Mission reporting.** A lease is renewed, and custody and completion are claimed, only for
  the commitment being driven, each once.
* **Backend session.** Nothing counts as up that the backend has not authenticated; the link gets back to
  streaming while it has a credential; an active mission pauses when the link is lost long enough.
* **Operator commands.** A redelivered command is reported again, not executed again.
* **Agent and mission.** No motion under a latched emergency stop or right after it is cleared;
  a mission completes only through its own legs; pause and resume lose nothing.
* **ESP32 link.** No motion command crosses a reconnect, a reboot or a stop; a STOP is never
  overtaken by an older DRIVE; the link recovers from silence.
* **Perception, decision and gate.** No motion on what is stale, on a person or into an obstacle; a
  Rover that is blind stops and says so; the threads survive errors.
* **GPS and localization.** What is called measured was measured lately and since the port was opened;
  what is reckoned belongs to this run and is never called measured.

The hazards these come from are listed, each at its line, in `PROJECT.json`.

## The modules

| Module | Models | Composes / refines | Runs | Theorems |
|---|---|---|---|---|
| `EngineAdmission` | envelope admission, offers | channel + store + mission start and stop; refines `OfferContract` | `admission_safety`, `admission_liveness` | `EngineAdmission_proofs` |
| `OfferContract` | what the engine may rely on (abstract) | | as the property `KeepsContract` | |
| `MissionReporting` | the publish loop | store + mission + link + `CompletionEvidence` | `reporting`, `reporting_evidence` | `MissionReporting_proofs` |
| `CompletionEvidence` | `mission/evidence.py` | | as part of `reporting` | |
| `BackendSession` | connection, authentication, loss policy | `_run` + handlers + token file, client, backend | `session` | `BackendSession_proofs` |
| `OperatorCommands` | COMMAND and STOP | parser + executor + agent's mode | `commands` | `OperatorCommands_proofs` |
| `AgentMission` | the agent | tick + requests + mission + navigator + latch | `agent_safety`, `agent_liveness` | `AgentMission_proofs` |
| `Sight` | what is seen and what follows | camera thread + detector thread + decision + gate + health | `sight` | `Sight_proofs` |
| `Localization` | where the Rover is | GPS thread + heading + dead reckoning + health | `localization` | `Localization_proofs` |
| `Esp32Link` | the serial link | I/O thread + agent's thread + the ESP32 | `esp32_reconnect`, `esp32_liveness` | `Esp32Link_proofs` |

The `MC` modules give the constants their values for TLC. A property is stated once, in the module of
its component. In every `cfg` with `Spec` only safety is asked; the `cfg`s with `FairSpec` say which
fairness, and the section of the module why.

How the modules meet. `BackendSession` shows that a link is up only when authenticated and gets back;
`MissionReporting` takes that as its link, `LinkLost` and `LinkBack`. `EngineAdmission` starts and stops
a mission, of which `AgentMission` models every step, and `MissionReporting` only what is reported of it.
`OperatorCommands` keeps of the agent its mode and whether a route is loaded, and `Sight` takes mode, latch
and navigator as given, in any combination: what it shows of the motion holds whatever they do.
`AgentMission` takes motors that come and go as `Esp32Link` shows them.

## EngineAdmission

### State and actions

| Variable | In the code |
|---|---|
| `records` | `CommitmentStore._records`, which is also the file: `update` writes before it keeps |
| `newer` | the order of `updated_at`, by which a full store evicts |
| `held` | `BackendLink._held_envelopes` |
| `cont`, `seen` | where the coroutine handling an envelope is, and the `record.response` it carries |
| `mission` | `MissionManager._active`; its `owner` is a ghost, the code has only the task id |
| `restarts` | bound on `Restart` |
| `applied`, `acks`, `answers` | ghosts: what was admitted, acknowledged, answered |

| Action | In the code |
|---|---|
| `Deliver` | `_on_engine_command` from the arrival to the durable marks: re-ACK, refuse, hold or admit |
| `Terminate` | the terminating branch of `_apply_envelope`: stop, tombstone, ACK |
| `Acknowledge` | the ACK of every other command |
| `NoResponse`, `Respond`, `Answer` | `_respond_to_offer`: nothing to say; decide, start the mission, record; emit |
| `PopSuccessor` | the end of `_on_engine_command`: the held successor is received in turn |
| `AbandonMission`, `CompleteMission` | `stop_mission` and the end of the drop leg |
| `Restart` | the process dies anywhere and `CommitmentStore._load` reads the file |

A handler is cut into steps where a crash would leave something different on disk or on the wire.
Whether another handler may run at an `await self._emit(...)` is the constant `EmitYields`.
`requirements.txt` pins `python-socketio` 5.11.4, whose asynchronous `emit` puts the packet on an
unbounded queue and does not suspend, so `FALSE` is the deployed behaviour, and the one `admission_safety`
checks. `admission_liveness` takes `TRUE`, which allows more: settling and answering survive an emit that
suspends. The theorems on order and acknowledgement do not depend on it either. With `TRUE` a second OFFER or a
WITHDRAW of the same commitment can slip in behind an OFFER's ACK, and then the single answer and the
stopped mission are lost; the code relies on the client here, and nothing in it says so.

Abstractions: an outbox id is the envelope itself (the engine gives each its own); signature,
addressee and validity window are not part of the state, an invalid envelope changes nothing
(`ValidOutcomes` is kept for a held envelope, whose validity can pass while it waits); the
feasibility tests of `assess_offer` other than the mission in progress are the input
`FeasibleOutcomes` (in the repository as it stands `custody_sensing_available` is always false and
the agent accepts nothing; tests override it, and so do the runs); DEFER, which `assess_offer`
never gives, is left out.

### The contract

`OfferContract` is what an assignment engine may rely on, without envelopes, disk or crashes: a commitment
is decided once, for good (`Decide`); the engine is told that decision and nothing else, at most once
(`Tell`); only an accepted commitment is driven, by a Rover that was free; none is driven that is over
(`End`). `KeepsContract` says that `EngineAdmission` implements it, with the decision being the response on
record, `told` what left the Rover, `driven` the owner of the active mission and `over` the tombstone. It
contains the four invariants about answers and missions (`AtMostOneAnswer`, `AnswerIsRecorded`,
`DrivenIsAccepted`, `WithdrawnIsNotDriven`), which hold of the contract and are theorems here.

### Runs

| Run | Question | Result |
|---|---|---|
| `admission_safety` | order, durable acknowledgement, and the contract, with crashes, failing writes and emits, expiry, a full hold queue, a commitment offered twice and two for one task | hold |
| `admission_liveness` | does every envelope settle, is every offer answered, even if emits suspend | hold, under `FairSpec` |

Bounds. Two commitments suffice for one to interfere with another (the hold queue, the mission, the
store). Four sequence numbers give a gap of more than one, so that the hold queue (one slot) is full and
releases in chains. `admission_liveness` has a shorter outbox, since its handlers interleave: a gap of two, and two
commitments that can fill the hold queue against each other. An envelope at its fence floor is never admissible. One restart reaches every
pair of a crash point and a redelivery; the type, order and acknowledgement theorems hold for any
number. `MaxRecords` is 2, as many as there are commitments: with fewer, an evicted commitment whose
OFFER is redelivered is admitted and answered once more, as the 257th makes of the first in the code.

Fairness. `WF(Handle(e))`: a coroutine that is ready runs, the event loop starves nobody.
`SF(Deliver(e))`: the engine redelivers an envelope until it is acknowledged, and the handler
cannot be kept out for ever. The process itself is not fair: it may die, `MaxRestarts` times. In
`admission_liveness` the disk works and the envelopes do not expire, since an engine that lets an
envelope expire gives it up. `EveryEnvelopeSettles` therefore says that the Rover's own bookkeeping
(marks, fence, hold queue) never wedges a well-formed outbox.

`OfferIsAnswered` begins with an OFFER that is not admitted yet, so that the gap before it, the hold queue that drops
it, the restart that forgets it and the duplicates all come in between. One way out remains, `AnswerDied`: a
process that dies between the durable marks and the emit of the answer, since a redelivery is then only
acknowledged.

### Proofs

`EngineAdmission_proofs.tla`, for every outbox, any number of commitments, envelopes and restarts:

* `TypeCorrect`: no assumption beyond the constants' types.
* `AppliedOnceInOrderHolds`: from `SoundStore` (all commitments fit in the store, start-up reads
  what was written). The property is not inductive: nothing in it ties the history to the marks
  the next admission is checked against. `OrderInv` adds that the marks *measure* the history
  (its length is the next sequence, its last fence is the fence mark). `AdmitOrKeep` reduces the
  steps to admission and everything else.
* `AckedIsPersistedHolds`: from `SoundStore`; `AcksInv` adds that whoever may acknowledge (a
  handler under way, a redelivery of an acknowledged id) finds the envelope within the marks,
  and `MarksRise` that the marks never go back.
* `AtMostOneAnswerHolds`, `AnswerIsRecordedHolds`: from `SoundStore` and `OneAtATime`;
  `AnswerInv` adds that at most one handler is under way and that the response it carries is
  the one on record, so what it finds to be unanswered is unanswered.
* `DrivenIsAcceptedHolds`: same assumptions, on top of `AnswerInv`.
* `WithdrawnIsNotDrivenHolds`: moreover `OneTaskPerCommitment`. `WithdrawnInv` adds that
  the mission is for the task on its commitment's record, which is what a WITHDRAW compares.
  Without that assumption a second OFFER with another task overwrites the recorded task and the
  WITHDRAW no longer recognises the mission.
* `KeepsContractHolds`: the refinement, from all three assumptions and the invariants above. Most steps
  change no decision, answer or tombstone (`SameVerdict`) and at most end the mission
  (`QuietKeepsContract`): they are `Leave` or a stutter. `Respond`, `Terminate` and `Answer` have a lemma
  each for the step of the contract they are.

`SoundStore` cannot be dropped: an evicted record takes its marks and its answer with it.

### Not modelled here

The wire format, signatures and canonical strings of `engine.py`; the order of the feasibility tests
in `assess_offer`; a disk that loses an acknowledged write at a power cut (`os.replace` without
syncing the directory); OFFERs whose payload does not parse.

## MissionReporting and CompletionEvidence

### State and actions

| Variable | In the code |
|---|---|
| `records`, `order` | `CommitmentStore`: the fields reporting reads and writes; the held ones in the order of `updated_at` |
| `mission` | `ActiveMission`: status, `custody_acquired_at`, `custody_released_at`; its `owner` stands for the task id |
| `gps` | the time, where the Rover is, and the last measured fix |
| `loop` | where `_publish_loop` is, whether the link is up, `_last_position_sent`, the record a custody step works on |
| `tracks` | `_tracks` and `_granted_at_ms` |
| `backend` | ghost: the lease, fixes, custody events and claims that left, and the writes that failed after |
| `faults` | bound on lost links, restarts and failed writes |

| Action | In the code |
|---|---|
| `Heartbeat`, `Telemetry`, `Custody`, `Complete` | the four steps of one turn of the publish loop, with what they record; `Custody` in two, one for each handover |
| `Accept`, `Command`, `Terminate` | what admission leaves behind of an accepted OFFER, of any other command and of an ending one |
| `Abandon`, `RecordCustody` | `stop_mission`; `record_custody` and the mission's end |
| `Tick` | time, movement and a new fix, right, stray or none |
| `LinkLost`, `LinkBack`, `Restart` | the session, and a process that comes back with the store and nothing else |

`Sufficient` is `assess_completion`: enough fixes, arrival, rate, gaps, corridor and plausible speed, on
whole numbers along a line instead of metres on a sphere. The geometry of a real path is abstracted; what
each condition compares with what, and the times it includes, is as in the code.

### Runs

`reporting` checks that a heartbeat never renews the lease of a commitment the Rover has given up
(`LeaseIsDriven`), that each handover is reported once and in order unless recording it failed
(`HandoverReportedOnce`), that a completion is claimed for a delivery whose handovers were both
reported, once, on a sufficient track every fix of which was sent since the grant (`ClaimIsProven`), and
that handover and outcome are said in the end (`NothingStaysUnsaid`). All hold.

`reporting_evidence` asks for more, what `evidence.py:7` says: that the *fixes actually sent* since the
grant, all of them and not only those on the track, are sufficient (`ClaimMeetsEvidenceBar`). TLC finds it
violated: see "Disagreements met".

Bounds. Two commitments, so that one can be accepted while the first, stopped by the operator, is still on
record: the store then holds two, and `held()` is whichever was updated last. One fault anywhere. Two
instants and two places: a claim needs two fixes, so a delivery can just be completed; with so little time
the rate and gap conditions do not bite, arrival, corridor (a stray fix) and speed do. `reporting_evidence`
has an instant more, for the fix that is put on the wrong track, and no faults. The run takes close to
two minutes. The Rover does stop being able to do anything (`CHECK_DEADLOCK FALSE`): when time is used up,
both commitments are over and the process is gone.

Fairness. `WF(Publish)`: the loop's steps run. `WF(LinkBack)`: what `BackendSession` shows as `GetsBack`.

### Proofs

`LeaseIsDrivenHolds`, for every number of commitments and faults. A heartbeat names `held()`, and that is
the last of `order`: the invariant is that what is listed is held, and listed once, so an update that ends a
commitment takes it off the list. The lemmas on `RemoveAt` (`RemoveAtProperties`, `WithoutProperties`) carry
it through `Touched`.

`HandoverReportedOnceHolds` and `ClaimIsProvenHolds` rest on a second invariant, `Told`. `Truthful` compares
what left with what is on record: a handover was told as often as it is on record, plus at most as often as
a write failed after it was told. `InStep` says that the loop only gets to the release after it has
looked at the take-over, of the same commitment and on a link that is up. `OnTrack` says that the track of the
commitment that is driven holds fixes that were sent since its grant, which is why a completion is judged on
nothing else (that it may be judged on fewer is what `reporting_evidence` shows).

## BackendSession

### State and actions

| Variable | In the code |
|---|---|
| `link` | `BackendLink`: where `_run` waits, `_status`, `_authenticated`, `_auth_failed`, the credential offered, `_attempt`, `_disconnected_at` as `down`, `_loss_acted` |
| `env`, `disk` | the configured token and pairing code; the token file |
| `mode` | the agent's mode, which the loss policy changes |
| `socket` | the client: open, closing, AUTH on its way out, events on their way in |
| `backend` | (external) up, the codes and tokens it takes, whether it authenticated this socket |
| `hist` | ghost: tokens discarded, tokens refused |

| Action | In the code |
|---|---|
| `Start`, `Stop` | `start`, `stop` |
| `Opens`, `ConnectReturns`, `ConnectRaises` | `_connect_once`, with the connect handler and `_send_auth` |
| `Authenticated`, `AuthFails` | `_await_authentication`, `_handle_auth_failure`; a time-out may beat an answer |
| `PublishEnds`, `Wake`, `Pause` | the end of the publish loop; `_sleep_while_running` with the back-off; `_apply_loss_policy` |
| `OnAuthSuccess`, `OnAuthFailed`, `OnDisconnect` | the handlers, one event at a time, in their order |
| `Answer`, `Break`, `GoesDown`, `ComesBack`, `Expire`, `Revoke` | backend and network |
| `Restart`, `Operate`, `GraceElapses` | the process, perhaps with a new code; whoever else sets the mode; the clock |

A back-off is either shorter or longer than the grace period (`OutlastsGrace`), which is all the loss
policy tells apart. A token is the number of the code it was issued for.

### Run

`session`: the link counts as up only on a socket the backend has authenticated, although answers,
time-outs and disconnects of the previous one may still be handled (`UpIsAuthenticated`). It gets back to
streaming as long as the backend would take a credential the Rover still has (`GetsBack`), and a mission that
drives is paused when the link stays lost, in whatever way connecting fails (`LostLinkPauses`).

Bounds. Two codes, with and without a configured token: the stored token and the code in the environment can
differ. Two faults of any kind, a back-off that grows twice. `LossPolicy` is "pause", the default.
`LoopMayFail` is FALSE: if the publish loop itself raises, `_run` leaves the socket open, and each
`sio.connect` that follows refuses because the client is still connected, until the server closes it;
`GetsBack` then depends on the server.

Fairness. `WF` on the steps of `_run`, of the handlers and of the clock; `SF` on `ConnectReturns`, since
the handler sets the event that `sio.connect` waits for before any refusal can travel back and forth, and on
`Wake`, since a sleep ends whatever the mode does meanwhile. The backend answers and comes back.

### Proofs

`TypeCorrect`, and `UpIsAuthenticatedHolds` for any number of codes, faults and attempts. The invariant
`Sound` adds: a link that is up was told so; on a socket that works an answer under way, or one handled,
comes from this socket's backend; and a connect whose socket is not open yet has heard nothing, so no answer
of an earlier socket is left to be taken for one of the next.

## OperatorCommands

### State and actions

| Variable | In the code |
|---|---|
| `issued`, `clock` | when the backend issued each message, and the time |
| `history` | `CommandExecutor._history`, the oldest outcome first |
| `agent` | mode, whether a route is loaded, whether an origin was recorded, whether an error is |
| `restarts` | bound on restarts |
| `done`, `ack` | ghosts: what ran in this life and with what result; what the last message acknowledged |

| Action | In the code |
|---|---|
| `OnCommand` | `_on_command`: `parse_command`, `execute`, the ACK |
| `OnStop` | `_on_stop_event`: `parse_stop_event`, `execute` |
| `OtherMode` | what else changes the mode: a mission, its end, a failed tick |
| `Issue`, `Tick`, `Restart` | the backend, time, the process |

A payload is a record of the fields the parsers read; a field may be absent, blank or unreadable, and the
messages of `MCOperatorCommands` have one of each fault. Names are compared, never spelt. The handlers run to
their end: the ACK is their only await and comes last. `TASK_ASSIGN` is received, and starts nothing.

### Run

`commands`: a COMMAND whose time can be read is carried out once in a life of the process
(`NotRunTwice`), because by the time its outcome is forgotten by age it is too old to be accepted, which
`BoundsAssumption` requires of the settings (120 s and 900 s) and nothing in the code does; only as many
others as the memory holds can make it run again. An ACK is evidence of an effect (`AckIsEvidence`).

Bounds. Seven messages, three with a time that can be read or not, an age limit of 1, a memory of 2
outcomes for 2 units of time, 3 units of time in all: outcomes are dropped by age and by number, and a
message outlives its outcome.

### Proofs

`TypeCorrect` (with it: of a named command one outcome is remembered, in the order of time), and
`AckIsEvidenceHolds`, for all messages and bounds. The ACK of a duplicate repeats what is in the memory, so
the invariant says that the memory holds one outcome of an identity and that it is the one of its last run
in this process. `RemoveAt` and `SubSeq` keep that, which is what most lemmas show.

`NotRunTwiceHolds`, from `OneCommandEach`: the id of a command whose time can be read is no other's, as in
the messages of the run. The invariant `Remembered` says where the outcome of a command that ran is: in the
memory, with no more others behind it than ran since; or dropped, because that many ran, or by age, and then
the command is too old to be accepted, the age limit being no longer than the memory lasts. The lemmas
around `Before` follow each outcome to its new place when one is added and others drop out
(`RememberOrder`).

## Sight

### State and actions

| Variable | In the code |
|---|---|
| `camera` | the shared frame of `_Picamera2Manager`, its age, the errors in a row, `capture_failed` |
| `worker` | the thread of `PerceptionPipeline`: where it is in a cycle, and the frame it holds |
| `result`, `prev` | the last `PerceptionResult`, and `_prev_largest_area` |
| `moving`, `report` | whether the last published intent moves the Rover; the last health report |
| `late` | ghost: frames found worth looking at since the newest went stale |

| Action | In the code |
|---|---|
| `Capture`, `CaptureError` | `_Picamera2Manager._loop` |
| `GetFrame`, `GetAge`, `Infer` | `_run_detection`, cut where it takes and leaves a lock |
| `CycleFails` | an exception of the detector, or any other, in the cycle |
| `Tick` | the agent's use of it: `latest`, `DecisionMaker.decide`, `SafetyGate.evaluate`, `HealthMonitor.evaluate` |
| `Pass` | time, for the ages |

`Decide` and `Evaluate` are the two decision functions, rule by rule and in their order; velocities are
exact fractions, pixels are integers. `Tick` takes any mode, latch and navigator.

### Run

`sight`: after the camera has stalled at most one frame is still taken for new (`OneLateResult`); an intent
that moves rests on a fresh result without a person in view, goes forward only with the corridor clear, turns
only away from what is largest there, and whatever is proposed to the gate comes out no faster and only where
it may move (`MotionIsWarranted`: a statement about the functions on every reachable result, in terms of
boxes and areas and not of the rules). A blind Rover stops and says so (`BlindStops`), and sight returns
after errors and stalls (`SightReturns`).

Bounds. A frame of 12 by 4 pixels seen at half its size, with four views: empty; a person at the edge with a
row that is no box; an obstacle in the corridor; one that reaches beyond the frame and one beside it. A frame
is stale after no time, a result after one unit; ages stop one past their limits, which is all that is
compared. Two capture errors count as ten. The run takes about two minutes.

Fairness. Time passes and the agent ticks, with health due again and again. Of the threads nothing is
assumed, except in `SightReturns`, which says in its premise (`GoesOn`) that camera and detector go on and
find a fresh frame again and again.

### Proofs

* `OneLateResultHolds`, for all views and limits: once a frame was found worth looking at with the newest
  stale, the newest is stale still and nothing is under inference, so the next cycle finds its frame too old.
* `TypeCorrect`, inductive as it stands. The part that is not about types, that what is taken for seen lies
  within the frame, is `BoxesInFrame`: `_rescale` cuts off what reaches beyond, and a frame of the detector's
  own size is left as it is, which is right only because the detector does so too (`ViewsAssumption`).
* `MotionIsWarrantedHolds`: a statement about the decision and the gate on any result that has its type.
  `DecisionHeeds` reads off the rules what a decision to move implies; `Halves` that the corridor of whole
  pixels, twice rounded, is the one of the property; `LargestExists` that there is a largest obstacle to turn
  away from; `GateLets` and `AbsProperties` that scaling both sides down keeps direction and ratio. The edges
  of the corridor are taken to be whole pixels as far from the middle (`CenterBand`); for a frame of an odd
  width the middle belongs to the left, which the property allows for (`Width % 2`).

## Localization

### State and actions

| Variable | In the code |
|---|---|
| `plugged` | (external) the receiver's port |
| `gps` | `GPSReader`: its handle on the port, status, last fix |
| `estimator` | `PositionEstimator`: heading, where it came from, the anchor |
| `reckoner` | `DeadReckoner`: pose, path travelled, time of the last step |
| `hist` | ghost: was a fix read since the port was opened; when the run began |

| Action | In the code |
|---|---|
| `OpenSerial`, `ReadOnce`, `ReadFails` | the steps of `GPSReader._loop` |
| `Tick` | position and dead reckoning in `RobotAgent.tick`: `update`, `integrate` |
| `BeginRun` | `_begin_run`, with `DeadReckoner.reset` |
| `Unplug`, `Plug`, `Pass` | port and time |

Places are points of a line that runs east, headings quarter turns, speeds whole numbers, so that every
comparison of the code has both outcomes without floating point. The Rover is one with dead reckoning
switched on (`deadreckon_enabled`).

### Run

`localization`: a position taken for measured is fresh and was read since the port was opened
(`MeasuredSinceOpened`); the reckoned pose lies within the path travelled and that within the time of this run
(`PoseOfThisRun`); a receiver that comes back is found, and one lost for good is reported and replaced by a
pose under its own name (`ReceiverIsFollowed`).

Bounds. Four units of time, fixes stale after one, steps of more than two left out; seven sentences: two kinds
with a fix, with and without course, slow and fast, void, and of another kind. Fairness: the reader opens the
port again and fails on a dead handle; the premises of `ReceiverIsFollowed` say what the receiver does.

### Proofs

`TypeCorrect`, `MeasuredSinceOpenedHolds` and `PoseOfThisRunHolds`, for all sentences, intents and limits. The second needs
that a status of FIX implies a handle and a fix since it was opened; the third, that the path is no longer
than the time from the beginning of the run to the last step, which `reset` must start anew: a clock kept
from an earlier run would make the first step of the next as long as the pause between them.

## Esp32Link

### State and actions

| Variable | In the code |
|---|---|
| `link` | what `Esp32Link._lock` guards: status, connection, telemetry, reboot latch, counter, `_pending`, PING, motion slot |
| `io` | the I/O thread: where it is in its loop, the lines it has read, the frames it has built |
| `toEsp`, `toPi` | the wire, in both directions |
| `ctl` | the ESP32 of `PROTOCOL.md`: boot, uptime, `last_seq` (external) |
| `faults` | bound on lost lines, failed calls, silences and late answers together |
| `hist` | ghost: the connection, the boot heard last, what answered the PING, the newest command not yet sent |

An action is one critical section of the lock or one call on the port, so the agent's thread, the
I/O thread and the ESP32 interleave wherever the code lets them.

| Action | In the code |
|---|---|
| `Open`, `OpenFails`, `Lost` | `_open`, `_lost`, with `_reset_connection` |
| `Read`, `HandleLine`, `Tick` | `poll_once`: the read, `_handle_line` with every handler it calls, `_expire_pending` and `_refresh_status` |
| `Transmit`, `Write` | `_transmit`: under the lock, build the PING and the motion command that are due; outside it, write them |
| `Shutdown`, `Close`, `ExitClosed` | `_shutdown_port`: the decision on a final STOP, its writing, a thread that ends with the port closed |
| `Start`, `Stop`, `Joined` | `start`, `stop` up to and after the join |
| `Submit`, `ReadStatus`, `AcknowledgeReboot` | `submit`, `status`, `acknowledge_reboot`, on the agent's thread |
| `TelemetryAges`, `SlotAges`, `PingFallsDue` | what a clock comparison in the code finds later |
| `GiveUpLost` | the part of `Tick` that fairness is asked of: a lost command expires |
| `Telemeter`, `Diagnose`, `Receive`, `RebootEsp` | the ESP32: telemetry, the protocol version, one answer per command by the rule of section 8, a reboot |
| `LoseFrame`, `LoseLine` | noise |

Assumptions, each about timing the code relies on:

* `Open` waits for `toEsp` to be empty: the reconnect back-off of a second or more outlasts a frame on
  its way (well below 100 ms at the link's speed).
* `AcknowledgeReboot` finds nothing under way: the operator is slower than the wire.
* READY is not lost while the port is open, and carries `uptime_ms` (`PROTOCOL.md`). A reboot whose
  READY is lost can go unnoticed; the hazard is listed.
* Bytes that arrive while the port is closed are gone when it opens.

### Runs

| Run | Question | Result |
|---|---|---|
| `esp32_reconnect` | replay, overtaking, numbering and the proof of the link, with reconnects, a reboot into another protocol, faults and commands in any order | hold |
| `esp32_liveness` | does an open link recover; does `stop` end | hold, under `FairSpec`, with motion disabled |

What they show. Nothing of one connection goes out on the next, even when the port is lost between
building a frame and writing it (`NothingReplayed`). The link never carries motion to a boot of the
ESP32 other than the one that answered its PING (`ProvenByFreshPing`). The two counters never drift
so that a motion command would be dropped as a duplicate, the wrap included (`MotionIsNewToEsp`). A
STOP is never overtaken (`NewestOnce`).

`esp32_liveness` has motion disabled, so that only PINGs time out. With it enabled, as many unanswered
motion commands in a row as `max_consecutive_ack_timeouts` leave the link DEGRADED until the next connection
or acknowledged reboot: see "Disagreements met".

Bounds. `SeqMax` is 6 for 65535: with two time-outs and one pending command the smallest ring of the kind
the theorem below is about, and small enough for the numbers to wrap. One or two pending commands reach the limit; two time-outs
reach DEGRADED. Two connections and two boots give every pair of before and after. One or two faults
meet every step. A coarse uptime of 0 and 1 is enough for a roll-back.

Fairness. `WF` of the I/O thread's steps: the thread runs; a read has a time-out, and a write of a short
frame does not wait, since the port is opened without flow control. `WF(PingFallsDue)`, `SF(GiveUpLost)`: clocks advance. `SF` of `Telemeter` and `Receive`: an
ESP32 that is up sends telemetry every 200 ms and answers what it receives. Strong, because other
traffic can briefly fill the small wire of the model. Faults are bounded, so they end.

### Proofs

`Esp32Link_proofs.tla`, for every bound, configuration and set of boots with a wrong protocol:

* `NothingReplayedHolds`. The property speaks of frames already built; nothing in it says where they
  come from. `IInv` adds `SlotIsNewest`, that what waits in the slot of an open link was submitted on
  this connection, and that frames exist only between building and writing. The first is
  where `_reset_connection` is needed: `Open` begins a connection with the slot empty, and every handler
  of a line keeps the slot or empties it (`HandledKeepsSlot`).
* `NewestOnceHolds`, from the same invariant: what is in the slot is the newest command not yet sent,
  and building a frame takes it.

* `TypeCorrect`: the pending commands have numbers of their own and stay within their limit, whatever answers
  come in what order.
* `ProvenByFreshPingHolds`, from these types and an invariant over everything under way: each frame and line
  belongs to the connection that is open, the lines come from boots no older than the one heard and in their
  order, and whatever a line reports of a boot, a READY of that boot was heard before it or is still before
  it on the way.

* `MotionIsNewToEspHolds`, assuming `WideRing`, the only theorem here that depends on sizes:
  * `MaxTimeouts + MaxPending <= SeqMax \div 2`. What may be unanswered before the link is degraded fits in the
    half of the ring that PROTOCOL.md counts as ahead: 3 + 8 against 32767 with the defaults of
    `link.py:101`, 108 and `protocol.py:37`. `Esp32Config` does not compare them. With `SeqMax` 3, two
    time-outs and one pending command TLC finds the property violated.
  * `MaxFaults + MaxBoots < SeqMax`. Before a connection is proven every fault can cost one more PING, and
    the link goes on asking while it is DEGRADED; the proof tells an answer of the last PING from one of
    an earlier PING by its number, so no number may come round again. This bounds the faults of a run; it
    is sufficient, and nothing here shows it to be necessary. The code has no such limit, but it would
    take 65535 unanswered PINGs on one unproven connection.

  The property looks at one frame that arrives. Its invariant `Numbered` speaks of everything under way:
  * `Lined`: the numbers that arrive before a motion command rise from the last one the ESP32 accepted, each
    within half a ring. This alone gives the property, and is not inductive: a new frame is in
    line only if the ESP32 is not far behind.
  * `InStep`, while the connection is proven by the boot the ESP32 is in: seen from the last number
    accepted, and from each answer on its way, the commands sent later are the last entries of
    what is pending and those given up, and the latter are counted by the time-outs (`Window`). The
    answers on their way come in the order of their numbers, so that an answer may reset that count, as `_on_ack`
    and `_on_error` do: nothing sent after it has been given up.
  * `Pinging`, from the opening of the port until the connection is proven: only PINGs and their
    answers are under way, only the last one is waited for, and the numbers sent are as many as the faults and boots that
    cost them. It begins with what `_reset_connection` forgets, and ends, when the answer comes, in `InStep`.
  * `Settled`: what `_on_telemetry`, `_reboot` and `_update_status` leave behind, without which
    `_transmit` could send on a link whose numbers are not known.

### Not modelled here

The coding of frames, the CRC and the line assembler of `protocol.py`; the RESYNC newline on
opening; the reader's limits; a `stop` whose join times out, leaving the thread running beside a new
one; an EVENT without `uptime_ms`.

## AgentMission

### State and actions

| Variable | In the code |
|---|---|
| `rover` | the agent's mode, gated intent, `_mission_route` (`kept`) and `_mission_origin`; the last measured position; `MissionManager._active`; the planner's route, index and counts; the latch of `SafetyGate` |
| `motor` | what `Esp32Link.status()` says: `up`, a latched reboot, one the agent has not handled |
| `place` | where the Rover is (external) |
| `hist` | ghosts: where the parcel was acquired, whether somebody asked for motion since the last emergency stop or reboot, whether a local route replaced an active mission's |

The tick and every request run on one event loop without an `await` inside, so each is one action.
What the code does in sequence is composed of operators on the agent's record (`Supervised`,
`Navigated`, `Advance`, `Decided`), and `TickFails` may stop after any of them.

| Action | In the code |
|---|---|
| `Tick` | `RobotAgent.tick`: position, link, navigator, mission manager, decision, safety gate |
| `TickFails` | a tick that raises: `_loop` leaves ERROR |
| `Accept`, `Assign` | `assess_offer` and `assign_mission` for an OFFER; `assign_mission` without custody |
| `StartLocal`, `Stop`, `Pause`, `Resume`, `Return` | `start_mission`, `stop_mission`, `pause_mission`, `resume_mission`, `return_to_base` |
| `EngageStop`, `ClearStop`, `ResumeIdle` | `emergency_stop`, `clear_emergency_stop`, `resume_idle` |
| `Acquire`, `Release` | `record_custody` |
| `Drive`, `Between` | the Rover moves while the intent does: to its waypoint, or to a place that is none |
| `MotorLost`, `MotorBack`, `MotorReboots` | the link as `Esp32Link` models it |

Abstractions. A position is a place; being within the arrival radius of a waypoint is being at it, and
`Far` lists the pairs more than `off_route_m` apart. The view is clear, unusable (a person and a failed
camera stop the Rover in the same way) or an obstacle large enough to stop for; steering, speed, intent
age and the range sensor, which is not required by default, are left out. The counts of off-route and
blocked ticks stop at their limits. A handover is recorded by whatever senses it: `custody_sensing_available`
is FALSE in the repository and nothing calls `record_custody` outside the tests, so `CustodySensing` is a
constant, and the runs look at the Rover the custody code is written for.

### Runs

| Run | Question | Result |
|---|---|---|
| `agent_safety` | all safety properties, with two deliveries, a local route and every request at any time | hold |
| `agent_liveness` | is a mission that is not halted delivered or aborted | holds, under `FairSpec` |

What they show. The published intent never outlives the mode it was decided for, nor the request (`NeverDrivesHalted`).
The navigator's route, the mission's leg and the route kept for a resumption are three copies that stop,
return, leg change, pause and finish keep in step, except that
`start_mission` does not, which `hist.replaced` records: an active mission's leg is what is navigated
(`NavigatesItsLeg`, which at AT_DROP allows the cleared route and the drop path alike), and it is followed forward
only (`LegNeverRestarts`). The latter names the one step that goes back: at AT_DROP the route is cleared, and
a RESUME finds none, loads the drop path from its first waypoint (`agent.py:584-589`) and the Rover drives it
again while it should hold (see "Disagreements met"). With GPS the parcel changes hands at the
pickup, and the legs follow custody (`AcquiredAtPickup`, `DeliveredWithParcel`).

The emergency stop and a reboot of the ESP32 take back what was asked (`hist.asked`): nothing moves until
somebody asks for motion again, and clearing the latch is not asking. The runs leave out the view of an
obstacle, whose count of blocked ticks is never reset (see below); a blocked view stops the Rover as an unusable
one does. The theorems include it.

Bounds. One delivery after another, and a local route, reach every stale route, index and mission; the
pickup leg and the drop leg have two points each, enough for an index to be wrong. The limits of the two
counts are 2, so that one tick is not enough. Dead reckoning is off, as by default: with it a pickup can be
reached on an inferred position, and then nothing can be acquired (listed as a hazard).

Fairness. `WF(Tick)`: the loop runs. `SF(Sees)`: again and again a tick has a fix, a usable view and, in
AUTO, ready motors; that is an assumption about the surroundings, and so is `SF(Drive)` with the third
conjunct, that a Rover which is driven gets to its waypoint and is ticked there. `SF(MotorBack)` is what
`Esp32Link` shows of `Recovers`. `WF(Acquire)`, `WF(Release)`, `SF(Resume)` when paused: people do their
part. A Rover in ERROR, STOPPED, IDLE or under the latch waits for an operator and is excused.

### Proofs

`AgentMission_proofs.tla`, for all tasks, paths, scenes and limits, with and without dead reckoning, from
`PlacesAssumption` alone: `TypeCorrect`, `NeverDrivesHaltedHolds`, `NavigatesItsLegHolds`,
`DeliveredWithParcelHolds`. What a step does is a composition of operators on one record, so the
invariant is one of records: `Sound` and `OnLeg` hold of whatever each operator returns when they hold
of what it is given (`NavigatedSound`, `AdvanceSound`, `ResumeSound`, ...), and `TickStatesSound` strings
the operators of a tick together; a tick that fails anywhere is covered by the same lemma. The
strengthening is small: the index stays within the route, which the place the Rover drives to needs, and
an active mission has a task, without which its leg has no path.

`AcquiredAtPickupHolds` assumes that no position is inferred (`Inferred = {}`: `deadreckon_enabled` is off by
default); with dead reckoning the property does not hold, which is listed as a hazard. Its invariant: a
mission at its pickup has its index at the last point of the pickup path, and the Rover is there and not
moving. `LegNeverRestartsHolds` follows the stage, the route and the index of each step through the same operators;
`OnLeg` is what confines the reload to AT_DROP, the only stage of an active mission without a route.
`MissionEnds` stays with TLC.

### Not modelled here

Start-up and shutdown of the agent (a restart forgets the mission: `Init`); steering, intent age and range
sensor, which are in `Sight`; the reset of the dead reckoner, which is in `Localization`; geometry.

## What is proved and what is only model-checked

The theorems hold for every value of the constants, from the named assumptions of the modules and, where a
statement names more (`SoundStore`, `OneAtATime`, `OneTaskPerCommitment`, `OneCommandEach`, `Inferred = {}`, `WideRing`),
from these. Model-checked on the
instances above only is liveness:

* everything that must happen in the end (`EveryEnvelopeSettles`, `OfferIsAnswered`, `Recovers`, `StopEnds`, `MissionEnds`,
  `GetsBack`, `LostLinkPauses`, `NothingStaysUnsaid`, `BlindStops`, `SightReturns`, `ReceiverIsFollowed`):
  fairness and `ENABLED` are outside what the prover handles.

Outside the hypotheses a theorem names nothing is claimed: of `MotionIsNewToEsp`, for instance, on a ring
narrower than `WideRing`.

Every invariant and action property that a passing run checks is a theorem. `MissionReporting` has no
type invariant among its runs; `Typed` and `IInv` are in its proofs.

## Disagreements met

Where the code does something else than a text beside it says. For the first a run shows it.

* A measured fix that left goes on the track of `held()`, the commitment updated last (`backend_link.py:1049`),
  not of the one whose mission is driven. After an operator's STOP and a second OFFER any command for the
  first commitment makes it the last updated, and fixes sent from then on are missing from the evidence of the
  second; `evidence.py:7`: "the fixes it actually sent" (`reporting_evidence`).

* A process that dies after the durable marks of a WITHDRAW (`backend_link.py:1264`) and before its tombstone
  (1316) finds the outbox id among the acknowledged ones when it is redelivered and only acknowledges it again
  (1235-1238). The integration report says that "`WITHDRAW`, `RECALL` and `ABORT_MISSION` stop that mission
  (only if it is the one being driven), tombstone the commitment, and ack".
* The store may hold two accepted commitments, after an operator's STOP and a second OFFER;
  `commitment_store.py:110` says that "the Rover holds at most one".
* A stored token is discarded after any failed authentication, a time-out included; `backend_link.py:865` speaks
  of "a refused *token*".
* A publish loop that raises leaves the socket open, and the client refuses to connect again until the server
  closes it.
* `max_consecutive_ack_timeouts` unanswered motion commands leave the ESP32 link DEGRADED: the count is reset
  only by an answer (`link.py:515`, 540) or a new connection (420), and a degraded link sends no motion (647),
  nor a PING while it counts as bidirectional (758). `test_esp32_link.py:295`,
  "test_ack_timeouts_degrade_and_recover", tries it with PINGs only.
* `report_blocked` only ever adds to `_blocked_count` (`route_planner.py:67`); three ticks of an obstacle end
  the leg. `test_agent.py:408-410`: "once the fault clears and the robot genuinely knows the path is clear, it
  may drive again."
* RESUME, RETURN and a new route set AUTO under the latch and take effect when it is cleared, although "starting
  a mission stays a separate, explicit act" (`agent.py:656-659`).
* A RESUME at AT_DROP, after a PAUSE or a lost motor link, finds the route cleared (`manager.py:314`), loads the
  drop path from its first waypoint (`agent.py:588-589`), and the next tick drives it, the status still AT_DROP;
  `mission.py:111-116`: the Rover "holds at `AT_DROP` until it is genuinely released". `LegNeverRestarts` excepts
  this step (`DropReloaded`) and shows that it is the only one of its kind.
* A RESUME from ERROR is refused since it "would discard the fault that caused it" (`commands.py:247`); a PAUSE,
  which ERROR does not refuse, and then a RESUME discard it all the same (`agent.py:590`).

## Further hazards without a property

Beside those in `PROJECT.json`:

* `commitment_store.py:155`: no fsync of the directory, so a power cut may bring back the store from before
  the last update.
* `backend_link.py:1142`: an older RESUME or RETURN, delivered late but not yet stale, overrides a newer STOP;
  a RETURN redelivered after a restart runs again.
* `link.py:297`: stopping while the ESP32 has just rebooted leaves without a final STOP; 470: a reboot whose READY
  is lost may pass unnoticed.
* `agent.py:401`: a local start during a mission replaces its route but not the mission (`hist.replaced`); 536:
  `_mission_origin` may be an earlier run's.
* `route_planner.py:113`: a waypoint farther than `off_route_m` for some ticks stops the Rover for good.
* `manager.py:358`: a pickup reached on a dead-reckoned position can never be acquired.
* `gps.py:151`: a GGA carries speed and course of an earlier RMC; `position.py:192`: a heading is kept while the
  Rover stands still; `agent.py:755`: without a fix the position jumps to the reckoner's origin; 828: the
  reckoner takes this tick's intent for the time since the last.
* `camera.py:261`: a capture thread that hangs outlives its release.

## Not modelled

* `perception/experimental`, the tracker and the temporal filter: the agent does not load them.
* What the detector recognises, JPEG encoding, the MJPEG server, logging, configuration and commissioning:
  no state that two parts share, or none at all.
* Motor driver, encoders, ultrasonic, infrared and battery classes: the ESP32 owns the motors, and the agent
  publishes no range reading.
* The directions client: an HTTP request that the agent does not make.
* The coding of messages and frames (`communication/protocol.py`, `engine.py`, `esp32/protocol.py`): what a
  parser accepts or drops is an input or a guard of the modules, its text is not modelled.
* Shutting down the agent, the camera and the receiver's thread.
