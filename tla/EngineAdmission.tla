--------------------------- MODULE EngineAdmission ---------------------------
(***************************************************************************)
(* The Rover's side of the Assignment Engine channel: the admission of     *)
(* signed envelopes (OFFER, WITHDRAW, ...) that the backend delivers at    *)
(* least once and in any order, the per-commitment record persisted before *)
(* anything is acted on, the single answer to an OFFER, and the mission an *)
(* accepted OFFER starts (BackendLink._on_engine_command and the handlers  *)
(* it calls, with CommitmentStore and RobotAgent.assess_offer).            *)
(*                                                                         *)
(* One handler runs per delivered envelope.  It is cut into steps at the   *)
(* points where a crash leaves different things on disk or on the wire;    *)
(* two handlers interleave only where the code awaits an emit, and only if *)
(* the Socket.IO client suspends there (EmitYields).                       *)
(***************************************************************************)
EXTENDS Integers, Sequences, FiniteSets

CONSTANTS
  Commitments,     \* commitment ids
  Tasks,           \* RobotX task ids
  None,            \* Python's None
  Envelopes,       \* the engine's outbox: what may be delivered, any number of times
  MaxRecords,      \* CommitmentStore.MAX_RECORDS
  MaxOutboxIds,    \* CommitmentStore.MAX_OUTBOX_IDS
  MaxHeld,         \* BackendLink._MAX_HELD_ENVELOPES
  MaxRestarts,     \* bound: how often the process dies and comes back
  EmitYields,      \* does awaiting sio.emit let another handler run?
  EmitOutcomes,    \* what an emit may return: TRUE left the process, FALSE did not
  WriteOutcomes,   \* what writing the store may return
  LoadOutcomes,    \* whether the store is readable at start-up
  ValidOutcomes,   \* whether a held envelope is still valid when it is released
  ExpiryOutcomes,  \* whether offerExpiry has passed when the OFFER is assessed
  FeasibleOutcomes \* whether everything else assess_offer wants is there

Terminating == {"WITHDRAW", "RECALL", "ABORT_MISSION"}
Commands == {"OFFER", "NO_EFFECT"} \cup Terminating

\* A commitment the store knows nothing of: the None's of CommitmentRecord as -1.
Fresh == [highest_fence |-> -1, highest_sequence |-> -1, task_id |-> None,
          response |-> None, acked_outbox_ids |-> {}, tombstoned |-> FALSE]

ASSUME EnvelopesAssumption ==
  /\ Envelopes \subseteq [outbox_id: Nat, command: Commands, commitment_id: Commitments,
                          fence: Nat, fence_floor: Nat \cup {-1}, sequence: Nat,
                          task_id: Tasks \cup {None}]
  /\ None \notin Tasks \cup Commitments \cup {"ACCEPT", "REJECT"}

ASSUME OutcomesAssumption ==
  /\ {EmitYields} \cup EmitOutcomes \cup WriteOutcomes \cup LoadOutcomes \subseteq BOOLEAN
  /\ ValidOutcomes \cup ExpiryOutcomes \cup FeasibleOutcomes \subseteq BOOLEAN

ASSUME BoundsAssumption ==
  /\ MaxRecords \in Nat \ {0}
  /\ {MaxOutboxIds, MaxHeld, MaxRestarts} \subseteq Nat

VARIABLES
  records,   \* the store: on disk and in memory alike, since update writes first
  newer,     \* updated_at as an order: the commitments updated after this one
  held,      \* _held_envelopes: at most one envelope per commitment and sequence
  cont,      \* where the handler of each envelope is, "idle" when it has none
  seen,      \* the record.response a waiting OFFER handler took with it
  mission,   \* the ActiveMission and, as a ghost, the commitment it is for
  restarts,  \* how often the process restarted
  applied,   \* ghost: the envelopes admitted for each commitment, in order
  acks,      \* ghost: the envelopes whose COMMAND_ACK left the process
  answers    \* ghost: the OFFER_* responses that left, per commitment

store == <<records, newer>>
ghosts == <<applied, acks, answers>>
vars == <<records, newer, held, cont, seen, mission, restarts, applied, acks, answers>>

NoMission == [task_id |-> None, owner |-> None, status |-> "none"]
Verdicts == {"ACCEPT", "REJECT"}

Init ==
  /\ records = [c \in Commitments |-> Fresh]
  /\ newer = [c \in Commitments |-> {}]
  /\ held = {}
  /\ cont = [e \in Envelopes |-> "idle"]
  /\ seen = [e \in Envelopes |-> None]
  /\ mission = NoMission
  /\ restarts = 0
  /\ applied = [c \in Commitments |-> <<>>]
  /\ acks = {}
  /\ answers = [c \in Commitments |-> <<>>]

-----------------------------------------------------------------------------
(* CommitmentStore *)

Known == {c \in Commitments : records[c] # Fresh}

\* The record update drops to stay within MAX_RECORDS: the least recently updated.
Evicted(c) ==
  {d \in Known \ {c} : /\ Cardinality(Known \cup {c}) > MaxRecords
                       /\ Known \ {c, d} \subseteq newer[d]}

\* CommitmentStore.update: the whole record of c becomes r, unless the write fails.
Update(c, r) ==
  /\ records' = [d \in Commitments |->
                   IF d = c THEN r ELSE IF d \in Evicted(c) THEN Fresh ELSE records[d]]
  /\ newer' = [d \in Commitments |-> IF d = c THEN {} ELSE newer[d] \cup {c}]

\* acked_outbox_ids[-MAX_OUTBOX_IDS:]; a commitment is admitted one sequence at a time.
Newest(es, sequence) == {e \in es : e.sequence > sequence - MaxOutboxIds}

-----------------------------------------------------------------------------
(* Admission *)

\* Between two awaits a handler runs alone; at an await another may run if emit yields.
AtAwait == {"idle"} \cup (IF EmitYields THEN {"acked", "pop"} ELSE {})
Turn(e) == \A f \in Envelopes \ {e} : cont[f] \in AtAwait
LoopIsFree == \A f \in Envelopes : cont[f] \in AtAwait

check_fence(e) ==
  /\ e.fence > e.fence_floor
  /\ e.fence > records[e.commitment_id].highest_fence

Expected(c) == records[c].highest_sequence + 1

\* Known and not answered by a re-ACK: may still be admitted.
Open(e) == /\ e \notin records[e.commitment_id].acked_outbox_ids
           /\ ~records[e.commitment_id].tombstoned

SameSlot(e, f) == e.commitment_id = f.commitment_id /\ e.sequence = f.sequence

\* Mutant: the sequence mark does not advance.
MarkedWithoutSequence(e) ==
  [records[e.commitment_id] EXCEPT
     !.highest_fence = e.fence,
     !.task_id = IF e.command = "OFFER" THEN e.task_id ELSE @,
     !.acked_outbox_ids = Newest(@ \cup {e}, e.sequence)]

\* Mutant: the fence mark is the envelope's exclusive floor, not its fence.
MarkedWithFloor(e) ==
  [records[e.commitment_id] EXCEPT
     !.highest_fence = e.fence_floor - 1,
     !.highest_sequence = e.sequence,
     !.acked_outbox_ids = Newest(@ \cup {e}, e.sequence)]

\* Step 6: the marks, and that this outbox id is being acknowledged, before any effect.
Marked(e) ==
  [records[e.commitment_id] EXCEPT
     !.highest_fence = e.fence,
     !.highest_sequence = e.sequence,
     !.task_id = IF e.command = "OFFER" THEN e.task_id ELSE @,
     !.acked_outbox_ids = Newest(@ \cup {e}, e.sequence)]

ReAck(e) ==
  /\ e \in records[e.commitment_id].acked_outbox_ids
  /\ \E sent \in EmitOutcomes : acks' = IF sent THEN acks \cup {e} ELSE acks
  /\ UNCHANGED <<store, applied>>

\* Mutant: a refused envelope is acknowledged all the same.
NotAdmittedButAcked(e) ==
  /\ e \notin records[e.commitment_id].acked_outbox_ids
  /\ \/ records[e.commitment_id].tombstoned
     \/ ~check_fence(e)
     \/ e.sequence < Expected(e.commitment_id)
  /\ acks' = acks \cup {e}
  /\ UNCHANGED <<store, applied>>

NotAdmitted(e) ==
  /\ e \notin records[e.commitment_id].acked_outbox_ids
  /\ \/ records[e.commitment_id].tombstoned
     \/ ~check_fence(e)
     \/ e.sequence < Expected(e.commitment_id)
  /\ UNCHANGED <<store, applied, acks>>

\* _hold: a sequence gap.  hold is _held_envelopes as this handler finds it.
Hold(e, hold) ==
  /\ Open(e) /\ check_fence(e)
  /\ e.sequence > Expected(e.commitment_id)
  /\ held' = IF Cardinality(hold) >= MaxHeld THEN hold
             ELSE {f \in hold : ~SameSlot(e, f)} \cup {e}
  /\ UNCHANGED <<store, applied, acks>>

\* Mutant: an envelope across a gap is admitted, not held.
AdmitAcrossGap(e) ==
  /\ Open(e) /\ check_fence(e)
  /\ e.sequence >= Expected(e.commitment_id)
  /\ Update(e.commitment_id, Marked(e))
  /\ applied' = [applied EXCEPT ![e.commitment_id] = Append(@, e)]
  /\ UNCHANGED acks

Admit(e) ==
  /\ Open(e) /\ check_fence(e)
  /\ e.sequence = Expected(e.commitment_id)
  /\ Update(e.commitment_id, Marked(e))
  /\ applied' = [applied EXCEPT ![e.commitment_id] = Append(@, e)]
  /\ UNCHANGED acks

\* Admissible, but the marks could not be written: as if it had never come.
NotPersisted(e) ==
  /\ Open(e) /\ check_fence(e)
  /\ e.sequence = Expected(e.commitment_id)
  /\ UNCHANGED <<store, applied, acks>>

\* _on_engine_command up to the marks being durable, with the handlers and held
\* envelopes as its caller leaves them.
Receive(e, conts, hold) ==
  \/ ReAck(e) /\ cont' = conts /\ held' = hold
  \/ NotAdmitted(e) /\ cont' = conts /\ held' = hold
  \/ Hold(e, hold) /\ cont' = conts
  \/ /\ TRUE \in WriteOutcomes
     /\ conts[e] = "idle"
     /\ Admit(e) /\ cont' = [conts EXCEPT ![e] = "admitted"] /\ held' = hold
  \/ /\ FALSE \in WriteOutcomes
     /\ NotPersisted(e) /\ cont' = conts /\ held' = hold

\* The backend delivers e, for the first time or again.
Deliver(e) ==
  /\ LoopIsFree
  /\ Receive(e, cont, held)
  /\ UNCHANGED <<seen, mission, restarts, answers>>

-----------------------------------------------------------------------------
(* Effects *)

Active == mission.status = "active"
Abandoned(m) == IF m.status = "active" THEN [m EXCEPT !.status = "aborted"] ELSE m

\* Is the mission being driven the one this commitment's OFFER was for?
DrivesTaskOf(c) == /\ Active
                   /\ records[c].task_id # None
                   /\ mission.task_id = records[c].task_id

Tombstone(c, written) ==
  IF written THEN Update(c, [records[c] EXCEPT !.tombstoned = TRUE]) ELSE UNCHANGED store

\* WITHDRAW, RECALL, ABORT_MISSION: stop, tombstone, acknowledge.
Terminate(e) ==
  /\ cont[e] = "admitted" /\ e.command \in Terminating
  /\ Turn(e)
  /\ mission' = IF DrivesTaskOf(e.commitment_id) THEN Abandoned(mission) ELSE mission
  /\ \E written \in WriteOutcomes : Tombstone(e.commitment_id, written)
  /\ \E sent \in EmitOutcomes : acks' = IF sent THEN acks \cup {e} ELSE acks
  /\ cont' = [cont EXCEPT ![e] = "pop"]
  /\ UNCHANGED <<held, seen, restarts, applied, answers>>

\* Any other command: acknowledge.  An OFFER goes on with the record it was admitted with.
Acknowledge(e) ==
  /\ cont[e] = "admitted" /\ e.command \notin Terminating
  /\ Turn(e)
  /\ \E sent \in EmitOutcomes : acks' = IF sent THEN acks \cup {e} ELSE acks
  /\ cont' = [cont EXCEPT ![e] = IF e.command = "OFFER" THEN "acked" ELSE "pop"]
  /\ seen' = [seen EXCEPT ![e] = records[e.commitment_id].response]
  /\ UNCHANGED <<store, held, mission, restarts, applied, answers>>

\* assess_offer, then assign_mission, which refuses a task that already ended.
Accepts(e, feasible) ==
  /\ feasible
  /\ e.task_id # None
  /\ ~Active
  /\ mission.task_id # e.task_id

\* Mutant: the comparison with offerExpiry is the wrong way round.
NoResponseUnexpired(e) ==
  /\ cont[e] = "acked"
  /\ Turn(e)
  /\ seen[e] # None \/ FALSE \in ExpiryOutcomes
  /\ cont' = [cont EXCEPT ![e] = "pop"]
  /\ seen' = [seen EXCEPT ![e] = None]
  /\ UNCHANGED <<store, held, mission, restarts, ghosts>>

\* _respond_to_offer: nothing to say, since it was answered before or has expired.
NoResponse(e) ==
  /\ cont[e] = "acked"
  /\ Turn(e)
  /\ seen[e] # None \/ TRUE \in ExpiryOutcomes
  /\ cont' = [cont EXCEPT ![e] = "pop"]
  /\ seen' = [seen EXCEPT ![e] = None]
  /\ UNCHANGED <<store, held, mission, restarts, ghosts>>

\* Mutant: the mission goes on when the answer could not be recorded.
RespondAndDriveOn(e) ==
  /\ cont[e] = "acked"
  /\ Turn(e)
  /\ seen[e] = None /\ FALSE \in ExpiryOutcomes
  /\ \E feasible \in FeasibleOutcomes, written \in WriteOutcomes :
       LET c == e.commitment_id
           accepted == Accepts(e, feasible)
           verdict == IF accepted THEN "ACCEPT" ELSE "REJECT"
       IN /\ mission' = IF ~accepted THEN mission
                        ELSE [task_id |-> e.task_id, owner |-> c, status |-> "active"]
          /\ IF written THEN Update(c, [records[c] EXCEPT !.response = verdict])
             ELSE UNCHANGED store
          /\ cont' = [cont EXCEPT ![e] = IF written THEN "answering" ELSE "pop"]
  /\ seen' = [seen EXCEPT ![e] = None]
  /\ UNCHANGED <<held, restarts, ghosts>>

\* _respond_to_offer: decide, start the mission, record the answer; or, if it could not
\* be recorded, stop the mission and give none.
Respond(e) ==
  /\ cont[e] = "acked"
  /\ Turn(e)
  /\ seen[e] = None /\ FALSE \in ExpiryOutcomes
  /\ \E feasible \in FeasibleOutcomes, written \in WriteOutcomes :
       LET c == e.commitment_id
           accepted == Accepts(e, feasible)
           assigned == [task_id |-> e.task_id, owner |-> c, status |-> "active"]
           verdict == IF accepted THEN "ACCEPT" ELSE "REJECT"
       IN /\ mission' = IF ~accepted THEN mission
                        ELSE IF written THEN assigned ELSE Abandoned(assigned)
          /\ IF written THEN Update(c, [records[c] EXCEPT !.response = verdict])
             ELSE UNCHANGED store
          /\ cont' = [cont EXCEPT ![e] = IF written THEN "answering" ELSE "pop"]
  /\ seen' = [seen EXCEPT ![e] = None]
  /\ UNCHANGED <<held, restarts, ghosts>>

\* The recorded answer is emitted.
Answer(e) ==
  /\ cont[e] = "answering"
  /\ Turn(e)
  /\ \E sent \in EmitOutcomes :
       answers' = IF sent
                  THEN [answers EXCEPT ![e.commitment_id] =
                          Append(@, records[e.commitment_id].response)]
                  ELSE answers
  /\ cont' = [cont EXCEPT ![e] = "pop"]
  /\ UNCHANGED <<store, held, seen, mission, restarts, applied, acks>>

Successors(e) ==
  {f \in held : f.commitment_id = e.commitment_id /\ f.sequence = e.sequence + 1}

\* The end of the handler: the envelope held for the next sequence is received in turn,
\* from step 1 again, so it is dropped when its validity has passed.
PopSuccessor(e) ==
  /\ cont[e] = "pop"
  /\ Turn(e)
  /\ LET done == [cont EXCEPT ![e] = "idle"] IN
     \/ /\ Successors(e) = {}
        /\ cont' = done
        /\ UNCHANGED <<store, held, applied, acks>>
     \/ \E f \in Successors(e) :
          \/ TRUE \in ValidOutcomes /\ Receive(f, done, held \ {f})
          \/ /\ FALSE \in ValidOutcomes
             /\ cont' = done /\ held' = held \ {f}
             /\ UNCHANGED <<store, applied, acks>>
  /\ UNCHANGED <<seen, mission, restarts, answers>>

Handle(e) ==
  \/ Terminate(e) \/ Acknowledge(e) \/ NoResponse(e)
  \/ Respond(e) \/ Answer(e) \/ PopSuccessor(e)

-----------------------------------------------------------------------------
(* The rest of the Rover, and crashes *)

\* An operator STOP or RETURN ends the mission, and no commitment with it.
AbandonMission ==
  /\ LoopIsFree /\ Active
  /\ mission' = Abandoned(mission)
  /\ UNCHANGED <<store, held, cont, seen, restarts, ghosts>>

\* The agent's loop carried the mission to its end.
CompleteMission ==
  /\ LoopIsFree /\ Active
  /\ mission' = [mission EXCEPT !.status = "complete"]
  /\ UNCHANGED <<store, held, cont, seen, restarts, ghosts>>

\* The process dies, at any point of any handler, and comes back with what is on disk.
Restart ==
  /\ restarts < MaxRestarts
  /\ restarts' = restarts + 1
  /\ \E readable \in LoadOutcomes :
       /\ records' = IF readable THEN records ELSE [c \in Commitments |-> Fresh]
       /\ newer' = IF readable THEN newer ELSE [c \in Commitments |-> {}]
  /\ held' = {}
  /\ cont' = [e \in Envelopes |-> "idle"]
  /\ seen' = [e \in Envelopes |-> None]
  /\ mission' = NoMission
  /\ UNCHANGED ghosts

Next ==
  \/ \E e \in Envelopes : Deliver(e)
  \/ \E e \in Envelopes : Handle(e)
  \/ AbandonMission
  \/ CompleteMission
  \/ Restart

Spec == Init /\ [][Next]_vars

\* A handler that started goes on unless the process dies; the engine redelivers an
\* envelope until it is settled.
FairSpec ==
  /\ Spec
  /\ \A e \in Envelopes : WF_vars(Handle(e)) /\ SF_vars(Deliver(e))

-----------------------------------------------------------------------------
(* Properties *)

Record ==
  [highest_fence: Nat \cup {-1}, highest_sequence: Nat \cup {-1},
   task_id: Tasks \cup {None}, response: Verdicts \cup {None},
   acked_outbox_ids: SUBSET Envelopes, tombstoned: BOOLEAN]

Mission ==
  [task_id: Tasks \cup {None}, owner: Commitments \cup {None},
   status: {"none", "active", "aborted", "complete"}]

\* The type of the store, the handlers, the mission and the history.
TypeOK ==
  /\ records \in [Commitments -> Record]
  /\ newer \in [Commitments -> SUBSET Commitments]
  /\ held \subseteq Envelopes
  /\ cont \in [Envelopes -> {"idle", "admitted", "acked", "answering", "pop"}]
  /\ seen \in [Envelopes -> Verdicts \cup {None}]
  /\ mission \in Mission
  /\ restarts \in Nat
  /\ applied \in [Commitments -> Seq(Envelopes)]
  /\ acks \subseteq Envelopes
  /\ answers \in [Commitments -> Seq(Verdicts \cup {None})]

\* Envelopes take effect one at a time in the order the engine numbered them, with
\* rising fences: whatever is redelivered, reordered, held, or lost to a crash, none is
\* applied twice and none is skipped (admission steps 4 to 6).
AppliedOnceInOrder ==
  \A c \in Commitments : \A i \in 1..Len(applied[c]) :
    /\ applied[c][i].sequence = i - 1
    /\ i > 1 => applied[c][i - 1].fence < applied[c][i].fence

\* A COMMAND_ACK leaves the process only for an envelope within the durable marks, so that
\* a restart cannot take an acknowledged envelope for a new one (admission step 6).
AckedIsPersisted ==
  \A e \in acks : e.sequence <= records[e.commitment_id].highest_sequence

\* Every OFFER_* response that left is the one on disk: what the engine was told is what
\* the Rover will remember ("persisted before it is sent").
AnswerIsRecorded ==
  \A c \in Commitments : \A i \in 1..Len(answers[c]) : answers[c][i] = records[c].response

\* No redelivery, later envelope or restart gives a commitment a second answer.
AtMostOneAnswer == \A c \in Commitments : Len(answers[c]) <= 1

\* The Rover drives an engine mission only for a commitment whose recorded answer is
\* ACCEPT: never after a REJECT, and never when the answer could not be recorded.
DrivenIsAccepted == Active => records[mission.owner].response = "ACCEPT"

\* A withdrawn commitment is not driven: once the tombstone is down its mission has
\* stopped, and no held or redelivered OFFER starts it again.
WithdrawnIsNotDriven == Active => ~records[mission.owner].tombstoned

\* An envelope that no longer waits for anything: its turn has passed, its fence is
\* stale, or its commitment has ended.
Settled(e) ==
  \/ e.sequence < Expected(e.commitment_id)
  \/ ~check_fence(e)
  \/ records[e.commitment_id].tombstoned

\* Holding out-of-order envelopes never wedges the channel: with redelivery every envelope
\* is in the end admitted or moot, even when the hold queue is full or lost to a restart.
EveryEnvelopeSettles == \A e \in Envelopes : <>[]Settled(e)

\* Admitted by a process that died before the answer left; a redelivery is only acknowledged.
AnswerDied(e) ==
  /\ restarts > 0 /\ e.sequence < Expected(e.commitment_id)
  /\ cont[e] = "idle" /\ answers[e.commitment_id] = <<>>

\* An OFFER that may still be admitted is in the end answered, whatever it meets before its
\* admission: a gap in front of it, a full hold queue, a restart that loses the hold queue or
\* its first delivery, duplicates, other handlers.  Only a process that dies between the
\* admission and the answer leaves it without one.
OfferIsAnswered ==
  \A e \in Envelopes : e.command = "OFFER" =>
    (~Settled(e) ~> answers[e.commitment_id] # <<>> \/ AnswerDied(e))

-----------------------------------------------------------------------------
(* What all this is for *)

Contract == INSTANCE OfferContract WITH
  decision <- [c \in Commitments |-> records[c].response],
  told <- answers,
  driven <- IF Active THEN mission.owner ELSE None,
  over <- [c \in Commitments |-> records[c].tombstoned]

\* Redelivery, reordering, lost emits, failed writes and crashes are invisible in what the
\* engine may rely on: decisions are final, told at most once and as recorded, and what is
\* driven is always a commitment accepted and not over.
KeepsContract == Contract!Spec
=============================================================================
