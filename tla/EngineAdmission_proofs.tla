------------------------ MODULE EngineAdmission_proofs ------------------------
(***************************************************************************)
(* What TLAPS proves of EngineAdmission, for every outbox, every set of    *)
(* commitments and every bound.                                            *)
(***************************************************************************)
EXTENDS EngineAdmission, FiniteSetTheorems, SequenceTheorems, TLAPS

-----------------------------------------------------------------------------
(* Lemmas on the operators of the store *)

\* What an envelope of the outbox is made of.
LEMMA EnvelopeFields ==
  ASSUME NEW e \in Envelopes
  PROVE  /\ e.commitment_id \in Commitments
         /\ e.sequence \in Nat /\ e.fence \in Nat
         /\ e.fence_floor \in Nat \cup {-1}
         /\ e.task_id \in Tasks \cup {None}
         /\ e.command \in Commands
  BY EnvelopesAssumption

\* A commitment nothing is known of has a record of the right shape.
LEMMA FreshIsRecord == Fresh \in Record
  BY DEF Fresh, Record

\* The two later changes to a record keep its shape.
LEMMA ChangedIsRecord ==
  ASSUME NEW r \in Record
  PROVE  /\ [r EXCEPT !.tombstoned = TRUE] \in Record
         /\ \A v \in Verdicts : [r EXCEPT !.response = v] \in Record
  BY DEF Record

\* The record of an envelope's commitment is one.
LEMMA RecordOf ==
  ASSUME TypeOK, NEW e \in Envelopes
  PROVE  records[e.commitment_id] \in Record
  BY EnvelopeFields DEF TypeOK

\* CommitmentStore.update keeps the store well formed, whatever it evicts.
LEMMA UpdateType ==
  ASSUME TypeOK, NEW c \in Commitments, NEW r \in Record, Update(c, r)
  PROVE  /\ records' \in [Commitments -> Record]
         /\ newer' \in [Commitments -> SUBSET Commitments]
  BY FreshIsRecord DEF TypeOK, Update

\* The marks of an admitted envelope make a record.
LEMMA MarkedIsRecord ==
  ASSUME TypeOK, NEW e \in Envelopes
  PROVE  Marked(e) \in Record
<1>1. records[e.commitment_id] \in Record
  BY EnvelopeFields DEF TypeOK
<1>2. Newest(records[e.commitment_id].acked_outbox_ids \cup {e}, e.sequence) \in SUBSET Envelopes
  BY <1>1 DEF Record, Newest
<1> DEFINE task == IF e.command = "OFFER" THEN e.task_id ELSE records[e.commitment_id].task_id
<1>3. task \in Tasks \cup {None}
  BY <1>1, EnvelopeFields DEF Record
<1> QED
  BY <1>1, <1>2, <1>3, EnvelopeFields DEF Record, Marked

-----------------------------------------------------------------------------
(* Type correctness *)

\* Receiving an envelope, delivered or released from the hold queue, keeps the types.
LEMMA ReceiveType ==
  ASSUME TypeOK, NEW e \in Envelopes,
         NEW conts \in [Envelopes -> {"idle", "admitted", "acked", "answering", "pop"}],
         NEW hold \in SUBSET Envelopes,
         Receive(e, conts, hold)
  PROVE  /\ records' \in [Commitments -> Record]
         /\ newer' \in [Commitments -> SUBSET Commitments]
         /\ held' \subseteq Envelopes
         /\ cont' \in [Envelopes -> {"idle", "admitted", "acked", "answering", "pop"}]
         /\ applied' \in [Commitments -> Seq(Envelopes)]
         /\ acks' \subseteq Envelopes
<1>1. CASE ReAck(e) /\ cont' = conts /\ held' = hold
  BY <1>1 DEF ReAck, TypeOK, store
<1>2. CASE NotAdmitted(e) /\ cont' = conts /\ held' = hold
  BY <1>2 DEF NotAdmitted, TypeOK, store
<1>3. CASE Hold(e, hold) /\ cont' = conts
  BY <1>3 DEF Hold, TypeOK, store
<1>4. CASE Admit(e) /\ cont' = [conts EXCEPT ![e] = "admitted"] /\ held' = hold
  <2>1. /\ records' \in [Commitments -> Record]
        /\ newer' \in [Commitments -> SUBSET Commitments]
    BY <1>4, UpdateType, MarkedIsRecord, EnvelopeFields DEF Admit
  <2>2. applied' \in [Commitments -> Seq(Envelopes)]
    BY <1>4, EnvelopeFields DEF Admit, TypeOK
  <2> QED
    BY <1>4, <2>1, <2>2 DEF Admit, TypeOK
<1>5. CASE NotPersisted(e) /\ cont' = conts /\ held' = hold
  BY <1>5 DEF NotPersisted, TypeOK, store
<1> QED
  BY <1>1, <1>2, <1>3, <1>4, <1>5 DEF Receive

\* The store, the handlers and the mission start well typed.
LEMMA InitType == Init => TypeOK
  BY FreshIsRecord DEF Init, TypeOK, Mission, NoMission

\* Every value the channel keeps has its type, whatever the outbox holds and however
\* emits, writes, expiries and restarts turn out.
THEOREM TypeCorrect == Spec => []TypeOK
<1>1. Init => TypeOK
  BY InitType
<1>2. TypeOK /\ [Next]_vars => TypeOK'
  <2> SUFFICES ASSUME TypeOK, [Next]_vars PROVE TypeOK'
    OBVIOUS
  <2>1. ASSUME NEW e \in Envelopes, Deliver(e) PROVE TypeOK'
    BY <2>1, ReceiveType DEF Deliver, TypeOK
  <2>2. ASSUME NEW e \in Envelopes, Terminate(e) PROVE TypeOK'
    <3> DEFINE c == e.commitment_id
    <3>1. [records[c] EXCEPT !.tombstoned = TRUE] \in Record
      BY RecordOf, ChangedIsRecord
    <3>2. /\ records' \in [Commitments -> Record]
          /\ newer' \in [Commitments -> SUBSET Commitments]
      BY <2>2, <3>1, UpdateType, EnvelopeFields DEF Terminate, Tombstone, TypeOK, store
    <3>3. mission' \in Mission
      BY <2>2 DEF Terminate, TypeOK, Abandoned, Mission
    <3> QED
      BY <2>2, <3>2, <3>3 DEF Terminate, TypeOK
  <2>3. ASSUME NEW e \in Envelopes, Acknowledge(e) PROVE TypeOK'
    BY <2>3, EnvelopeFields DEF Acknowledge, TypeOK, store, Record
  <2>4. ASSUME NEW e \in Envelopes, NoResponse(e) PROVE TypeOK'
    BY <2>4 DEF NoResponse, TypeOK, store, ghosts
  <2>5. ASSUME NEW e \in Envelopes, Respond(e) PROVE TypeOK'
    <3> DEFINE c == e.commitment_id
    <3>1. \A v \in Verdicts : [records[c] EXCEPT !.response = v] \in Record
      BY RecordOf, ChangedIsRecord
    <3>2. /\ records' \in [Commitments -> Record]
          /\ newer' \in [Commitments -> SUBSET Commitments]
      BY <2>5, <3>1, UpdateType, EnvelopeFields DEF Respond, Verdicts, TypeOK, store
    <3>3. mission' \in Mission
      <4> DEFINE assigned == [task_id |-> e.task_id, owner |-> c, status |-> "active"]
      <4>1. assigned \in Mission /\ Abandoned(assigned) \in Mission
        BY EnvelopeFields DEF Mission, Abandoned
      <4>2. mission' \in {mission, assigned, Abandoned(assigned)}
        BY <2>5 DEF Respond
      <4> QED
        BY <4>1, <4>2 DEF TypeOK
    <3> QED
      BY <2>5, <3>2, <3>3 DEF Respond, TypeOK, ghosts
  <2>6. ASSUME NEW e \in Envelopes, Answer(e) PROVE TypeOK'
    <3> DEFINE c == e.commitment_id
    <3>1. records[c].response \in Verdicts \cup {None} /\ c \in Commitments
      BY RecordOf, EnvelopeFields DEF Record
    <3>2. answers' \in [Commitments -> Seq(Verdicts \cup {None})]
      BY <2>6, <3>1 DEF Answer, TypeOK
    <3> QED
      BY <2>6, <3>2 DEF Answer, TypeOK, store
  <2>7. ASSUME NEW e \in Envelopes, PopSuccessor(e) PROVE TypeOK'
    <3> DEFINE done == [cont EXCEPT ![e] = "idle"]
    <3>1. done \in [Envelopes -> {"idle", "admitted", "acked", "answering", "pop"}]
      BY DEF TypeOK
    <3>2. ASSUME NEW f \in Successors(e), Receive(f, done, held \ {f}) PROVE TypeOK'
      <4>1. f \in Envelopes /\ held \ {f} \in SUBSET Envelopes
        BY <3>2 DEF Successors, TypeOK
      <4> QED
        BY <2>7, <3>1, <3>2, <4>1, ReceiveType DEF PopSuccessor, TypeOK
    <3>3. ASSUME cont' = done, held' \subseteq held, UNCHANGED <<store, applied, acks>>
          PROVE TypeOK'
      BY <2>7, <3>1, <3>3 DEF PopSuccessor, TypeOK, store
    <3> QED
      BY <2>7, <3>2, <3>3 DEF PopSuccessor, store
  <2>8. CASE AbandonMission
    BY <2>8 DEF AbandonMission, Abandoned, TypeOK, Mission, store, ghosts
  <2>9. CASE CompleteMission
    BY <2>9 DEF CompleteMission, TypeOK, Mission, store, ghosts
  <2>10. CASE Restart
    BY <2>10, FreshIsRecord DEF Restart, TypeOK, Mission, NoMission, ghosts
  <2>11. CASE UNCHANGED vars
    BY <2>11 DEF vars, TypeOK
  <2> QED
    BY <2>1, <2>2, <2>3, <2>4, <2>5, <2>6, <2>7, <2>8, <2>9, <2>10, <2>11 DEF Next, Handle
<1> QED
  BY <1>1, <1>2, PTL DEF Spec

-----------------------------------------------------------------------------
(* A store that keeps what it was told *)

\* Every commitment fits in the store, and start-up reads back what was written.
SoundStore ==
  /\ IsFiniteSet(Commitments) /\ Cardinality(Commitments) <= MaxRecords
  /\ LoadOutcomes \subseteq {TRUE}

\* Then an update changes the one record it names.
LEMMA UpdateOne ==
  ASSUME SoundStore, TypeOK, NEW c \in Commitments, NEW r, Update(c, r)
  PROVE  records' = [records EXCEPT ![c] = r]
<1>1. Known \cup {c} \subseteq Commitments
  BY DEF Known
<1>2. /\ IsFiniteSet(Known \cup {c})
      /\ Cardinality(Known \cup {c}) <= Cardinality(Commitments)
  BY <1>1, FS_Subset DEF SoundStore
<1>3. Cardinality(Known \cup {c}) \in Nat /\ Cardinality(Commitments) \in Nat
  BY <1>2, FS_CardinalityType DEF SoundStore
<1>4. ~(Cardinality(Known \cup {c}) > MaxRecords)
  BY <1>2, <1>3, BoundsAssumption DEF SoundStore
<1>5. Evicted(c) = {}
  BY <1>4 DEF Evicted
<1> QED
  BY <1>5 DEF Update, TypeOK

\* What admission wrote of c stays as it was.
SameMarks(c) ==
  /\ records'[c].highest_fence = records[c].highest_fence
  /\ records'[c].highest_sequence = records[c].highest_sequence
  /\ records'[c].task_id = records[c].task_id
  /\ records'[c].acked_outbox_ids = records[c].acked_outbox_ids

KeepsMarks == applied' = applied /\ \A c \in Commitments : SameMarks(c)

\* A record changed outside its marks.
LEMMA ChangedKeepsMarks ==
  ASSUME TypeOK, NEW c \in Commitments, NEW v,
         \/ records' = [records EXCEPT ![c] = [records[c] EXCEPT !.tombstoned = v]]
         \/ records' = [records EXCEPT ![c] = [records[c] EXCEPT !.response = v]]
  PROVE  \A d \in Commitments : SameMarks(d)
<1>1. records[c] \in Record
  BY DEF TypeOK
<1> TAKE d \in Commitments
<1>2. d # c => records'[d] = records[d]
  BY DEF TypeOK
<1>3. \/ records'[c] = [records[c] EXCEPT !.tombstoned = v]
      \/ records'[c] = [records[c] EXCEPT !.response = v]
  BY DEF TypeOK
<1>4. SameMarks(c)
  BY <1>1, <1>3 DEF SameMarks, Record
<1> QED
  BY <1>2, <1>4 DEF SameMarks

\* What admission writes.
LEMMA AdmitWrites ==
  ASSUME SoundStore, TypeOK, NEW e \in Envelopes, Admit(e)
  PROVE  /\ records' = [records EXCEPT ![e.commitment_id] = Marked(e)]
         /\ Marked(e).highest_fence = e.fence
         /\ Marked(e).highest_sequence = e.sequence
         /\ Marked(e).response = records[e.commitment_id].response
         /\ Marked(e).tombstoned = records[e.commitment_id].tombstoned
         /\ e.command # "OFFER" => Marked(e).task_id = records[e.commitment_id].task_id
         /\ e.command = "OFFER" => Marked(e).task_id = e.task_id
         /\ Marked(e).acked_outbox_ids \subseteq
              records[e.commitment_id].acked_outbox_ids \cup {e}
<1>1. records' = [records EXCEPT ![e.commitment_id] = Marked(e)]
  BY UpdateOne, EnvelopeFields DEF Admit
<1>2. records[e.commitment_id] \in Record
  BY RecordOf
<1> QED
  BY <1>1, <1>2 DEF Marked, Record, Newest

\* Receiving an envelope admits it or leaves the store alone.
LEMMA ReceiveAdmits ==
  ASSUME NEW e \in Envelopes, NEW conts, NEW hold, Receive(e, conts, hold)
  PROVE  \/ Admit(e) /\ conts[e] = "idle" /\ cont' = [conts EXCEPT ![e] = "admitted"]
         \/ UNCHANGED <<store, applied>> /\ cont' = conts
  BY DEF Receive, ReAck, NotAdmitted, Hold, NotPersisted

\* Only admission moves a commitment's marks: every other step keeps them.
LEMMA AdmitOrKeep ==
  ASSUME SoundStore, TypeOK, [Next]_vars
  PROVE  (\E e \in Envelopes : Admit(e)) \/ KeepsMarks
<1>1. UNCHANGED <<store, applied>> => KeepsMarks
  BY DEF store, KeepsMarks, SameMarks
<1>2. ASSUME NEW e \in Envelopes, Deliver(e) PROVE Admit(e) \/ KeepsMarks
  BY <1>1, <1>2, ReceiveAdmits DEF Deliver
<1>3. ASSUME NEW e \in Envelopes, Terminate(e) PROVE KeepsMarks
  <2> DEFINE c == e.commitment_id
  <2>1. records' = [records EXCEPT ![c] = [records[c] EXCEPT !.tombstoned = TRUE]]
        \/ records' = records
    BY <1>3, UpdateOne, EnvelopeFields DEF Terminate, Tombstone, store
  <2> QED
    BY <2>1, <1>1, <1>3, ChangedKeepsMarks, EnvelopeFields DEF Terminate, KeepsMarks, SameMarks
<1>4. ASSUME NEW e \in Envelopes, Respond(e) PROVE KeepsMarks
  <2> DEFINE c == e.commitment_id
  <2>1. (\E v \in Verdicts : records' = [records EXCEPT ![c] = [records[c] EXCEPT !.response = v]])
        \/ records' = records
    BY <1>4, UpdateOne, EnvelopeFields DEF Respond, Verdicts, store
  <2> QED
    BY <2>1, <1>1, <1>4, ChangedKeepsMarks, EnvelopeFields DEF Respond, KeepsMarks, SameMarks, ghosts
<1>5. ASSUME NEW e \in Envelopes, PopSuccessor(e)
      PROVE (\E f \in Envelopes : Admit(f)) \/ KeepsMarks
  <2>1. Successors(e) \subseteq Envelopes
    BY DEF Successors, TypeOK
  <2> QED
    BY <1>1, <1>5, <2>1, ReceiveAdmits DEF PopSuccessor
<1>6. ASSUME NEW e \in Envelopes, Acknowledge(e) \/ NoResponse(e) \/ Answer(e)
      PROVE KeepsMarks
  BY <1>1, <1>6 DEF Acknowledge, NoResponse, Answer, ghosts
<1>7. Restart => KeepsMarks
  BY <1>1 DEF Restart, SoundStore, store, ghosts
<1>8. AbandonMission \/ CompleteMission \/ UNCHANGED vars => KeepsMarks
  BY <1>1 DEF AbandonMission, CompleteMission, vars, store, ghosts
<1> QED
  BY <1>2, <1>3, <1>4, <1>5, <1>6, <1>7, <1>8 DEF Next, Handle

-----------------------------------------------------------------------------
(* Order of admission *)

\* The durable marks say how far the history of a commitment goes.
MarksMeasureApplied ==
  \A c \in Commitments :
    /\ Len(applied[c]) = Expected(c)
    /\ Len(applied[c]) > 0 => applied[c][Len(applied[c])].fence = records[c].highest_fence

OrderInv == TypeOK /\ MarksMeasureApplied /\ AppliedOnceInOrder

\* Admission appends the next envelope of the commitment, with a higher fence.
LEMMA AdmitKeepsOrder ==
  ASSUME SoundStore, OrderInv, NEW e \in Envelopes, Admit(e)
  PROVE  MarksMeasureApplied' /\ AppliedOnceInOrder'
<1> DEFINE c == e.commitment_id
<1>1. /\ c \in Commitments /\ e.sequence \in Nat /\ e.fence \in Nat
      /\ applied[c] \in Seq(Envelopes) /\ applied'[c] = Append(applied[c], e)
  BY EnvelopeFields DEF OrderInv, TypeOK, Admit
<1>2. \A d \in Commitments \ {c} : applied'[d] = applied[d] /\ records'[d] = records[d]
  BY AdmitWrites DEF OrderInv, TypeOK, Admit
<1>3. /\ records'[c] = Marked(e)
      /\ records'[c].highest_fence = e.fence /\ records'[c].highest_sequence = e.sequence
  BY <1>1, AdmitWrites DEF OrderInv, TypeOK
<1>4. e.sequence = Len(applied[c]) /\ e.fence > records[c].highest_fence
  BY <1>1 DEF Admit, OrderInv, MarksMeasureApplied, check_fence
<1>5. Len(applied'[c]) = Len(applied[c]) + 1 /\ Len(applied[c]) \in Nat
  BY <1>1
<1>6. /\ applied'[c][Len(applied[c]) + 1] = e
      /\ \A i \in 1..Len(applied[c]) : applied'[c][i] = applied[c][i]
  BY <1>1
<1>7. MarksMeasureApplied'
  <2>1. /\ Len(applied'[c]) = records'[c].highest_sequence + 1
        /\ applied'[c][Len(applied'[c])].fence = records'[c].highest_fence
    BY <1>3, <1>4, <1>5, <1>6
  <2> QED
    BY <2>1, <1>2 DEF OrderInv, MarksMeasureApplied, Expected
<1>8. \A i \in 1..Len(applied'[c]) :
        /\ applied'[c][i].sequence = i - 1
        /\ i > 1 => applied'[c][i - 1].fence < applied'[c][i].fence
  <2> TAKE i \in 1..Len(applied'[c])
  <2>1. CASE i = Len(applied[c]) + 1
    <3>1. applied'[c][i] = e
      BY <2>1, <1>6
    <3>2. i > 1 => /\ i - 1 = Len(applied[c]) /\ Len(applied[c]) > 0
                   /\ applied'[c][i - 1] = applied[c][Len(applied[c])]
      BY <2>1, <1>5, <1>6
    <3>3. i > 1 => applied'[c][i - 1].fence = records[c].highest_fence
      BY <3>2, <1>1 DEF OrderInv, MarksMeasureApplied
    <3>4. records[c].highest_fence \in Int
      BY <1>1 DEF OrderInv, TypeOK, Record
    <3> QED
      BY <2>1, <3>1, <3>3, <3>4, <1>1, <1>4, <1>5
  <2>2. CASE i \in 1..Len(applied[c])
    BY <2>2, <1>1, <1>5, <1>6 DEF OrderInv, AppliedOnceInOrder
  <2> QED
    BY <2>1, <2>2, <1>5
<1> QED
  BY <1>2, <1>7, <1>8 DEF OrderInv, AppliedOnceInOrder

\* Steps that keep the marks keep the order.
LEMMA KeepsOrder ==
  ASSUME OrderInv, KeepsMarks
  PROVE  MarksMeasureApplied' /\ AppliedOnceInOrder'
BY DEF OrderInv, KeepsMarks, SameMarks, MarksMeasureApplied, AppliedOnceInOrder, Expected

\* Envelopes take effect once each, in the engine's order and with rising fences, for any
\* outbox, any interleaving of handlers and any crash, when the store keeps its records.
THEOREM AppliedOnceInOrderHolds == SoundStore => (Spec => []AppliedOnceInOrder)
<1> SUFFICES ASSUME SoundStore PROVE Spec => []AppliedOnceInOrder
  OBVIOUS
<1>1. Init => OrderInv
  <2> SUFFICES ASSUME Init PROVE OrderInv
    OBVIOUS
  <2>1. TypeOK
    BY InitType
  <2>2. \A c \in Commitments : Len(applied[c]) = 0 /\ Expected(c) = 0
    BY DEF Init, Expected, Fresh
  <2> QED
    BY <2>1, <2>2 DEF OrderInv, MarksMeasureApplied, AppliedOnceInOrder
<1>2. OrderInv /\ TypeOK' /\ [Next]_vars => OrderInv'
  BY AdmitOrKeep, AdmitKeepsOrder, KeepsOrder DEF OrderInv
<1>3. OrderInv => AppliedOnceInOrder
  BY DEF OrderInv
<1> QED
  BY <1>1, <1>2, <1>3, TypeCorrect, PTL DEF Spec

-----------------------------------------------------------------------------
(* Acknowledgements *)

Reached(e) == e.sequence <= records[e.commitment_id].highest_sequence

\* Whoever may acknowledge an envelope finds it within the marks.
AcksInv ==
  /\ TypeOK
  /\ AckedIsPersisted
  /\ \A e \in Envelopes : cont[e] # "idle" => Reached(e)
  /\ \A e \in Envelopes : e \in records[e.commitment_id].acked_outbox_ids => Reached(e)

\* The marks of a commitment never go back.
LEMMA MarksRise ==
  ASSUME SoundStore, TypeOK, [Next]_vars
  PROVE  \A c \in Commitments : records[c].highest_sequence <= records'[c].highest_sequence
<1>1. \A c \in Commitments : records[c].highest_sequence \in Int
  BY DEF TypeOK, Record
<1>2. ASSUME NEW e \in Envelopes, Admit(e)
      PROVE  \A c \in Commitments : records[c].highest_sequence <= records'[c].highest_sequence
  <2>1. records[e.commitment_id].highest_sequence <= e.sequence
    BY <1>1, <1>2, EnvelopeFields DEF Admit, Expected
  <2>2. /\ records' = [records EXCEPT ![e.commitment_id] = Marked(e)]
        /\ Marked(e).highest_sequence = e.sequence
    BY <1>2, AdmitWrites
  <2> QED
    BY <1>1, <2>1, <2>2, EnvelopeFields DEF TypeOK
<1>3. KeepsMarks => \A c \in Commitments : records[c].highest_sequence <= records'[c].highest_sequence
  BY <1>1 DEF KeepsMarks, SameMarks
<1> QED
  BY <1>2, <1>3, AdmitOrKeep

\* A handler starts only by admission, and only a handler, or a redelivery of what was
\* admitted, acknowledges.
LEMMA WhoActs ==
  ASSUME TypeOK, [Next]_vars
  PROVE  \A f \in Envelopes :
           /\ cont'[f] # "idle" => cont[f] # "idle" \/ Admit(f)
           /\ f \in acks' \ acks =>
                cont[f] # "idle" \/ f \in records[f.commitment_id].acked_outbox_ids
<1> SUFFICES ASSUME NEW f \in Envelopes
             PROVE  /\ cont'[f] # "idle" => cont[f] # "idle" \/ Admit(f)
                    /\ f \in acks' \ acks =>
                         cont[f] # "idle" \/ f \in records[f.commitment_id].acked_outbox_ids
  OBVIOUS
<1>1. ASSUME NEW e \in Envelopes, NEW hold, Receive(e, cont, hold)
      PROVE  /\ cont'[f] # "idle" => cont[f] # "idle" \/ Admit(f)
             /\ f \in acks' \ acks => f \in records[f.commitment_id].acked_outbox_ids
  BY <1>1 DEF Receive, ReAck, NotAdmitted, Hold, Admit, NotPersisted, TypeOK
<1>2. ASSUME NEW e \in Envelopes, Deliver(e)
      PROVE  /\ cont'[f] # "idle" => cont[f] # "idle" \/ Admit(f)
             /\ f \in acks' \ acks =>
                  cont[f] # "idle" \/ f \in records[f.commitment_id].acked_outbox_ids
  BY <1>1, <1>2 DEF Deliver
<1>3. ASSUME NEW e \in Envelopes, Terminate(e) \/ Acknowledge(e)
      PROVE  /\ cont'[f] # "idle" => cont[f] # "idle"
             /\ f \in acks' \ acks => cont[f] # "idle"
  BY <1>3 DEF Terminate, Acknowledge, TypeOK
<1>4. ASSUME NEW e \in Envelopes, NoResponse(e) \/ Respond(e) \/ Answer(e)
      PROVE  (cont'[f] # "idle" => cont[f] # "idle") /\ acks' = acks
  BY <1>4 DEF NoResponse, Respond, Answer, TypeOK, ghosts
<1>5. ASSUME NEW e \in Envelopes, PopSuccessor(e)
      PROVE  /\ cont'[f] # "idle" => cont[f] # "idle" \/ Admit(f)
             /\ f \in acks' \ acks => f \in records[f.commitment_id].acked_outbox_ids
  <2> DEFINE done == [cont EXCEPT ![e] = "idle"]
  <2>1. done \in [Envelopes -> {"idle", "admitted", "acked", "answering", "pop"}]
        /\ (done[f] # "idle" => cont[f] # "idle")
    BY DEF TypeOK
  <2>2. CASE cont' = done /\ acks' = acks
    BY <2>1, <2>2
  <2>3. ASSUME NEW g \in Successors(e), Receive(g, done, held \ {g})
        PROVE  /\ cont'[f] # "idle" => cont[f] # "idle" \/ Admit(f)
               /\ f \in acks' \ acks => f \in records[f.commitment_id].acked_outbox_ids
    <3> HIDE DEF done
    <3> QED
      BY <2>1, <2>3 DEF Receive, ReAck, NotAdmitted, Hold, Admit, NotPersisted
  <2> QED
    BY <1>5, <2>2, <2>3 DEF PopSuccessor
<1>6. AbandonMission \/ CompleteMission \/ Restart \/ UNCHANGED vars
        => (cont'[f] # "idle" => cont[f] # "idle") /\ acks' = acks
  BY DEF AbandonMission, CompleteMission, Restart, vars, ghosts
<1> QED
  BY <1>2, <1>3, <1>4, <1>5, <1>6 DEF Next, Handle

\* An acknowledged envelope is within the durable marks, so no restart takes it for a new
\* one, for any outbox and however handlers interleave, when the store keeps its records.
THEOREM AckedIsPersistedHolds == SoundStore => (Spec => []AckedIsPersisted)
<1> SUFFICES ASSUME SoundStore PROVE Spec => []AckedIsPersisted
  OBVIOUS
<1>1. Init => AcksInv
  BY InitType, EnvelopeFields DEF Init, AcksInv, AckedIsPersisted, Fresh
<1>2. AcksInv /\ TypeOK' /\ [Next]_vars => AcksInv'
  <2> SUFFICES ASSUME AcksInv, TypeOK', [Next]_vars PROVE AcksInv'
    OBVIOUS
  <2> USE DEF AcksInv
  <2>1. \A e \in Envelopes : Reached(e) => Reached(e)'
    <3> TAKE e \in Envelopes
    <3>1. /\ e.sequence \in Int
          /\ records[e.commitment_id].highest_sequence \in Int
          /\ records'[e.commitment_id].highest_sequence \in Int
          /\ records[e.commitment_id].highest_sequence
               <= records'[e.commitment_id].highest_sequence
      BY EnvelopeFields, MarksRise DEF TypeOK, Record
    <3> QED
      BY <3>1 DEF Reached
  <2>2. \A e \in Envelopes : Admit(e) => Reached(e)'
    <3> SUFFICES ASSUME NEW e \in Envelopes, Admit(e) PROVE Reached(e)'
      OBVIOUS
    <3>1. records'[e.commitment_id].highest_sequence = e.sequence
      BY AdmitWrites, EnvelopeFields DEF TypeOK
    <3> QED
      BY <3>1, EnvelopeFields DEF Reached
  <2>3. AckedIsPersisted'
    <3> SUFFICES ASSUME NEW e \in acks' PROVE Reached(e)'
      BY DEF AckedIsPersisted, Reached
    <3>1. e \in Envelopes
      BY DEF TypeOK
    <3>2. e \in acks => Reached(e)
      BY DEF AckedIsPersisted, Reached
    <3> QED
      BY <2>1, <3>1, <3>2, WhoActs
  <2>4. \A e \in Envelopes : cont'[e] # "idle" => Reached(e)'
    BY <2>1, <2>2, WhoActs
  <2>5. \A e \in Envelopes : e \in records'[e.commitment_id].acked_outbox_ids => Reached(e)'
    <3> SUFFICES ASSUME NEW e \in Envelopes,
                        e \in records'[e.commitment_id].acked_outbox_ids
                 PROVE  Reached(e)'
      OBVIOUS
    <3>1. CASE KeepsMarks
      BY <2>1, <3>1, EnvelopeFields DEF KeepsMarks, SameMarks
    <3>2. ASSUME NEW f \in Envelopes, Admit(f) PROVE Reached(e)'
      <4>1. records' = [records EXCEPT ![f.commitment_id] = Marked(f)]
            /\ Marked(f).acked_outbox_ids \subseteq
                 records[f.commitment_id].acked_outbox_ids \cup {f}
        BY <3>2, AdmitWrites
      <4>2. e = f \/ e \in records[e.commitment_id].acked_outbox_ids
        BY <4>1, EnvelopeFields DEF TypeOK
      <4> QED
        BY <2>1, <2>2, <3>2, <4>2
    <3> QED
      BY <3>1, <3>2, AdmitOrKeep
  <2> QED
    BY <2>3, <2>4, <2>5
<1>3. AcksInv => AckedIsPersisted
  BY DEF AcksInv
<1> QED
  BY <1>1, <1>2, <1>3, TypeCorrect, PTL DEF Spec

-----------------------------------------------------------------------------
(* Answers and missions, one handler at a time *)

\* What every emit of the pinned Socket.IO client does: return without suspending.
OneAtATime == EmitYields = FALSE

SameVerdict(c) ==
  /\ records'[c].response = records[c].response
  /\ records'[c].tombstoned = records[c].tombstoned

\* Receiving an envelope leaves every verdict and tombstone as it was.
LEMMA ReceiveKeepsVerdicts ==
  ASSUME SoundStore, TypeOK, NEW e \in Envelopes, NEW conts, NEW hold, Receive(e, conts, hold)
  PROVE  \A c \in Commitments : SameVerdict(c)
<1>1. ASSUME Admit(e) PROVE \A c \in Commitments : SameVerdict(c)
  <2>1. /\ records' = [records EXCEPT ![e.commitment_id] = Marked(e)]
        /\ Marked(e).response = records[e.commitment_id].response
        /\ Marked(e).tombstoned = records[e.commitment_id].tombstoned
    BY <1>1, AdmitWrites
  <2> QED
    BY <2>1, EnvelopeFields DEF TypeOK, SameVerdict
<1>2. UNCHANGED store => \A c \in Commitments : SameVerdict(c)
  BY DEF store, SameVerdict
<1> QED
  BY <1>1, <1>2, ReceiveAdmits DEF store

\* A handler that terminates a commitment changes at most its tombstone.
LEMMA TerminateWrites ==
  ASSUME SoundStore, TypeOK, NEW e \in Envelopes, Terminate(e)
  PROVE  /\ \A c \in Commitments : records'[c].response = records[c].response
         /\ \A c \in Commitments : records'[c].task_id = records[c].task_id
         /\ \A c \in Commitments \ {e.commitment_id} : records'[c] = records[c]
<1> DEFINE d == e.commitment_id
<1>1. \/ records' = [records EXCEPT ![d] = [records[d] EXCEPT !.tombstoned = TRUE]]
      \/ records' = records
  BY UpdateOne, EnvelopeFields DEF Terminate, Tombstone, store
<1>2. records[d] \in Record /\ d \in Commitments
  BY RecordOf, EnvelopeFields
<1>3. /\ [records[d] EXCEPT !.tombstoned = TRUE].response = records[d].response
      /\ [records[d] EXCEPT !.tombstoned = TRUE].task_id = records[d].task_id
  BY <1>2 DEF Record
<1> QED
  BY <1>1, <1>2, <1>3 DEF TypeOK

\* A handler that answers an OFFER records a verdict and drives for it, or does neither.
LEMMA RespondWrites ==
  ASSUME SoundStore, TypeOK, NEW e \in Envelopes, Respond(e)
  PROVE  LET c == e.commitment_id IN
         /\ \A d \in Commitments \ {c} : records'[d] = records[d]
         /\ records'[c].tombstoned = records[c].tombstoned
         /\ records'[c].task_id = records[c].task_id
         /\ \/ /\ records'[c].response = "ACCEPT" /\ cont' = [cont EXCEPT ![e] = "answering"]
               /\ mission' = [task_id |-> e.task_id, owner |-> c, status |-> "active"]
               /\ e.task_id # None /\ ~Active
            \/ /\ records'[c].response = "REJECT" /\ cont' = [cont EXCEPT ![e] = "answering"]
               /\ mission' = mission
            \/ /\ records'[c].response = records[c].response
               /\ cont' = [cont EXCEPT ![e] = "pop"]
               /\ mission' = mission \/ mission'.status # "active"
<1> DEFINE c == e.commitment_id
           assigned == [task_id |-> e.task_id, owner |-> c, status |-> "active"]
<1>1. records[c] \in Record /\ c \in Commitments
  BY RecordOf, EnvelopeFields
<1>2. \A v \in Verdicts :
        /\ [records[c] EXCEPT !.response = v].response = v
        /\ [records[c] EXCEPT !.response = v].tombstoned = records[c].tombstoned
        /\ [records[c] EXCEPT !.response = v].task_id = records[c].task_id
  BY <1>1 DEF Record
<1>3. Abandoned(assigned).status # "active"
  BY DEF Abandoned
<1>4. PICK feasible \in FeasibleOutcomes, written \in WriteOutcomes :
        LET accepted == Accepts(e, feasible)
            verdict == IF accepted THEN "ACCEPT" ELSE "REJECT"
        IN /\ mission' = IF ~accepted THEN mission
                         ELSE IF written THEN assigned ELSE Abandoned(assigned)
           /\ IF written THEN Update(c, [records[c] EXCEPT !.response = verdict])
              ELSE UNCHANGED store
           /\ cont' = [cont EXCEPT ![e] = IF written THEN "answering" ELSE "pop"]
  BY DEF Respond
<1>5. CASE ~written
  BY <1>1, <1>3, <1>4, <1>5 DEF store
<1>6. CASE written
  <2> DEFINE verdict == IF Accepts(e, feasible) THEN "ACCEPT" ELSE "REJECT"
  <2>1. records' = [records EXCEPT ![c] = [records[c] EXCEPT !.response = verdict]]
    BY <1>1, <1>4, <1>6, UpdateOne
  <2>2. records'[c] = [records[c] EXCEPT !.response = verdict]
        /\ \A d \in Commitments \ {c} : records'[d] = records[d]
    BY <1>1, <2>1 DEF TypeOK
  <2> QED
    BY <1>2, <1>4, <1>6, <2>2 DEF Verdicts, Accepts
<1> QED
  BY <1>5, <1>6

\* At most one handler is under way.
Alone == \A e, f \in Envelopes : cont[e] # "idle" /\ cont[f] # "idle" => e = f

\* A waiting OFFER handler holds the verdict on record; none is on record before an answer
\* leaves, one is when it is about to.
AnswerInv ==
  /\ TypeOK /\ Alone
  /\ \A e \in Envelopes :
       /\ cont[e] = "acked" => seen[e] = records[e.commitment_id].response
       /\ cont[e] = "answering" => /\ records[e.commitment_id].response # None
                                   /\ answers[e.commitment_id] = <<>>
  /\ \A c \in Commitments :
       \/ answers[c] = <<>>
       \/ records[c].response # None /\ answers[c] = <<records[c].response>>

\* A step after which no handler waits for or gives an answer, and no verdict changed.
LEMMA QuietKeepsAnswers ==
  ASSUME AnswerInv, TypeOK', Alone', answers' = answers,
         \A e \in Envelopes : cont'[e] \notin {"acked", "answering"},
         \A c \in Commitments : records'[c].response = records[c].response
  PROVE  AnswerInv'
BY DEF AnswerInv

\* A received envelope finds the loop free: at most its own handler is then under way.
LEMMA ReceiveKeepsAnswers ==
  ASSUME SoundStore, AnswerInv, TypeOK', NEW e \in Envelopes, NEW conts, NEW hold,
         Receive(e, conts, hold), answers' = answers,
         conts = [f \in Envelopes |-> "idle"]
  PROVE  AnswerInv'
<1>1. cont' = conts \/ cont' = [conts EXCEPT ![e] = "admitted"]
  BY ReceiveAdmits
<1>2. Alone' /\ \A f \in Envelopes : cont'[f] \notin {"acked", "answering"}
  BY <1>1 DEF Alone
<1>3. \A c \in Commitments : records'[c].response = records[c].response
  BY ReceiveKeepsVerdicts DEF AnswerInv, SameVerdict
<1> QED
  BY <1>2, <1>3, QuietKeepsAnswers

\* A handler's own steps leave it alone under way.
LEMMA OwnStepAlone ==
  ASSUME TypeOK, Alone, NEW e \in Envelopes, cont[e] # "idle",
         NEW s, cont' = [cont EXCEPT ![e] = s]
  PROVE  /\ Alone'
         /\ \A f \in Envelopes \ {e} : cont'[f] = "idle"
         /\ cont'[e] = s
BY DEF TypeOK, Alone

LEMMA AnswerInvStep ==
  ASSUME SoundStore, OneAtATime, AnswerInv, TypeOK', [Next]_vars
  PROVE  AnswerInv'
<1> USE DEF AnswerInv
<1>1. ASSUME NEW e \in Envelopes, Deliver(e) PROVE AnswerInv'
  <2>1. cont = [f \in Envelopes |-> "idle"]
    BY <1>1 DEF Deliver, LoopIsFree, AtAwait, OneAtATime, TypeOK
  <2> QED
    BY <1>1, <2>1, ReceiveKeepsAnswers DEF Deliver
<1>2. ASSUME NEW e \in Envelopes, Terminate(e) PROVE AnswerInv'
  <2>1. /\ cont[e] # "idle" /\ cont' = [cont EXCEPT ![e] = "pop"]
        /\ answers' = answers
    BY <1>2 DEF Terminate
  <2>2. Alone' /\ \A f \in Envelopes : cont'[f] \in {"idle", "pop"}
    BY <2>1, OwnStepAlone
  <2>3. \A c \in Commitments : records'[c].response = records[c].response
    BY <1>2, TerminateWrites
  <2> QED
    BY <2>1, <2>2, <2>3, QuietKeepsAnswers
<1>3. ASSUME NEW e \in Envelopes, Acknowledge(e) PROVE AnswerInv'
  <2> DEFINE s == IF e.command = "OFFER" THEN "acked" ELSE "pop"
  <2>1. /\ cont[e] # "idle" /\ cont' = [cont EXCEPT ![e] = s]
        /\ answers' = answers /\ records' = records
        /\ seen' = [seen EXCEPT ![e] = records[e.commitment_id].response]
    BY <1>3 DEF Acknowledge, store
  <2>2. Alone' /\ cont'[e] = s /\ \A f \in Envelopes \ {e} : cont'[f] = "idle"
    BY <2>1, OwnStepAlone
  <2>3. seen'[e] = records'[e.commitment_id].response
    BY <2>1 DEF TypeOK
  <2> QED
    BY <2>1, <2>2, <2>3
<1>4. ASSUME NEW e \in Envelopes, NoResponse(e) PROVE AnswerInv'
  <2>1. /\ cont[e] # "idle" /\ cont' = [cont EXCEPT ![e] = "pop"]
        /\ answers' = answers /\ records' = records
    BY <1>4 DEF NoResponse, store, ghosts
  <2> QED
    BY <2>1, OwnStepAlone, QuietKeepsAnswers
<1>5. ASSUME NEW e \in Envelopes, Respond(e) PROVE AnswerInv'
  <2> DEFINE c == e.commitment_id
  <2>1. /\ cont[e] = "acked" /\ seen[e] = None /\ answers' = answers
        /\ c \in Commitments /\ records[c].response = None /\ answers[c] = <<>>
    BY <1>5, EnvelopeFields DEF Respond, ghosts
  <2>2. \A d \in Commitments \ {c} : records'[d] = records[d]
    BY <1>5, RespondWrites
  <2>3. CASE /\ records'[c].response \in Verdicts /\ cont' = [cont EXCEPT ![e] = "answering"]
    <3>1. Alone' /\ cont'[e] = "answering" /\ \A f \in Envelopes \ {e} : cont'[f] = "idle"
      BY <2>1, <2>3, OwnStepAlone
    <3>2. records'[c].response # None
      BY <2>3, EnvelopesAssumption DEF Verdicts
    <3> QED
      BY <2>1, <2>2, <3>1, <3>2
  <2>4. CASE records'[c].response = records[c].response /\ cont' = [cont EXCEPT ![e] = "pop"]
    <3>1. \A d \in Commitments : records'[d].response = records[d].response
      BY <2>2, <2>4
    <3>2. Alone' /\ \A f \in Envelopes : cont'[f] \notin {"acked", "answering"}
      BY <2>1, <2>4, OwnStepAlone
    <3> QED
      BY <2>1, <3>1, <3>2, QuietKeepsAnswers
  <2> QED
    BY <1>5, <2>3, <2>4, RespondWrites DEF Verdicts
<1>6. ASSUME NEW e \in Envelopes, Answer(e) PROVE AnswerInv'
  <2> DEFINE c == e.commitment_id
             r == records[c].response
  <2>1. /\ cont[e] = "answering" /\ cont' = [cont EXCEPT ![e] = "pop"]
        /\ records' = records /\ c \in Commitments
        /\ r # None /\ answers[c] = <<>>
        /\ answers' \in {answers, [answers EXCEPT ![c] = Append(answers[c], r)]}
    BY <1>6, EnvelopeFields DEF Answer, store
  <2>2. Append(<<>>, r) = <<r>>
    OBVIOUS
  <2>3. \A d \in Commitments : \/ answers'[d] = <<>>
                               \/ /\ records'[d].response # None
                                  /\ answers'[d] = <<records'[d].response>>
    BY <2>1, <2>2 DEF TypeOK
  <2>4. cont[e] # "idle"
    BY <2>1
  <2>5. Alone' /\ cont'[e] = "pop" /\ \A f \in Envelopes \ {e} : cont'[f] = "idle"
    BY <2>1, <2>4, OwnStepAlone
  <2> QED
    BY <2>3, <2>5
<1>7. ASSUME NEW e \in Envelopes, PopSuccessor(e) PROVE AnswerInv'
  <2> DEFINE done == [cont EXCEPT ![e] = "idle"]
  <2>1. done = [f \in Envelopes |-> "idle"]
    BY <1>7 DEF PopSuccessor, Turn, AtAwait, OneAtATime, TypeOK
  <2>2. answers' = answers
    BY <1>7 DEF PopSuccessor
  <2>3. ASSUME NEW f \in Successors(e), Receive(f, done, held \ {f}) PROVE AnswerInv'
    <3>1. f \in Envelopes
      BY DEF Successors, TypeOK
    <3> HIDE DEF done
    <3> QED
      BY <2>1, <2>2, <2>3, <3>1, ReceiveKeepsAnswers
  <2>4. CASE cont' = done /\ UNCHANGED store
    <3>1. Alone' /\ \A f \in Envelopes : cont'[f] \notin {"acked", "answering"}
      BY <2>1, <2>4 DEF Alone
    <3> QED
      BY <2>2, <2>4, <3>1, QuietKeepsAnswers DEF store
  <2> QED
    BY <1>7, <2>3, <2>4 DEF PopSuccessor, store
<1>8. CASE AbandonMission \/ CompleteMission \/ UNCHANGED vars
  BY <1>8 DEF AbandonMission, CompleteMission, vars, store, ghosts, Alone
<1>9. CASE Restart
  BY <1>9, QuietKeepsAnswers DEF Restart, SoundStore, ghosts, Alone
<1> QED
  BY <1>1, <1>2, <1>3, <1>4, <1>5, <1>6, <1>7, <1>8, <1>9 DEF Next, Handle

LEMMA AnswerInvHolds == SoundStore /\ OneAtATime => (Spec => []AnswerInv)
<1> SUFFICES ASSUME SoundStore, OneAtATime PROVE Spec => []AnswerInv
  OBVIOUS
<1>1. Init => AnswerInv
  BY InitType, EnvelopeFields DEF Init, AnswerInv, Alone
<1>2. AnswerInv /\ TypeOK' /\ [Next]_vars => AnswerInv'
  BY AnswerInvStep
<1> QED
  BY <1>1, <1>2, TypeCorrect, PTL DEF Spec

\* No redelivery, later envelope or restart gives a commitment a second answer, for any
\* outbox, when the store keeps its records and emits do not suspend.
THEOREM AtMostOneAnswerHolds == SoundStore /\ OneAtATime => (Spec => []AtMostOneAnswer)
<1>1. AnswerInv => AtMostOneAnswer
  <2> SUFFICES ASSUME AnswerInv, NEW c \in Commitments PROVE Len(answers[c]) <= 1
    BY DEF AtMostOneAnswer
  <2>1. CASE answers[c] = <<>>
    BY <2>1
  <2>2. CASE answers[c] = <<records[c].response>>
    BY <2>2
  <2> QED
    BY <2>1, <2>2 DEF AnswerInv
<1> QED
  BY <1>1, AnswerInvHolds, PTL

\* What the engine was told is what the Rover will remember, under the same assumptions.
THEOREM AnswerIsRecordedHolds == SoundStore /\ OneAtATime => (Spec => []AnswerIsRecorded)
<1>1. AnswerInv => AnswerIsRecorded
  <2> SUFFICES ASSUME AnswerInv, NEW c \in Commitments, NEW i \in 1..Len(answers[c])
               PROVE  answers[c][i] = records[c].response
    BY DEF AnswerIsRecorded
  <2>1. answers[c] # <<>>
    OBVIOUS
  <2>2. answers[c] = <<records[c].response>>
    BY <2>1 DEF AnswerInv
  <2> QED
    BY <2>2
<1> QED
  BY <1>1, AnswerInvHolds, PTL

-----------------------------------------------------------------------------
(* The mission *)

DrivenInv == Active => /\ mission.owner \in Commitments
                       /\ records[mission.owner].response = "ACCEPT"

\* The verdict behind the mission changes only where a new one is recorded.
LEMMA KeptVerdictKeepsDriven ==
  ASSUME DrivenInv, mission' = mission \/ mission'.status # "active",
         \A c \in Commitments : records'[c].response = records[c].response
  PROVE  DrivenInv'
BY DEF DrivenInv, Active

LEMMA DrivenInvStep ==
  ASSUME SoundStore, AnswerInv, DrivenInv, [Next]_vars
  PROVE  DrivenInv'
<1> USE DEF AnswerInv
<1>1. ASSUME NEW e \in Envelopes, Deliver(e) PROVE DrivenInv'
  BY <1>1, ReceiveKeepsVerdicts, KeptVerdictKeepsDriven DEF Deliver, SameVerdict
<1>2. ASSUME NEW e \in Envelopes, Terminate(e) PROVE DrivenInv'
  <2>1. mission' = mission \/ mission'.status # "active"
    BY <1>2 DEF Terminate, Abandoned, TypeOK, Mission
  <2> QED
    BY <1>2, <2>1, TerminateWrites, KeptVerdictKeepsDriven
<1>3. ASSUME NEW e \in Envelopes, Acknowledge(e) \/ NoResponse(e) \/ Answer(e) PROVE DrivenInv'
  BY <1>3, KeptVerdictKeepsDriven DEF Acknowledge, NoResponse, Answer, store
<1>4. ASSUME NEW e \in Envelopes, Respond(e) PROVE DrivenInv'
  <2> DEFINE c == e.commitment_id
  <2>1. c \in Commitments /\ records[c].response = None /\ None # "ACCEPT"
    BY <1>4, EnvelopeFields, EnvelopesAssumption DEF Respond
  <2>2. Active => mission.owner # c
    BY <2>1 DEF DrivenInv
  <2>3. CASE /\ records'[c].response = "ACCEPT"
             /\ mission' = [task_id |-> e.task_id, owner |-> c, status |-> "active"]
    BY <2>1, <2>3 DEF DrivenInv
  <2>4. CASE mission' = mission \/ mission'.status # "active"
    <3>1. \A d \in Commitments \ {c} : records'[d] = records[d]
      BY <1>4, RespondWrites
    <3> QED
      BY <2>2, <2>4, <3>1 DEF DrivenInv, Active
  <2> QED
    BY <1>4, <2>3, <2>4, RespondWrites
<1>5. ASSUME NEW e \in Envelopes, PopSuccessor(e) PROVE DrivenInv'
  <2>1. Successors(e) \subseteq Envelopes
    BY DEF Successors, TypeOK
  <2>2. \A c \in Commitments : records'[c].response = records[c].response
    BY <1>5, <2>1, ReceiveKeepsVerdicts DEF PopSuccessor, store, SameVerdict
  <2> QED
    BY <1>5, <2>2, KeptVerdictKeepsDriven DEF PopSuccessor
<1>6. CASE AbandonMission \/ CompleteMission \/ Restart \/ UNCHANGED vars
  <2>1. mission' = mission \/ mission'.status # "active"
    BY <1>6 DEF AbandonMission, CompleteMission, Restart, Abandoned, NoMission, vars,
                TypeOK, Mission
  <2>2. records' = records
    BY <1>6 DEF AbandonMission, CompleteMission, Restart, SoundStore, vars, store
  <2> QED
    BY <2>1, <2>2, KeptVerdictKeepsDriven
<1> QED
  BY <1>1, <1>2, <1>3, <1>4, <1>5, <1>6 DEF Next, Handle

\* The Rover drives an engine mission only for a commitment whose recorded answer is
\* ACCEPT, for any outbox, when the store keeps its records and emits do not suspend.
THEOREM DrivenIsAcceptedHolds == SoundStore /\ OneAtATime => (Spec => []DrivenIsAccepted)
<1> SUFFICES ASSUME SoundStore, OneAtATime PROVE Spec => []DrivenIsAccepted
  OBVIOUS
<1>1. Init => DrivenInv
  BY DEF Init, DrivenInv, Active, NoMission
<1>2. AnswerInv /\ DrivenInv /\ [Next]_vars => DrivenInv'
  BY DrivenInvStep
<1>3. DrivenInv => DrivenIsAccepted
  BY DEF DrivenInv, DrivenIsAccepted
<1>4. Spec => []AnswerInv
  BY AnswerInvHolds
<1> QED
  BY <1>1, <1>2, <1>3, <1>4, PTL DEF Spec

\* All the OFFERs the engine makes under one commitment are for one task.
OneTaskPerCommitment ==
  \A e, f \in Envelopes :
    e.command = "OFFER" /\ f.command = "OFFER" /\ e.commitment_id = f.commitment_id
      => e.task_id = f.task_id

\* The mission is for the task its commitment was offered for and is recorded with, and no
\* handler carries a tombstoned commitment to an answer.
WithdrawnInv ==
  /\ Active =>
       /\ mission.task_id = records[mission.owner].task_id /\ mission.task_id # None
       /\ ~records[mission.owner].tombstoned
       /\ \E e \in Envelopes : /\ e.command = "OFFER" /\ e.commitment_id = mission.owner
                               /\ e.task_id = mission.task_id
  /\ \A e \in Envelopes :
       /\ cont[e] \in {"admitted", "acked"} => ~records[e.commitment_id].tombstoned
       /\ cont[e] = "acked" => e.command = "OFFER"
       /\ cont[e] \in {"admitted", "acked"} /\ e.command = "OFFER"
            => records[e.commitment_id].task_id = e.task_id

\* A step that starts no mission and no handler and changes neither tasks nor tombstones.
LEMMA KeptStoreKeepsWithdrawn ==
  ASSUME WithdrawnInv, DrivenInv, mission' = mission \/ mission'.status # "active",
         \A c \in Commitments : /\ records'[c].tombstoned = records[c].tombstoned
                                /\ records'[c].task_id = records[c].task_id,
         \A e \in Envelopes : \/ cont'[e] = cont[e]
                              \/ cont'[e] \notin {"admitted", "acked"}
                              \/ /\ cont[e] = "admitted" /\ cont'[e] = "acked"
                                 /\ e.command = "OFFER"
  PROVE  WithdrawnInv'
BY EnvelopeFields DEF WithdrawnInv, DrivenInv, Active

\* Receiving an envelope, with no other handler under way.
LEMMA ReceiveKeepsWithdrawn ==
  ASSUME SoundStore, OneTaskPerCommitment, TypeOK, DrivenInv, WithdrawnInv,
         NEW e \in Envelopes, NEW conts, NEW hold, Receive(e, conts, hold),
         mission' = mission, conts = [f \in Envelopes |-> "idle"]
  PROVE  WithdrawnInv'
<1> DEFINE c == e.commitment_id
<1>1. CASE UNCHANGED store /\ cont' = conts
  BY <1>1, KeptStoreKeepsWithdrawn DEF store
<1>2. CASE Admit(e) /\ cont' = [conts EXCEPT ![e] = "admitted"]
  <2>1. /\ records' = [records EXCEPT ![c] = Marked(e)]
        /\ Marked(e).tombstoned = records[c].tombstoned
        /\ e.command # "OFFER" => Marked(e).task_id = records[c].task_id
        /\ e.command = "OFFER" => Marked(e).task_id = e.task_id
    BY <1>2, AdmitWrites
  <2>2. c \in Commitments /\ ~records[c].tombstoned
    BY <1>2, EnvelopeFields DEF Admit, Open
  <2>3. \A d \in Commitments : /\ records'[d].tombstoned = records[d].tombstoned
                               /\ d # c => records'[d].task_id = records[d].task_id
    BY <2>1, <2>2 DEF TypeOK
  <2>4. Active /\ mission.owner = c /\ e.command = "OFFER" => e.task_id = mission.task_id
    BY DEF WithdrawnInv, OneTaskPerCommitment
  <2>5. records'[c].task_id = IF e.command = "OFFER" THEN e.task_id ELSE records[c].task_id
    BY <2>1, <2>2 DEF TypeOK
  <2>6. Active' => /\ mission'.task_id = records'[mission'.owner].task_id
                   /\ ~records'[mission'.owner].tombstoned
    BY <2>3, <2>4, <2>5 DEF WithdrawnInv, DrivenInv, Active
  <2>7. \A f \in Envelopes \ {e} : cont'[f] = "idle"
    BY <1>2
  <2>8. cont'[e] = "admitted"
    BY <1>2
  <2> QED
    BY <2>2, <2>3, <2>5, <2>6, <2>7, <2>8 DEF WithdrawnInv, Active
<1> QED
  BY <1>1, <1>2, ReceiveAdmits DEF store

LEMMA WithdrawnInvStep ==
  ASSUME SoundStore, OneAtATime, OneTaskPerCommitment,
         AnswerInv, DrivenInv, WithdrawnInv, [Next]_vars
  PROVE  WithdrawnInv'
<1> USE DEF AnswerInv
<1>1. ASSUME NEW e \in Envelopes, Deliver(e) PROVE WithdrawnInv'
  <2>1. cont = [f \in Envelopes |-> "idle"]
    BY <1>1 DEF Deliver, LoopIsFree, AtAwait, OneAtATime, TypeOK
  <2> QED
    BY <1>1, <2>1, ReceiveKeepsWithdrawn DEF Deliver
<1>2. ASSUME NEW e \in Envelopes, Terminate(e) PROVE WithdrawnInv'
  <2> DEFINE c == e.commitment_id
  <2>1. cont[e] = "admitted" /\ cont' = [cont EXCEPT ![e] = "pop"]
    BY <1>2 DEF Terminate
  <2>2. \A f \in Envelopes : cont'[f] \notin {"admitted", "acked"}
    BY <2>1, OwnStepAlone
  <2>3. Active' => mission' = mission /\ ~DrivesTaskOf(c)
    BY <1>2 DEF Terminate, Abandoned, Active, DrivesTaskOf, TypeOK, Mission
  <2>4. Active' => mission.owner # c
    BY <2>3 DEF WithdrawnInv, DrivesTaskOf, Active
  <2>5. \A d \in Commitments \ {c} : records'[d] = records[d]
    BY <1>2, TerminateWrites
  <2> QED
    BY <2>2, <2>3, <2>4, <2>5 DEF WithdrawnInv, DrivenInv, Active
<1>3. ASSUME NEW e \in Envelopes, Acknowledge(e) \/ NoResponse(e) \/ Answer(e)
      PROVE WithdrawnInv'
  <2>1. mission' = mission /\ records' = records
    BY <1>3 DEF Acknowledge, NoResponse, Answer, store
  <2>2. \A f \in Envelopes : \/ cont'[f] = cont[f]
                             \/ cont'[f] \notin {"admitted", "acked"}
                             \/ /\ cont[f] = "admitted" /\ cont'[f] = "acked"
                                /\ f.command = "OFFER"
    BY <1>3 DEF Acknowledge, NoResponse, Answer, TypeOK
  <2> QED
    BY <2>1, <2>2, KeptStoreKeepsWithdrawn
<1>4. ASSUME NEW e \in Envelopes, Respond(e) PROVE WithdrawnInv'
  <2> DEFINE c == e.commitment_id
  <2>1. /\ c \in Commitments /\ cont[e] = "acked" /\ e.command = "OFFER"
        /\ records[c].task_id = e.task_id /\ ~records[c].tombstoned
    BY <1>4, EnvelopeFields DEF Respond, WithdrawnInv
  <2>2. \A d \in Commitments : /\ records'[d].tombstoned = records[d].tombstoned
                               /\ records'[d].task_id = records[d].task_id
    BY <1>4, RespondWrites
  <2>3. \A f \in Envelopes : cont'[f] \notin {"admitted", "acked"}
    <3>1. cont' \in {[cont EXCEPT ![e] = "answering"], [cont EXCEPT ![e] = "pop"]}
      BY <1>4, RespondWrites
    <3>2. cont[e] # "idle"
      BY <2>1
    <3> QED
      BY <3>1, <3>2, OwnStepAlone
  <2>4. CASE /\ mission' = [task_id |-> e.task_id, owner |-> c, status |-> "active"]
             /\ e.task_id # None
    BY <2>1, <2>2, <2>3, <2>4 DEF WithdrawnInv
  <2>5. CASE mission' = mission \/ mission'.status # "active"
    BY <2>2, <2>3, <2>5, KeptStoreKeepsWithdrawn
  <2> QED
    BY <1>4, <2>4, <2>5, RespondWrites
<1>5. ASSUME NEW e \in Envelopes, PopSuccessor(e) PROVE WithdrawnInv'
  <2> DEFINE done == [cont EXCEPT ![e] = "idle"]
  <2>1. done = [f \in Envelopes |-> "idle"] /\ mission' = mission
    BY <1>5 DEF PopSuccessor, Turn, AtAwait, OneAtATime, TypeOK
  <2>2. ASSUME NEW f \in Successors(e), Receive(f, done, held \ {f}) PROVE WithdrawnInv'
    <3>1. f \in Envelopes
      BY DEF Successors, TypeOK
    <3> HIDE DEF done
    <3> QED
      BY <2>1, <2>2, <3>1, ReceiveKeepsWithdrawn
  <2>3. CASE cont' = done /\ UNCHANGED store
    BY <2>1, <2>3, KeptStoreKeepsWithdrawn DEF store
  <2> QED
    BY <1>5, <2>2, <2>3 DEF PopSuccessor, store
<1>6. CASE AbandonMission \/ CompleteMission \/ Restart \/ UNCHANGED vars
  <2>1. mission' = mission \/ mission'.status # "active"
    BY <1>6 DEF AbandonMission, CompleteMission, Restart, Abandoned, NoMission, vars,
                TypeOK, Mission
  <2>2. records' = records
    BY <1>6 DEF AbandonMission, CompleteMission, Restart, SoundStore, vars, store
  <2>3. cont' = cont \/ \A e \in Envelopes : cont'[e] = "idle"
    BY <1>6 DEF AbandonMission, CompleteMission, Restart, vars
  <2> QED
    BY <2>1, <2>2, <2>3, KeptStoreKeepsWithdrawn
<1> QED
  BY <1>1, <1>2, <1>3, <1>4, <1>5, <1>6 DEF Next, Handle

\* A withdrawn commitment is not driven, for any outbox whose commitments are each for one
\* task, when the store keeps its records and emits do not suspend.
THEOREM WithdrawnIsNotDrivenHolds ==
  SoundStore /\ OneAtATime /\ OneTaskPerCommitment => (Spec => []WithdrawnIsNotDriven)
<1> SUFFICES ASSUME SoundStore, OneAtATime, OneTaskPerCommitment
             PROVE  Spec => []WithdrawnIsNotDriven
  OBVIOUS
<1> DEFINE Inv == DrivenInv /\ WithdrawnInv
<1>1. Init => Inv
  BY DEF Init, DrivenInv, WithdrawnInv, Active, NoMission
<1>2. AnswerInv /\ Inv /\ [Next]_vars => Inv'
  BY DrivenInvStep, WithdrawnInvStep
<1>3. Inv => WithdrawnIsNotDriven
  BY DEF WithdrawnInv, WithdrawnIsNotDriven
<1>4. Spec => []AnswerInv
  BY AnswerInvHolds
<1> QED
  BY <1>1, <1>2, <1>3, <1>4, PTL DEF Spec

-----------------------------------------------------------------------------
(* What the engine may rely on *)

\* The commitment the contract takes for the one being driven.
Driving == IF Active THEN mission.owner ELSE None

\* A step that changes no verdict, tombstone or answer, and at most ends the mission.
LEMMA QuietKeepsContract ==
  ASSUME \A c \in Commitments : SameVerdict(c), answers' = answers,
         Driving' \in {Driving, None}
  PROVE  [Contract!Next]_(Contract!vars)
BY DEF SameVerdict, Driving, Contract!Next, Contract!Leave, Contract!vars

\* An ended mission is no longer driven, another stays what it was.
LEMMA EndedOrKept ==
  ASSUME mission' = mission \/ mission'.status # "active"
  PROVE  Driving' \in {Driving, None}
BY DEF Driving, Active

\* Recording the answer to an OFFER decides the commitment.
LEMMA RespondDecides ==
  ASSUME SoundStore, AnswerInv, WithdrawnInv, NEW e \in Envelopes, Respond(e)
  PROVE  [Contract!Next]_(Contract!vars)
<1> DEFINE c == e.commitment_id
<1>1. /\ c \in Commitments /\ records[c].response = None /\ ~records[c].tombstoned
      /\ answers' = answers
  BY EnvelopeFields DEF Respond, AnswerInv, WithdrawnInv, ghosts
<1>2. /\ \A d \in Commitments \ {c} : records'[d] = records[d]
      /\ records'[c].tombstoned = records[c].tombstoned
  BY RespondWrites DEF AnswerInv
<1>3. [d \in Commitments |-> records'[d].tombstoned]
        = [d \in Commitments |-> records[d].tombstoned]
  BY <1>1, <1>2
<1>4. ASSUME NEW v, records'[c].response = v
      PROVE  [d \in Commitments |-> records'[d].response]
               = [[d \in Commitments |-> records[d].response] EXCEPT ![c] = v]
  BY <1>1, <1>2, <1>4
<1>5. CASE /\ records'[c].response = "ACCEPT"
           /\ mission' = [task_id |-> e.task_id, owner |-> c, status |-> "active"]
           /\ ~Active
  <2>1. Driving = None /\ Driving' = c
    BY <1>5 DEF Driving, Active
  <2>2. Contract!Decide(c)
    BY <1>1, <1>3, <1>4, <1>5, <2>1 DEF Contract!Decide, Driving
  <2> QED
    BY <1>1, <2>2 DEF Contract!Next
<1>6. CASE records'[c].response = "REJECT" /\ mission' = mission
  <2>1. Driving' = Driving
    BY <1>6 DEF Driving, Active
  <2>2. Contract!Decide(c)
    BY <1>1, <1>3, <1>4, <1>6, <2>1 DEF Contract!Decide, Driving
  <2> QED
    BY <1>1, <2>2 DEF Contract!Next
<1>7. CASE /\ records'[c].response = records[c].response
           /\ mission' = mission \/ mission'.status # "active"
  BY <1>1, <1>2, <1>7, EndedOrKept, QuietKeepsContract DEF SameVerdict
<1> QED
  BY <1>5, <1>6, <1>7, RespondWrites DEF AnswerInv

\* A WITHDRAW, RECALL or ABORT_MISSION ends the commitment, or at most its mission.
LEMMA TerminateEnds ==
  ASSUME SoundStore, AnswerInv, WithdrawnInv, WithdrawnInv', DrivenInv',
         NEW e \in Envelopes, Terminate(e)
  PROVE  [Contract!Next]_(Contract!vars)
<1> DEFINE c == e.commitment_id
           ended == [records[c] EXCEPT !.tombstoned = TRUE]
<1>1. /\ c \in Commitments /\ None \notin Commitments /\ answers' = answers
      /\ records[c] \in Record /\ TypeOK
  BY EnvelopeFields, RecordOf, EnvelopesAssumption DEF Terminate, AnswerInv
<1>2. Driving' \in {Driving, None}
  <2>1. mission' = mission \/ mission'.status # "active"
    BY <1>1 DEF Terminate, Abandoned, TypeOK, Mission
  <2> QED
    BY <2>1, EndedOrKept
<1>3. \/ records' = [records EXCEPT ![c] = ended]
      \/ records' = records
  BY <1>1, UpdateOne DEF Terminate, Tombstone, store
<1>4. CASE records' = records
  BY <1>1, <1>2, <1>4, QuietKeepsContract DEF SameVerdict
<1>5. CASE records' = [records EXCEPT ![c] = ended]
  <2>1. ended.tombstoned = TRUE /\ ended.response = records[c].response
    BY <1>1 DEF Record
  <2>2. records'[c] = ended /\ \A d \in Commitments \ {c} : records'[d] = records[d]
    BY <1>1, <1>5 DEF TypeOK
  <2>3. [d \in Commitments |-> records'[d].response]
          = [d \in Commitments |-> records[d].response]
    BY <2>1, <2>2
  <2>4. [d \in Commitments |-> records'[d].tombstoned]
          = [[d \in Commitments |-> records[d].tombstoned] EXCEPT ![c] = TRUE]
    BY <2>1, <2>2
  <2>5. Driving' # c
    BY <1>1, <2>1, <2>2 DEF WithdrawnInv, Driving, Active
  <2>6. Contract!End(c)
    BY <1>1, <1>2, <2>3, <2>4, <2>5 DEF Contract!End, Driving
  <2> QED
    BY <1>1, <2>6 DEF Contract!Next
<1> QED
  BY <1>3, <1>4, <1>5

\* The emit of a recorded answer tells the engine, or nothing happens.
LEMMA AnswerTells ==
  ASSUME AnswerInv, NEW e \in Envelopes, Answer(e)
  PROVE  [Contract!Next]_(Contract!vars)
<1> DEFINE c == e.commitment_id
           r == records[c].response
<1>1. /\ c \in Commitments /\ r # None /\ answers[c] = <<>> /\ TypeOK
      /\ records' = records /\ mission' = mission
      /\ answers' \in {answers, [answers EXCEPT ![c] = Append(answers[c], r)]}
  BY EnvelopeFields DEF Answer, AnswerInv, store
<1>2. Append(<<>>, r) = <<r>>
  OBVIOUS
<1>3. CASE answers' = answers
  BY <1>1, <1>3, EndedOrKept, QuietKeepsContract DEF SameVerdict
<1>4. CASE answers' = [answers EXCEPT ![c] = Append(answers[c], r)]
  <2>1. Contract!Tell(c)
    BY <1>1, <1>2, <1>4 DEF Contract!Tell, Active
  <2> QED
    BY <1>1, <2>1 DEF Contract!Next
<1> QED
  BY <1>1, <1>3, <1>4

LEMMA ContractStep ==
  ASSUME SoundStore, AnswerInv, WithdrawnInv, WithdrawnInv', DrivenInv', [Next]_vars
  PROVE  [Contract!Next]_(Contract!vars)
<1> USE DEF AnswerInv
<1>1. ASSUME NEW e \in Envelopes, Deliver(e) PROVE [Contract!Next]_(Contract!vars)
  BY <1>1, ReceiveKeepsVerdicts, EndedOrKept, QuietKeepsContract DEF Deliver
<1>2. ASSUME NEW e \in Envelopes, Acknowledge(e) \/ NoResponse(e)
      PROVE  [Contract!Next]_(Contract!vars)
  BY <1>2, EndedOrKept, QuietKeepsContract
     DEF Acknowledge, NoResponse, store, ghosts, SameVerdict
<1>3. ASSUME NEW e \in Envelopes, PopSuccessor(e) PROVE [Contract!Next]_(Contract!vars)
  <2>1. Successors(e) \subseteq Envelopes
    BY DEF Successors, TypeOK
  <2>2. \A c \in Commitments : SameVerdict(c)
    BY <1>3, <2>1, ReceiveKeepsVerdicts DEF PopSuccessor, store, SameVerdict
  <2> QED
    BY <1>3, <2>2, EndedOrKept, QuietKeepsContract DEF PopSuccessor
<1>4. CASE AbandonMission \/ CompleteMission \/ Restart \/ UNCHANGED vars
  <2>1. mission' = mission \/ mission'.status # "active"
    BY <1>4 DEF AbandonMission, CompleteMission, Restart, Abandoned, NoMission, vars,
                TypeOK, Mission
  <2>2. records' = records /\ answers' = answers
    BY <1>4 DEF AbandonMission, CompleteMission, Restart, SoundStore, vars, store, ghosts
  <2> QED
    BY <2>1, <2>2, EndedOrKept, QuietKeepsContract DEF SameVerdict
<1> QED
  BY <1>1, <1>2, <1>3, <1>4, RespondDecides, TerminateEnds, AnswerTells DEF Next, Handle

\* The channel implements the contract: whatever is redelivered, reordered, lost or killed,
\* each commitment is decided once, told once as decided, and driven only between its
\* acceptance and its end.  For any outbox whose commitments are each for one task, when
\* the store keeps its records and emits do not suspend.
THEOREM KeepsContractHolds ==
  SoundStore /\ OneAtATime /\ OneTaskPerCommitment => (Spec => KeepsContract)
<1> SUFFICES ASSUME SoundStore, OneAtATime, OneTaskPerCommitment
             PROVE  Spec => KeepsContract
  OBVIOUS
<1> DEFINE Inv == DrivenInv /\ WithdrawnInv
<1>1. Init => Inv
  BY DEF Init, DrivenInv, WithdrawnInv, Active, NoMission
<1>2. AnswerInv /\ Inv /\ [Next]_vars => Inv'
  BY DrivenInvStep, WithdrawnInvStep
<1>3. Init => Contract!Init
  BY DEF Init, Contract!Init, Fresh, Active, NoMission
<1>4. AnswerInv /\ Inv /\ Inv' /\ [Next]_vars => [Contract!Next]_(Contract!vars)
  BY ContractStep
<1>5. Spec => []AnswerInv
  BY AnswerInvHolds
<1> QED
  BY <1>1, <1>2, <1>3, <1>4, <1>5, PTL DEF Spec, KeepsContract, Contract!Spec
=============================================================================
