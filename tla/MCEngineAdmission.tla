-------------------------- MODULE MCEngineAdmission --------------------------
(***************************************************************************)
(* EngineAdmission with a small outbox: two commitments for one delivery,  *)
(* one offered twice and with a gap of two to hold across.                 *)
(***************************************************************************)
EXTENDS EngineAdmission

CONSTANTS c1, c2, t1

MCCommitments == {c1, c2}
MCTasks == {t1}

Outbox(id, command, c, sequence, fence, task) ==
  [outbox_id |-> id, command |-> command, commitment_id |-> c, fence |-> fence,
   fence_floor |-> -1, sequence |-> sequence, task_id |-> task]

\* c1: an OFFER, sent again under a new fence and sequence, a command without effect and
\* the WITHDRAW.  c2, for the same task: an OFFER, its end, and one below its fence floor.
MCEnvelopes ==
  {Outbox(1, "OFFER", c1, 0, 10, t1),
   Outbox(2, "OFFER", c1, 1, 11, t1),
   Outbox(3, "NO_EFFECT", c1, 2, 12, None),
   Outbox(4, "WITHDRAW", c1, 3, 13, None),
   Outbox(5, "OFFER", c2, 0, 10, t1),
   Outbox(6, "ABORT_MISSION", c2, 1, 11, None),
   [Outbox(7, "RECALL", c2, 1, 12, None) EXCEPT !.fence_floor = 12]}

\* For liveness with handlers that interleave: an OFFER sent again and the WITHDRAW; an OFFER
\* and its end.  Either commitment can fill the hold queue against the other.
ShortOutbox ==
  {Outbox(1, "OFFER", c1, 0, 10, t1),
   Outbox(2, "OFFER", c1, 1, 11, t1),
   Outbox(3, "WITHDRAW", c1, 2, 12, None),
   Outbox(4, "OFFER", c2, 0, 10, t1),
   Outbox(5, "ABORT_MISSION", c2, 1, 11, None)}
=============================================================================
