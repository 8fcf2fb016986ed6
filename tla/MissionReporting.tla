--------------------------- MODULE MissionReporting ---------------------------
(***************************************************************************)
(* What the Rover tells the backend of the mission it carries out: the     *)
(* lease its heartbeats renew, the measured fixes, each handover once, and *)
(* the completion, once and only on evidence (the publish loop of          *)
(* BackendLink, over CommitmentStore and the agent's mission).             *)
(*                                                                         *)
(* The loop runs one step after the other; whatever else happens to the    *)
(* commitments, the mission and the link comes between any two of them.    *)
(* custody_sensing_available is taken as TRUE: the rover as it is built    *)
(* today accepts no OFFER.                                                 *)
(***************************************************************************)
EXTENDS CompletionEvidence

CONSTANTS
  Commitments,    \* commitment ids, each for a delivery of its own
  None,
  Pickup, Drop,   \* where the handovers are
  Path,           \* path_to_pickup and path_to_drop, one after the other
  Strays,         \* where else a fix may place the rover
  MaxAge,         \* max_position_age_s
  MaxClock,       \* bound on time
  MaxFaults,      \* bound on lost links, restarts and failed writes
  WriteOutcomes   \* what writing the store may return

ASSUME ReportingAssumption ==
  /\ None \notin Commitments
  /\ {Pickup, Drop, MaxAge, MaxClock, MaxFaults} \cup Strays \subseteq Nat
  /\ Path \in Seq(Nat) /\ Len(Path) >= 2
  /\ WriteOutcomes \subseteq BOOLEAN

VARIABLES
  records,  \* CommitmentStore: on disk and in memory alike
  order,    \* the commitments held, the last one updated last (updated_at)
  mission,  \* the agent's mission; as a ghost, the commitment it is for
  gps,      \* the time, where the rover is, and the last fix it measured
  loop,     \* the publish loop: its next step, whether the link is up, _last_position_sent,
            \* the commitment whose release it is about to report
  tracks,   \* _tracks with _granted_at_ms
  backend,  \* ghost: what was sent to the backend (the lease in the last heartbeat, until the
            \* next message; the fixes since the last grant; custody events and claims), and
            \* how often writing that down failed
  faults    \* how many faults have happened

vars == <<records, order, mission, gps, loop, tracks, backend, faults>>

Kinds == {"ACQUIRED", "RELEASED"}
Unanswered == [response |-> "none", tombstoned |-> FALSE, custody_sent |-> <<>>,
               completion |-> "none"]
NoMission == [owner |-> None, status |-> "none", acquired |-> FALSE, released |-> FALSE]
NoFix == [t |-> 0, at |-> -1]
NoTrack == [granted |-> -1, fixes |-> <<>>]

Init ==
  /\ records = [c \in Commitments |-> Unanswered]
  /\ order = <<>>
  /\ mission = NoMission
  /\ gps = [clock |-> 1, place |-> 0, fix |-> [t |-> 1, at |-> 0]]
  /\ loop = [next |-> "beat", up |-> TRUE, last_sent |-> 0, seen |-> None]
  /\ tracks = [c \in Commitments |-> NoTrack]
  /\ backend = [leased |-> None, custody |-> [c \in Commitments |-> <<>>],
                completed |-> [c \in Commitments |-> 0],
                fixes |-> <<>>, unrecorded |-> 0]
  /\ faults = 0

Fault == faults < MaxFaults /\ faults' = faults + 1

-----------------------------------------------------------------------------
(* CommitmentStore *)

is_held(r) == r.response = "ACCEPT" /\ ~r.tombstoned /\ r.completion = "none"

\* held(): of the accepted commitments still owed, the last one updated.
held == IF order = <<>> THEN None ELSE order[Len(order)]

Touched(c, r) ==
  LET places == {i \in DOMAIN order : order[i] = c}
      others == IF places = {} THEN order ELSE RemoveAt(order, CHOOSE i \in places : TRUE)
  IN IF is_held(r) THEN Append(others, c) ELSE others

\* Mutant: what was reported is forgotten by the next update of the record.
UpdateForgets(c, r, written) ==
  IF written
  THEN /\ records' = [records EXCEPT ![c] = IF r = @ THEN [r EXCEPT !.custody_sent = <<>>] ELSE r]
       /\ order' = Touched(c, r)
       /\ UNCHANGED faults
  ELSE UNCHANGED <<records, order>> /\ Fault

\* update: the whole record is written, or nothing changes.
Update(c, r, written) ==
  IF written
  THEN /\ records' = [records EXCEPT ![c] = r]
       /\ order' = Touched(c, r)
       /\ UNCHANGED faults
  ELSE UNCHANGED <<records, order>> /\ Fault

-----------------------------------------------------------------------------
(* The engine's commands, the operator, the agent *)

Active == mission.status = "active"
Abandoned(m) == IF m.status = "active" THEN [m EXCEPT !.status = "ABORTED"] ELSE m

\* An admitted OFFER that the Rover accepts; if that cannot be recorded, the mission is
\* stopped again.
Accept(c) ==
  /\ loop.up
  /\ records[c].response = "none" /\ ~Active
  /\ \E written \in WriteOutcomes :
       LET assigned == [NoMission EXCEPT !.owner = c, !.status = "active"]
       IN /\ mission' = IF written THEN assigned ELSE Abandoned(assigned)
          /\ Update(c, [records[c] EXCEPT !.response = "ACCEPT"], written)
          /\ tracks' = IF written THEN [tracks EXCEPT ![c] = [granted |-> gps.clock, fixes |-> <<>>]]
                       ELSE tracks
          /\ backend' = [backend EXCEPT !.fixes = <<>>]
  /\ UNCHANGED <<gps, loop>>

\* Any other admitted command: one without effect, or one that ends the commitment.
Command(c) ==
  /\ loop.up /\ records[c].response # "none"
  /\ Update(c, records[c], TRUE)
  /\ UNCHANGED <<mission, gps, loop, tracks, backend>>

Terminate(c) ==
  /\ loop.up /\ records[c].response # "none" /\ ~records[c].tombstoned
  /\ mission' = IF mission.owner = c THEN Abandoned(mission) ELSE mission
  /\ Update(c, [records[c] EXCEPT !.tombstoned = TRUE], TRUE)
  /\ UNCHANGED <<gps, loop, tracks, backend>>

\* stop_mission, return_to_base: the commitment's record does not learn of it.
Abandon ==
  /\ Active
  /\ mission' = Abandoned(mission)
  /\ UNCHANGED <<records, order, gps, loop, tracks, backend, faults>>

\* record_custody, and the mission's end at the tick after the release.
RecordCustody ==
  /\ Active
  /\ \/ ~mission.acquired /\ gps.place = Pickup /\ mission' = [mission EXCEPT !.acquired = TRUE]
     \/ /\ mission.acquired /\ ~mission.released /\ gps.place = Drop
        /\ mission' = [mission EXCEPT !.released = TRUE]
     \/ mission.released /\ mission' = [mission EXCEPT !.status = "COMPLETE"]
  /\ UNCHANGED <<records, order, gps, loop, tracks, backend, faults>>

\* Time passes; the rover moves, and a fix is measured, off the path perhaps, or is not.
Tick ==
  /\ gps.clock < MaxClock
  /\ \E p \in gps.place..(gps.place + 1) : \E at \in {p, -1} \cup Strays :
       /\ p \in 0..Drop
       /\ gps' = [clock |-> gps.clock + 1, place |-> p,
                  fix |-> IF at = -1 THEN gps.fix ELSE [t |-> gps.clock + 1, at |-> at]]
  /\ UNCHANGED <<records, order, mission, loop, tracks, backend, faults>>

-----------------------------------------------------------------------------
(* The publish loop *)

\* Mutant: an aborted mission is spoken for until its commitment ends.
HeldThoughAborted == IF held # None /\ mission.owner = held THEN held ELSE None

\* _held_mission: the held commitment, if the mission is the one for it and not aborted.
HeldMission ==
  IF held # None /\ mission.owner = held /\ mission.status # "ABORTED" THEN held ELSE None

After(step) == [loop EXCEPT !.next = step]

\* _publish_heartbeat, when it is due: with the lease, or without one.
Heartbeat ==
  /\ loop.next = "beat"
  /\ loop' = After("telemetry")
  /\ backend' \in {backend, [backend EXCEPT !.leased = IF loop.up THEN HeldMission ELSE @]}
  /\ UNCHANGED <<records, order, mission, gps, tracks, faults>>

\* Mutant: a fix counts as sent, whether the frame left or not.
FixLeavesAnyway == gps.fix # NoFix /\ gps.clock - gps.fix.t <= MaxAge /\ gps.fix.t > loop.last_sent

\* build_telemetry_payload: a measured fix goes out once, and only while it is fresh.
FixLeaves == /\ loop.up
             /\ gps.fix # NoFix
             /\ gps.clock - gps.fix.t <= MaxAge
             /\ gps.fix.t > loop.last_sent

\* _publish_telemetry, when it is due: a fix that left is evidence for the held commitment.
Telemetry ==
  /\ loop.next = "telemetry"
  /\ \/ /\ loop' = After("ACQUIRED")
        /\ backend' = [backend EXCEPT !.leased = None]
        /\ UNCHANGED tracks
     \/ /\ FixLeaves
        /\ loop' = [After("ACQUIRED") EXCEPT !.last_sent = gps.fix.t]
        /\ tracks' = IF held # None /\ tracks[held] # NoTrack
                     THEN [tracks EXCEPT ![held].fixes = Append(@, gps.fix)] ELSE tracks
        /\ backend' = [backend EXCEPT !.leased = None,
                                 !.fixes = IF loop.up THEN Append(@, gps.fix) ELSE @]
  /\ UNCHANGED <<records, order, mission, gps, faults>>

Happened(kind) == IF kind = "ACQUIRED" THEN mission.acquired ELSE mission.released
Reported(c, kind) == \E i \in DOMAIN records[c].custody_sent : records[c].custody_sent[i] = kind

\* What follows a message that left: the update that records it is written, or is not.
Sent(written) == [backend EXCEPT !.unrecorded = IF written THEN @ ELSE @ + 1]

\* One handover: sent, then recorded as sent.
Report(c, kind) ==
  IF c # None /\ ~Reported(c, kind) /\ loop.up
  THEN \E written \in WriteOutcomes :
         /\ backend' = [Sent(written) EXCEPT !.custody[c] = Append(@, kind)]
         /\ Update(c, [records[c] EXCEPT !.custody_sent = Append(@, kind)], written)
  ELSE UNCHANGED <<records, order, backend, faults>>

\* Mutant: the release is looked for while the mission is active.
SeenActive == IF mission.released /\ Active THEN HeldMission ELSE None

\* _publish_custody looks at the record and the mission once, for both handovers.
Seen == IF mission.released THEN HeldMission ELSE None

Custody ==
  /\ \/ /\ loop.next = "ACQUIRED"
        /\ loop' = [After("RELEASED") EXCEPT !.seen = Seen]
        /\ Report(IF mission.acquired THEN HeldMission ELSE None, "ACQUIRED")
     \/ /\ loop.next = "RELEASED"
        /\ loop' = [After("complete") EXCEPT !.seen = None]
        /\ Report(loop.seen, "RELEASED")
  /\ UNCHANGED <<mission, gps, tracks>>

Claimable(c) == mission.status = "COMPLETE" /\ Reported(c, "RELEASED")
Evidence(c) ==
  /\ tracks[c] # NoTrack
  /\ Sufficient(tracks[c].fixes, tracks[c].granted, gps.clock, Drop, Path)

EndOfLoop == After(IF loop.up THEN "beat" ELSE "off")

\* _publish_task_complete: withheld without evidence; else sent, then recorded as sent.
Settle(c, written) ==
  /\ backend' = IF Evidence(c) THEN [Sent(written) EXCEPT !.completed[c] = @ + 1] ELSE backend
  /\ Update(c, [records[c] EXCEPT !.completion = IF Evidence(c) THEN "SENT" ELSE "WITHHELD"],
            written)

Complete ==
  /\ loop.next = "complete"
  /\ loop' = EndOfLoop
  /\ LET c == HeldMission IN
     IF c # None /\ Claimable(c) /\ (loop.up \/ ~Evidence(c))
     THEN \E written \in WriteOutcomes : Settle(c, written)
     ELSE UNCHANGED <<records, order, backend, faults>>
  /\ UNCHANGED <<mission, gps, tracks>>

-----------------------------------------------------------------------------
(* The link and the process *)

LinkLost ==
  /\ loop.up /\ Fault
  /\ loop' = [loop EXCEPT !.up = FALSE]
  /\ UNCHANGED <<records, order, mission, gps, tracks, backend>>

\* Authenticated again: the loop starts over.
LinkBack ==
  /\ ~loop.up /\ loop.next = "off"
  /\ loop' = [loop EXCEPT !.up = TRUE, !.next = "beat"]
  /\ UNCHANGED <<records, order, mission, gps, tracks, backend, faults>>

\* What is in memory is gone: the mission, the tracks, the last fix sent.
Restart ==
  /\ Fault
  /\ mission' = NoMission
  /\ tracks' = [c \in Commitments |-> NoTrack]
  /\ loop' = [next |-> "off", up |-> FALSE, last_sent |-> 0, seen |-> None]
  /\ gps' = [gps EXCEPT !.fix = NoFix]
  /\ UNCHANGED <<records, order, backend>>

Publish == Heartbeat \/ Telemetry \/ Custody \/ Complete

Next ==
  \/ \E c \in Commitments : Accept(c) \/ Command(c) \/ Terminate(c)
  \/ Abandon \/ RecordCustody \/ Tick
  \/ Publish
  \/ LinkLost \/ LinkBack \/ Restart

Spec == Init /\ [][Next]_vars

\* The loop goes on, and the session finds its way back (BackendSession).
FairSpec == Spec /\ WF_vars(Publish) /\ WF_vars(LinkBack)

-----------------------------------------------------------------------------
(* Properties *)

\* The Rover has given up the commitment: it is over, or its mission is stopped or lost.
Over(c) == /\ records[c].response = "ACCEPT"
           /\ records[c].tombstoned \/ mission.owner # c \/ mission.status = "ABORTED"

\* No heartbeat renews the lease of a commitment that the Rover has given up, whatever the
\* commands, the operator, a restart or a second commitment did to the records since.
LeaseIsDriven ==
  [][\A c \in Commitments :
       Over(c) /\ backend'.leased = c => backend.leased = c]_vars

Count(c, kind) == Cardinality({i \in DOMAIN backend.custody[c] : backend.custody[c][i] = kind})

\* Each handover is reported once, the release never before the parcel was taken over, over
\* lost links, restarts and renewed missions; again only when recording the report failed.
HandoverReportedOnce ==
  \A c \in Commitments :
    /\ \A kind \in Kinds : Count(c, kind) <= 1 + backend.unrecorded
    /\ Count(c, "RELEASED") > 0 => backend.custody[c][1] = "ACQUIRED"

\* A completion is claimed for a delivery both of whose handovers were reported, once
\* unless recording the claim failed, and on sufficient fixes that were sent, all of them,
\* since the last grant.
AllSent(track) == \A i \in DOMAIN track : \E j \in DOMAIN backend.fixes : backend.fixes[j] = track[i]
ClaimIsProven ==
  [][\A c \in Commitments : backend'.completed[c] > backend.completed[c] =>
       /\ Count(c, "ACQUIRED") > 0 /\ Count(c, "RELEASED") > 0
       /\ backend.completed[c] <= backend.unrecorded
       /\ Sufficient(tracks[c].fixes, tracks[c].granted, gps.clock, Drop, Path)
       /\ AllSent(tracks[c].fixes)]_vars

\* A claim meets the backend's evidence bar: the five conditions hold of the fixes actually
\* sent since the grant (evidence.py), of every one of them.
ClaimMeetsEvidenceBar ==
  [][\A c \in Commitments : backend'.completed[c] > backend.completed[c] =>
       Sufficient(backend.fixes, tracks[c].granted, gps.clock, Drop, Path)]_vars

\* A handover of the mission that the Rover speaks for is reported, or it stops speaking
\* for it.
HandoverIsReported ==
  \A c \in Commitments, kind \in Kinds :
    HeldMission = c /\ Happened(kind) ~> Reported(c, kind) \/ HeldMission # c

\* A mission that is complete is claimed or withheld: its commitment is not held for ever.
CompletionIsDecided ==
  \A c \in Commitments : HeldMission = c /\ mission.status = "COMPLETE" ~> HeldMission # c

\* Nothing the backend waits for stays unsaid while the Rover speaks for the mission, over
\* lost links and failed writes: neither a handover, nor how the delivery ended.
NothingStaysUnsaid == HandoverIsReported /\ CompletionIsDecided
=============================================================================
