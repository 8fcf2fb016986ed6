----------------------- MODULE MissionReporting_proofs -----------------------
(***************************************************************************)
(* Proofs about MissionReporting, for all commitments, places, thresholds  *)
(* and faults: no heartbeat renews the lease of a commitment that the      *)
(* Rover has given up, each handover is told once, and a completion is     *)
(* claimed once and on fixes that were sent.                               *)
(***************************************************************************)
EXTENDS MissionReporting, SequenceTheorems, FiniteSetTheorems, TLAPS

(***************************************************************************)
(* The inductive invariant.  What is listed as held is held, and listed    *)
(* once: an update that ends a commitment takes it off the list.           *)
(***************************************************************************)
Listed(s, r) ==
  /\ s \in Seq(Commitments)
  /\ \A i, j \in DOMAIN s : s[i] = s[j] => i = j
  /\ \A i \in DOMAIN s : is_held(r[s[i]])
IsLoop(l) ==
  /\ l = [next |-> l.next, up |-> l.up, last_sent |-> l.last_sent, seen |-> l.seen]
  /\ l.seen \in Commitments \cup {None}
IsBackend(b) ==
  b = [leased |-> b.leased, custody |-> b.custody, completed |-> b.completed,
       fixes |-> b.fixes, unrecorded |-> b.unrecorded]
IInv ==
  /\ DOMAIN records = Commitments
  /\ Listed(order, records)
  /\ IsLoop(loop)
  /\ IsBackend(backend)

(***************************************************************************)
(* The list.                                                               *)
(***************************************************************************)
LEMMA RemoveAtProperties ==
  ASSUME NEW S, NEW s \in Seq(S), NEW n \in DOMAIN s
  PROVE  /\ RemoveAt(s, n) \in Seq(S)
         /\ Len(RemoveAt(s, n)) = Len(s) - 1
         /\ \A i \in 1..Len(s) - 1 :
              RemoveAt(s, n)[i] = s[IF i < n THEN i ELSE i + 1]
<1>1. Len(s) \in Nat /\ n \in 1..Len(s) /\ \A i \in 1..Len(s) : s[i] \in S
  BY LenProperties
<1> DEFINE front == SubSeq(s, 1, n - 1)
           rest == SubSeq(s, n + 1, Len(s))
<1>2. /\ front \in Seq(S) /\ Len(front) = n - 1
      /\ \A i \in 1..n - 1 : front[i] = s[i]
  BY <1>1, SubSeqProperties
<1>3. /\ rest \in Seq(S) /\ Len(rest) = Len(s) - n
      /\ \A i \in 1..Len(s) - n : rest[i] = s[n + i]
  <2>1. n + 1 \in Int /\ Len(s) \in Int /\ \A i \in (n + 1)..Len(s) : s[i] \in S
    BY <1>1
  <2>2. /\ rest \in Seq(S) /\ Len(rest) = IF n + 1 <= Len(s) THEN Len(s) - (n + 1) + 1 ELSE 0
        /\ \A i \in 1..(Len(s) - (n + 1) + 1) : rest[i] = s[(n + 1) + i - 1]
    BY <2>1, SubSeqProperties
  <2> HIDE DEF rest
  <2> QED
    BY <1>1, <2>2
<1> HIDE DEF front, rest
<1>4. /\ front \o rest \in Seq(S) /\ Len(front \o rest) = Len(s) - 1
      /\ \A i \in 1..Len(s) - 1 :
           (front \o rest)[i] = IF i <= n - 1 THEN front[i] ELSE rest[i - (n - 1)]
  <2>1. /\ front \o rest \in Seq(S) /\ Len(front \o rest) = Len(front) + Len(rest)
        /\ \A i \in 1..Len(front) + Len(rest) :
             (front \o rest)[i] = IF i <= Len(front) THEN front[i] ELSE rest[i - Len(front)]
    BY <1>2, <1>3, ConcatProperties
  <2>2. Len(front) + Len(rest) = Len(s) - 1
    BY <1>1, <1>2, <1>3
  <2> QED
    BY <1>2, <2>1, <2>2
<1>5. \A i \in 1..Len(s) - 1 : (front \o rest)[i] = s[IF i < n THEN i ELSE i + 1]
  <2> TAKE i \in 1..Len(s) - 1
  <2>1. CASE i < n
    BY <1>1, <1>2, <1>4, <2>1
  <2>2. CASE ~(i < n)
    <3>1. i - (n - 1) \in 1..Len(s) - n /\ n + (i - (n - 1)) = i + 1
      BY <1>1, <2>2
    <3>2. rest[i - (n - 1)] = s[i + 1]
      BY <1>3, <3>1
    <3>3. ~(i <= n - 1)
      BY <1>1, <2>2
    <3> QED
      BY <1>4, <2>2, <3>2, <3>3
  <2> QED
    BY <2>1, <2>2
<1> QED
  BY <1>4, <1>5 DEF RemoveAt, front, rest

LEMMA WithoutProperties ==
  ASSUME NEW s \in Seq(Commitments), \A i, j \in DOMAIN s : s[i] = s[j] => i = j,
         NEW n \in DOMAIN s
  PROVE  LET t == RemoveAt(s, n)
         IN /\ t \in Seq(Commitments)
            /\ \A i, j \in DOMAIN t : t[i] = t[j] => i = j
            /\ \A i \in DOMAIN t : t[i] # s[n] /\ \E j \in DOMAIN s : t[i] = s[j]
<1> DEFINE t == RemoveAt(s, n)
<1>1. /\ t \in Seq(Commitments) /\ Len(t) = Len(s) - 1
      /\ \A i \in 1..Len(s) - 1 : t[i] = s[IF i < n THEN i ELSE i + 1]
  BY RemoveAtProperties
<1> HIDE DEF t
<1>2. DOMAIN t = 1..Len(s) - 1 /\ DOMAIN s = 1..Len(s) /\ Len(s) \in Nat
  BY <1>1, LenProperties
<1>3. \A i \in DOMAIN t : \E j \in DOMAIN s :
        t[i] = s[j] /\ j # n /\ j = IF i < n THEN i ELSE i + 1
  BY <1>1, <1>2
<1>4. ASSUME NEW i \in DOMAIN t, NEW j \in DOMAIN t, t[i] = t[j] PROVE i = j
  <2>1. (IF i < n THEN i ELSE i + 1) = (IF j < n THEN j ELSE j + 1)
    BY <1>3, <1>4
  <2> QED
    BY <1>2, <2>1
<1>5. \A i \in DOMAIN t : t[i] # s[n] /\ \E j \in DOMAIN s : t[i] = s[j]
  BY <1>3
<1> QED
  BY <1>1, <1>4, <1>5 DEF t

LEMMA TouchedProperties ==
  ASSUME IInv, NEW c \in Commitments, NEW r
  PROVE  Listed(Touched(c, r), [records EXCEPT ![c] = r])
<1> DEFINE places == {i \in DOMAIN order : order[i] = c}
           others == IF places = {} THEN order ELSE RemoveAt(order, CHOOSE i \in places : TRUE)
           new == [records EXCEPT ![c] = r]
<1>1. /\ others \in Seq(Commitments)
      /\ \A i, j \in DOMAIN others : others[i] = others[j] => i = j
      /\ \A i \in DOMAIN others : others[i] # c /\ \E j \in DOMAIN order : others[i] = order[j]
  <2>1. CASE places = {}
    BY <2>1 DEF IInv, Listed
  <2>2. CASE places # {}
    <3> DEFINE n == CHOOSE i \in places : TRUE
    <3>1. n \in DOMAIN order /\ order[n] = c
      BY <2>2
    <3>2. others = RemoveAt(order, n)
      BY <2>2
    <3> HIDE DEF n, others
    <3> QED
      BY <3>1, <3>2, WithoutProperties DEF IInv, Listed
  <2> QED
    BY <2>1, <2>2
<1>2. Touched(c, r) = IF is_held(r) THEN Append(others, c) ELSE others
  BY DEF Touched
<1> HIDE DEF others, places
<1>3. \A i \in DOMAIN others : is_held(new[others[i]])
  <2> SUFFICES ASSUME NEW i \in DOMAIN others PROVE is_held(new[others[i]])
    OBVIOUS
  <2>1. PICK j \in DOMAIN order : others[i] = order[j] /\ order[j] # c
    BY <1>1
  <2>2. order[j] \in Commitments
    BY LenProperties DEF IInv, Listed
  <2>3. new[order[j]] = records[order[j]]
    BY <2>1, <2>2 DEF IInv
  <2> QED
    BY <2>1, <2>3 DEF IInv, Listed
<1>4. CASE ~is_held(r)
  BY <1>1, <1>2, <1>3, <1>4 DEF Listed
<1>5. CASE is_held(r)
  <2> DEFINE t == Append(others, c)
  <2>1. /\ t \in Seq(Commitments) /\ DOMAIN t = 1..Len(others) + 1
        /\ DOMAIN others = 1..Len(others) /\ Len(others) \in Nat
        /\ \A i \in 1..Len(others) : t[i] = others[i]
        /\ t[Len(others) + 1] = c
    BY <1>1, AppendProperties, LenProperties
  <2>2. new[c] = r
    BY DEF IInv
  <2> HIDE DEF t, new
  <2>3. ASSUME NEW i \in DOMAIN t, NEW j \in DOMAIN t, t[i] = t[j] PROVE i = j
    <3>1. i \in 1..Len(others) \/ i = Len(others) + 1
      BY <2>1
    <3>2. j \in 1..Len(others) \/ j = Len(others) + 1
      BY <2>1
    <3> QED
      BY <1>1, <2>1, <2>3, <3>1, <3>2
  <2>4. \A i \in DOMAIN t : is_held(new[t[i]])
    <3> SUFFICES ASSUME NEW i \in DOMAIN t PROVE is_held(new[t[i]])
      OBVIOUS
    <3>1. i \in 1..Len(others) \/ i = Len(others) + 1
      BY <2>1
    <3> QED
      BY <1>3, <1>5, <2>1, <2>2, <3>1
  <2> QED
    BY <1>2, <1>5, <2>1, <2>3, <2>4 DEF Listed, t, new
<1> QED
  BY <1>4, <1>5

LEMMA UpdateKeeps ==
  ASSUME IInv, NEW c \in Commitments, NEW r, NEW written, Update(c, r, written)
  PROVE  DOMAIN records' = Commitments /\ Listed(order', records')
<1>1. CASE written
  BY <1>1, TouchedProperties DEF Update, IInv
<1>2. CASE ~written
  BY <1>2 DEF Update, IInv
<1> QED
  BY <1>1, <1>2

LEMMA HeldIsHeld ==
  ASSUME IInv
  PROVE  /\ held # None => held \in Commitments /\ is_held(records[held])
         /\ HeldMission \in Commitments \cup {None}
<1>1. CASE order = <<>>
  BY <1>1 DEF held, HeldMission
<1>2. CASE order # <<>>
  <2>1. Len(order) \in DOMAIN order /\ order[Len(order)] \in Commitments
    BY <1>2, LenProperties, EmptySeq DEF IInv, Listed
  <2> QED
    BY <1>2, <2>1 DEF held, HeldMission, IInv, Listed
<1> QED
  BY <1>1, <1>2

(***************************************************************************)
(* The steps: each keeps the invariant, and each but the heartbeat leaves  *)
(* the lease alone or ends it.                                             *)
(***************************************************************************)
LeaseKept == backend'.leased \in {backend.leased, None}

LEMMA CommandsKeep ==
  ASSUME IInv, NEW c \in Commitments, Accept(c) \/ Command(c) \/ Terminate(c)
  PROVE  IInv' /\ LeaseKept
<1>1. UNCHANGED loop
  BY DEF Accept, Command, Terminate
<1>2. IsBackend(backend') /\ LeaseKept
  BY DEF Accept, Command, Terminate, IInv, IsBackend, LeaseKept
<1>3. \E r, written : Update(c, r, written)
  BY DEF Accept, Command, Terminate
<1> QED
  BY <1>1, <1>2, <1>3, UpdateKeeps DEF IInv

LEMMA CustodyKeeps == ASSUME IInv, Custody PROVE IInv' /\ LeaseKept
<1>1. IsLoop(loop')
  <2>1. Seen \in Commitments \cup {None}
    BY HeldIsHeld DEF Seen
  <2> QED
    BY <2>1 DEF Custody, After, IInv, IsLoop
<1>2. PICK c \in Commitments \cup {None}, kind \in Kinds : Report(c, kind)
  BY HeldIsHeld DEF Custody, Kinds, IInv, IsLoop
<1>3. CASE UNCHANGED <<records, order, backend, faults>>
  BY <1>1, <1>3 DEF IInv, LeaseKept
<1>4. ASSUME NEW written \in WriteOutcomes, c # None,
             backend' = [Sent(written) EXCEPT !.custody[c] = Append(@, kind)],
             Update(c, [records[c] EXCEPT !.custody_sent = Append(@, kind)], written)
      PROVE  IInv' /\ LeaseKept
  <2>1. IsBackend(backend') /\ LeaseKept
    BY <1>4 DEF Sent, IInv, IsBackend, LeaseKept
  <2> QED
    BY <1>1, <1>4, <2>1, UpdateKeeps DEF IInv
<1> QED
  BY <1>2, <1>3, <1>4 DEF Report

LEMMA CompleteKeeps == ASSUME IInv, Complete PROVE IInv' /\ LeaseKept
<1>1. IsLoop(loop')
  BY DEF Complete, EndOfLoop, After, IInv, IsLoop
<1>2. CASE UNCHANGED <<records, order, backend, faults>>
  BY <1>1, <1>2 DEF IInv, LeaseKept
<1>3. ASSUME NEW c \in Commitments, NEW written \in WriteOutcomes, Settle(c, written)
      PROVE  IInv' /\ LeaseKept
  <2>1. IsBackend(backend') /\ LeaseKept
    BY <1>3 DEF Settle, Sent, IInv, IsBackend, LeaseKept
  <2>2. \E r : Update(c, r, written)
    BY <1>3 DEF Settle
  <2> QED
    BY <1>1, <2>1, <2>2, UpdateKeeps DEF IInv
<1> QED
  BY <1>2, <1>3, HeldIsHeld DEF Complete

LEMMA OthersKeep ==
  ASSUME IInv, Telemetry \/ Abandon \/ RecordCustody \/ Tick \/ LinkLost \/ LinkBack
               \/ Restart \/ UNCHANGED vars
  PROVE  IInv' /\ LeaseKept
<1>1. UNCHANGED <<records, order>>
  BY DEF Telemetry, Abandon, RecordCustody, Tick, LinkLost, LinkBack, Restart, vars
<1>2. IsBackend(backend') /\ LeaseKept
  <2>1. CASE Telemetry
    BY <2>1 DEF Telemetry, IInv, IsBackend, LeaseKept
  <2>2. CASE ~Telemetry
    BY <2>2 DEF Abandon, RecordCustody, Tick, LinkLost, LinkBack, Restart, vars,
                IInv, IsBackend, LeaseKept
  <2> QED
    BY <2>1, <2>2
<1>3. IsLoop(loop')
  <2>1. CASE Telemetry
    BY <2>1 DEF Telemetry, After, IInv, IsLoop
  <2>2. CASE Abandon \/ RecordCustody \/ Tick \/ UNCHANGED vars
    BY <2>2 DEF Abandon, RecordCustody, Tick, vars, IInv
  <2>3. CASE LinkLost
    BY <2>3 DEF LinkLost, IInv, IsLoop
  <2>4. CASE LinkBack
    BY <2>4 DEF LinkBack, IInv, IsLoop
  <2>5. CASE Restart
    BY <2>5 DEF Restart, IsLoop
  <2> QED
    BY <2>1, <2>2, <2>3, <2>4, <2>5
<1> QED
  BY <1>1, <1>2, <1>3 DEF IInv

LEMMA HeartbeatKeeps ==
  ASSUME IInv, Heartbeat
  PROVE  IInv' /\ backend'.leased \in {backend.leased, HeldMission}
<1>1. UNCHANGED <<records, order>> /\ IsLoop(loop')
  BY DEF Heartbeat, After, IInv, IsLoop
<1>2. IsBackend(backend') /\ backend'.leased \in {backend.leased, HeldMission}
  BY DEF Heartbeat, IInv, IsBackend
<1> QED
  BY <1>1, <1>2 DEF IInv

LEMMA StepKeeps ==
  ASSUME IInv, [Next]_vars
  PROVE  IInv' /\ backend'.leased \in {backend.leased, HeldMission, None}
  BY CommandsKeep, CustodyKeeps, CompleteKeeps, OthersKeep, HeartbeatKeeps
     DEF Next, Publish, LeaseKept

LEMMA InitIInv == Init => IInv
  BY EmptySeq DEF Init, IInv, Listed, IsLoop, IsBackend

(***************************************************************************)
(* The lease.                                                              *)
(***************************************************************************)
\* For every number of commitments, whatever the engine, the operator, lost links, failed writes
\* and restarts do, a heartbeat names a commitment only while the Rover drives it
\* (BackendLink._held_mission).
THEOREM LeaseIsDrivenHolds == Spec => LeaseIsDriven
<1>1. ASSUME IInv, [Next]_vars, NEW c \in Commitments, Over(c), backend'.leased = c
      PROVE  backend.leased = c
  <2>1. c # None
    BY ReportingAssumption
  <2>2. HeldMission # c
    <3>1. CASE HeldMission = None
      BY <2>1, <3>1
    <3>2. CASE HeldMission # None
      BY <1>1, <3>2, HeldIsHeld DEF HeldMission, Over, is_held
    <3> QED
      BY <3>1, <3>2
  <2> QED
    BY <1>1, <2>1, <2>2, StepKeeps
<1>2. IInv /\ [Next]_vars => IInv'
  BY StepKeeps
<1>3. IInv /\ [Next]_vars =>
        [\A c \in Commitments : Over(c) /\ backend'.leased = c => backend.leased = c]_vars
  BY <1>1
<1> QED
  BY <1>2, <1>3, InitIInv, PTL DEF Spec, LeaseIsDriven

(***************************************************************************)
(* What was told, against what is on record: the second invariant.         *)
(***************************************************************************)
CommitmentRecords ==
  [response: {"none", "ACCEPT"}, tombstoned: BOOLEAN, custody_sent: Seq(Kinds),
   completion: {"none", "SENT", "WITHHELD"}]
Missions ==
  [owner: Commitments \cup {None}, status: {"none", "active", "ABORTED", "COMPLETE"},
   acquired: BOOLEAN, released: BOOLEAN]
Fixes == [t: Int, at: Int]
Tracks == [granted: Int, fixes: Seq(Fixes)]
Positions == [clock: Nat, place: Nat, fix: Fixes]
Loops ==
  [next: {"beat", "telemetry", "ACQUIRED", "RELEASED", "complete", "off"}, up: BOOLEAN,
   last_sent: Int, seen: Commitments \cup {None}]
Backends ==
  [leased: Commitments \cup {None}, custody: [Commitments -> Seq(Kinds)],
   completed: [Commitments -> Nat], fixes: Seq(Fixes), unrecorded: Nat]

Typed ==
  /\ records \in [Commitments -> CommitmentRecords]
  /\ mission \in Missions
  /\ gps \in Positions
  /\ loop \in Loops
  /\ tracks \in [Commitments -> Tracks]
  /\ backend \in Backends

Times(s, kind) == Cardinality({i \in DOMAIN s : s[i] = kind})
In(s, kind) == \E i \in DOMAIN s : s[i] = kind

\* What the backend was told: a handover that is on record was told, and once more than it
\* is on record only for a write that failed; the parcel first taken on; and so the claims.
HandoversTold(sent, told, unrecorded) ==
  /\ \A kind \in Kinds :
       /\ Times(told, kind) <= (IF In(sent, kind) THEN 1 ELSE 0) + unrecorded
       /\ In(sent, kind) => In(told, kind)
  /\ told # <<>> => told[1] = "ACQUIRED"
ClaimTold(completion, claims, unrecorded) ==
  claims <= (IF completion = "SENT" THEN 1 ELSE 0) + unrecorded
Truthful ==
  \A c \in Commitments :
    /\ HandoversTold(records[c].custody_sent, backend.custody[c], backend.unrecorded)
    /\ ClaimTold(records[c].completion, backend.completed[c], backend.unrecorded)

\* A release is only reported by a loop that has looked at the handover before it.
InStep ==
  /\ mission.released => mission.acquired
  /\ loop.next # "RELEASED" => loop.seen = None
  /\ loop.seen # None /\ loop.up => backend.custody[loop.seen] # <<>>

\* The track of the mission that is driven has only fixes sent since the last grant.
OnTrack ==
  \A c \in Commitments :
    /\ mission.owner = c => AllSent(tracks[c].fixes)
    /\ records[c].response = "none" => tracks[c] = NoTrack

Told == Typed /\ Truthful /\ InStep /\ OnTrack

(***************************************************************************)
(* Counting.                                                               *)
(***************************************************************************)
LEMMA TimesIsNat ==
  ASSUME NEW s \in Seq(Kinds), NEW kind
  PROVE  Times(s, kind) \in Nat /\ (In(s, kind) <=> Times(s, kind) > 0)
<1> DEFINE P == {i \in DOMAIN s : s[i] = kind}
<1>1. IsFiniteSet(P)
  <2>1. IsFiniteSet(1..Len(s))
    BY FS_Interval, LenProperties
  <2> QED
    BY <2>1, FS_Subset, LenProperties
<1>2. Cardinality(P) \in Nat
  BY <1>1, FS_CardinalityType
<1>3. Cardinality(P) = 0 <=> P = {}
  BY <1>1, FS_EmptySet
<1> HIDE DEF P
<1>4. Cardinality(P) > 0 <=> P # {}
  BY <1>2, <1>3
<1> QED
  BY <1>2, <1>4 DEF Times, In, P

LEMMA TimesAppend ==
  ASSUME NEW s \in Seq(Kinds), NEW kind \in Kinds, NEW k
  PROVE  /\ Times(Append(s, kind), k) = Times(s, k) + (IF k = kind THEN 1 ELSE 0)
         /\ In(Append(s, kind), k) <=> In(s, k) \/ k = kind
<1> DEFINE a == Append(s, kind)
           P == {i \in DOMAIN s : s[i] = k}
           Q == {i \in DOMAIN a : a[i] = k}
           n == Len(s) + 1
<1>1. /\ DOMAIN s = 1..Len(s) /\ Len(s) \in Nat /\ DOMAIN a = 1..n
      /\ \A i \in 1..Len(s) : a[i] = s[i]
      /\ a[n] = kind
  BY AppendProperties, LenProperties
<1>2. IsFiniteSet(P)
  <2>1. IsFiniteSet(1..Len(s))
    BY <1>1, FS_Interval
  <2> QED
    BY <1>1, <2>1, FS_Subset
<1>3. n \notin P
  BY <1>1
<1>4. Times(s, k) = Cardinality(P) /\ Times(a, k) = Cardinality(Q) /\ Cardinality(P) \in Nat
  BY <1>2, FS_CardinalityType DEF Times
<1>5. /\ In(s, k) <=> \E i \in 1..Len(s) : s[i] = k
      /\ In(a, k) <=> \E i \in 1..n : a[i] = k
  BY <1>1 DEF In
<1>6. In(a, k) <=> In(s, k) \/ k = kind
  <2>1. n \in 1..n /\ 1..Len(s) \subseteq 1..n
    BY <1>1
  <2>2. \A i \in 1..n : i \in 1..Len(s) \/ i = n
    BY <1>1
  <2> HIDE DEF a, n
  <2> QED
    BY <1>1, <1>5, <2>1, <2>2
<1>7. CASE k = kind
  <2>1. Q = P \cup {n}
    BY <1>1, <1>7
  <2>2. Cardinality(P \cup {n}) = Cardinality(P) + 1
    BY <1>2, <1>3, FS_AddElement
  <2> HIDE DEF a, n, P, Q
  <2>3. Times(a, k) = Times(s, k) + 1
    BY <1>4, <2>1, <2>2
  <2> QED
    BY <1>6, <1>7, <2>3 DEF a
<1>8. CASE k # kind
  <2>1. Q = P
    BY <1>1, <1>8
  <2> HIDE DEF a, n, P, Q
  <2>2. Times(a, k) = Times(s, k) /\ Times(s, k) \in Nat
    BY <1>4, <2>1
  <2> QED
    BY <1>6, <1>8, <2>2 DEF a
<1> QED
  BY <1>7, <1>8

LEMMA CountIsTimes ==
  ASSUME NEW c, NEW kind
  PROVE  /\ Count(c, kind) = Times(backend.custody[c], kind)
         /\ Reported(c, kind) <=> In(records[c].custody_sent, kind)
  BY DEF Count, Times, Reported, In

(***************************************************************************)
(* One message and its record.                                             *)
(***************************************************************************)

\* A handover that was not on record is told, and recorded or counted as unrecorded.
LEMMA ReportTold ==
  ASSUME NEW sent \in Seq(Kinds), NEW told \in Seq(Kinds), NEW u \in Nat,
         HandoversTold(sent, told, u), NEW kind \in Kinds, ~In(sent, kind),
         kind = "ACQUIRED" \/ told # <<>>
  PROVE  /\ HandoversTold(Append(sent, kind), Append(told, kind), u)
         /\ HandoversTold(sent, Append(told, kind), u + 1)
         /\ Append(told, kind) # <<>>
<1>1. \A k \in Kinds :
        /\ Times(told, k) \in Nat
        /\ Times(Append(told, kind), k) = Times(told, k) + (IF k = kind THEN 1 ELSE 0)
        /\ In(Append(told, kind), k) <=> In(told, k) \/ k = kind
        /\ In(Append(sent, kind), k) <=> In(sent, k) \/ k = kind
  BY TimesIsNat, TimesAppend
<1>2. Append(told, kind) # <<>> /\ Append(told, kind)[1] = "ACQUIRED"
  <2>1. /\ Len(Append(told, kind)) = Len(told) + 1 /\ Len(told) \in Nat
        /\ \A i \in 1..Len(told) : Append(told, kind)[i] = told[i]
        /\ Append(told, kind)[Len(told) + 1] = kind
    BY AppendProperties, LenProperties
  <2>2. CASE told = <<>>
    <3>1. Len(told) = 0
      BY <2>2
    <3> QED
      BY <2>1, <2>2, <3>1
  <2>3. CASE told # <<>>
    <3>1. Len(told) >= 1
      BY <2>1, <2>3, EmptySeq
    <3>2. told[1] = "ACQUIRED"
      BY <2>3 DEF HandoversTold
    <3>3. Append(told, kind)[1] = told[1]
      BY <2>1, <3>1
    <3>4. Append(told, kind) # <<>>
      BY <2>1
    <3> QED
      BY <3>2, <3>3, <3>4
  <2> QED
    BY <2>2, <2>3
<1>3. ASSUME NEW k \in Kinds
      PROVE  /\ Times(Append(told, kind), k) <= (IF In(Append(sent, kind), k) THEN 1 ELSE 0) + u
             /\ Times(Append(told, kind), k) <= (IF In(sent, k) THEN 1 ELSE 0) + (u + 1)
             /\ In(Append(sent, kind), k) => In(Append(told, kind), k)
             /\ In(sent, k) => In(Append(told, kind), k)
  <2>1. /\ Times(told, k) <= (IF In(sent, k) THEN 1 ELSE 0) + u
        /\ In(sent, k) => In(told, k)
    BY DEF HandoversTold
  <2>2. CASE k = kind
    BY <1>1, <2>1, <2>2
  <2>3. CASE k # kind
    BY <1>1, <2>1, <2>3
  <2> QED
    BY <2>2, <2>3
<1> QED
  BY <1>2, <1>3 DEF HandoversTold

LEMMA MoreUnrecorded ==
  ASSUME NEW sent \in Seq(Kinds), NEW told \in Seq(Kinds), NEW u \in Nat
  PROVE  HandoversTold(sent, told, u) => HandoversTold(sent, told, u + 1)
<1>1. \A kind \in Kinds : Times(told, kind) \in Nat
  BY TimesIsNat
<1> QED
  BY <1>1 DEF HandoversTold

\* What an update leaves in the store.
LEMMA UpdatedRecords ==
  ASSUME Typed, NEW c \in Commitments, NEW r \in CommitmentRecords, NEW written,
         Update(c, r, written)
  PROVE  /\ records' \in [Commitments -> CommitmentRecords]
         /\ \A d \in Commitments \ {c} : records'[d] = records[d]
         /\ records'[c] = IF written THEN r ELSE records[c]
  BY DEF Typed, Update

\* Steps that leave alone what was told and what is on record of it.
LEMMA TruthfulKept ==
  ASSUME Truthful,
         \A c \in Commitments :
           /\ records'[c].custody_sent = records[c].custody_sent
           /\ records'[c].completion = records[c].completion,
         backend'.custody = backend.custody, backend'.completed = backend.completed,
         backend'.unrecorded = backend.unrecorded
  PROVE  Truthful'
  BY DEF Truthful

(***************************************************************************)
(* The steps.                                                              *)
(***************************************************************************)
LEMMA ToldAtFirst == Init => Told
<1> SUFFICES ASSUME Init PROVE Told
  OBVIOUS
<1>1. <<>> \in Seq(Kinds) /\ <<>> \in Seq(Fixes) /\ Unanswered \in CommitmentRecords
  BY EmptySeq DEF Unanswered, CommitmentRecords
<1>2. Typed
  <2>1. NoTrack \in Tracks
    BY <1>1 DEF NoTrack, Tracks
  <2>2. mission \in Missions /\ gps \in Positions /\ loop \in Loops
    BY DEF Init, NoMission, Missions, Positions, Fixes, Loops
  <2>3. backend \in Backends
    BY <1>1 DEF Init, Backends
  <2> QED
    BY <1>1, <2>1, <2>2, <2>3 DEF Init, Typed
<1>3. Truthful
  <2>1. \A kind \in Kinds : Times(<<>>, kind) = 0
    <3> TAKE kind \in Kinds
    <3>1. {i \in DOMAIN <<>> : <<>>[i] = kind} = {}
      OBVIOUS
    <3> QED
      BY <3>1, FS_EmptySet DEF Times
  <2>2. \A kind \in Kinds : ~In(<<>>, kind)
    BY DEF In
  <2>3. HandoversTold(<<>>, <<>>, 0)
    BY <2>1, <2>2 DEF HandoversTold
  <2>4. ClaimTold("none", 0, 0)
    BY DEF ClaimTold
  <2> QED
    BY <2>3, <2>4 DEF Truthful, Init, Unanswered
<1>4. InStep
  BY DEF InStep, Init, NoMission
<1>5. OnTrack
  BY ReportingAssumption DEF OnTrack, Init, NoMission, AllSent, NoTrack
<1> QED
  BY <1>2, <1>3, <1>4, <1>5 DEF Told

LEMMA AcceptTells == ASSUME Told, NEW c \in Commitments, Accept(c) PROVE Told'
<1>1. PICK written \in WriteOutcomes :
        /\ mission' = IF written THEN [NoMission EXCEPT !.owner = c, !.status = "active"]
                      ELSE Abandoned([NoMission EXCEPT !.owner = c, !.status = "active"])
        /\ Update(c, [records[c] EXCEPT !.response = "ACCEPT"], written)
        /\ tracks' = IF written THEN [tracks EXCEPT ![c] = [granted |-> gps.clock, fixes |-> <<>>]]
                     ELSE tracks
        /\ backend' = [backend EXCEPT !.fixes = <<>>]
  BY DEF Accept
<1>2. records[c].response = "none" /\ UNCHANGED <<gps, loop>>
  BY DEF Accept
<1> DEFINE r == [records[c] EXCEPT !.response = "ACCEPT"]
<1>3. /\ r \in CommitmentRecords /\ r.custody_sent = records[c].custody_sent
      /\ r.completion = records[c].completion /\ r.response = "ACCEPT"
  BY DEF Told, Typed, CommitmentRecords
<1> HIDE DEF r
<1>4. /\ records' \in [Commitments -> CommitmentRecords]
      /\ \A d \in Commitments \ {c} : records'[d] = records[d]
      /\ records'[c] = IF written THEN r ELSE records[c]
  BY <1>1, <1>3, UpdatedRecords DEF Told, r
<1>5. mission' \in Missions /\ mission'.owner = c /\ ~mission'.released
  BY <1>1 DEF NoMission, Abandoned, Missions
<1>6. /\ backend' \in Backends /\ backend'.custody = backend.custody
      /\ backend'.completed = backend.completed /\ backend'.unrecorded = backend.unrecorded
  BY <1>1, EmptySeq DEF Told, Typed, Backends
<1>7. /\ tracks' \in [Commitments -> Tracks]
      /\ \A d \in Commitments \ {c} : tracks'[d] = tracks[d]
      /\ ~written => tracks' = tracks
      /\ tracks'[c].fixes = <<>>
  <2>1. [granted |-> gps.clock, fixes |-> <<>>] \in Tracks
    BY EmptySeq DEF Told, Typed, Positions, Tracks
  <2>2. tracks[c] = NoTrack
    BY <1>2 DEF Told, OnTrack
  <2> QED
    BY <1>1, <2>1, <2>2 DEF Told, Typed, NoTrack
<1>8. Typed'
  BY <1>2, <1>4, <1>5, <1>6, <1>7 DEF Told, Typed
<1>9. Truthful'
  BY <1>3, <1>4, <1>6, TruthfulKept DEF Told
<1>10. InStep'
  BY <1>2, <1>5, <1>6 DEF Told, InStep
<1>11. OnTrack'
  <2>1. \A d \in Commitments : mission'.owner = d => AllSent(tracks[d].fixes)'
    BY <1>5, <1>7 DEF AllSent
  <2>2. \A d \in Commitments : records'[d].response = "none" => tracks'[d] = NoTrack
    BY <1>3, <1>4, <1>7 DEF Told, OnTrack
  <2> QED
    BY <2>1, <2>2 DEF OnTrack
<1> QED
  BY <1>8, <1>9, <1>10, <1>11 DEF Told

LEMMA CommandTells ==
  ASSUME Told, NEW c \in Commitments, Command(c) \/ Terminate(c) PROVE Told'
<1>1. UNCHANGED <<gps, loop, tracks, backend>> /\ records[c].response # "none"
  BY DEF Command, Terminate
<1>2. /\ mission' \in Missions /\ mission'.owner = mission.owner
      /\ mission'.released = mission.released /\ mission'.acquired = mission.acquired
  BY DEF Command, Terminate, Abandoned, Told, Typed, Missions
<1>3. PICK r \in {records[c], [records[c] EXCEPT !.tombstoned = TRUE]} : Update(c, r, TRUE)
  BY DEF Command, Terminate
<1>4. /\ r \in CommitmentRecords /\ r.custody_sent = records[c].custody_sent
      /\ r.completion = records[c].completion /\ r.response = records[c].response
  BY DEF Told, Typed, CommitmentRecords
<1>5. /\ records' \in [Commitments -> CommitmentRecords]
      /\ \A d \in Commitments \ {c} : records'[d] = records[d]
      /\ records'[c] = r
  BY <1>3, <1>4, UpdatedRecords DEF Told
<1>6. Typed'
  BY <1>1, <1>2, <1>5 DEF Told, Typed
<1>7. Truthful'
  BY <1>1, <1>4, <1>5, TruthfulKept DEF Told
<1>8. InStep'
  BY <1>1, <1>2 DEF Told, InStep
<1>9. OnTrack'
  BY <1>1, <1>2, <1>4, <1>5 DEF Told, OnTrack, AllSent
<1> QED
  BY <1>6, <1>7, <1>8, <1>9 DEF Told

LEMMA OthersTell ==
  ASSUME Told, Abandon \/ RecordCustody \/ Tick \/ LinkLost \/ LinkBack \/ UNCHANGED vars
  PROVE  Told'
<1>1. UNCHANGED <<records, tracks, backend>>
  BY DEF Abandon, RecordCustody, Tick, LinkLost, LinkBack, vars
<1>2. /\ mission' \in Missions /\ mission'.owner = mission.owner
      /\ mission'.released => mission'.acquired
  BY DEF Abandon, RecordCustody, Tick, LinkLost, LinkBack, vars, Abandoned, Active,
         Told, Typed, Missions, InStep
<1>3. gps' \in Positions
  <2>1. CASE Tick
    <3>1. PICK p \in gps.place..(gps.place + 1) : \E at \in {p, -1} \cup Strays :
            /\ p \in 0..Drop
            /\ gps' = [clock |-> gps.clock + 1, place |-> p,
                       fix |-> IF at = -1 THEN gps.fix ELSE [t |-> gps.clock + 1, at |-> at]]
      BY <2>1 DEF Tick
    <3>2. PICK at \in {p, -1} \cup Strays :
            gps' = [clock |-> gps.clock + 1, place |-> p,
                    fix |-> IF at = -1 THEN gps.fix ELSE [t |-> gps.clock + 1, at |-> at]]
      BY <3>1
    <3>3. p \in Nat /\ at \in Int /\ gps.clock \in Nat /\ gps.fix \in Fixes
      BY <3>1, ReportingAssumption DEF Told, Typed, Positions
    <3>4. (IF at = -1 THEN gps.fix ELSE [t |-> gps.clock + 1, at |-> at]) \in Fixes
      BY <3>3 DEF Fixes
    <3> QED
      BY <3>2, <3>3, <3>4 DEF Positions
  <2>2. CASE ~Tick
    BY <2>2 DEF Abandon, RecordCustody, LinkLost, LinkBack, vars, Told, Typed
  <2> QED
    BY <2>1, <2>2
<1>4. /\ loop' \in Loops
      /\ loop'.next # "RELEASED" => loop'.seen = None
      /\ loop'.seen # None /\ loop'.up => loop.seen = loop'.seen /\ loop.up
  <2>1. CASE LinkLost
    BY <2>1 DEF LinkLost, Told, Typed, Loops, InStep
  <2>2. CASE LinkBack
    BY <2>2 DEF LinkBack, Told, Typed, Loops, InStep
  <2>3. CASE UNCHANGED loop
    BY <2>3 DEF Told, Typed, InStep
  <2> QED
    BY <2>1, <2>2, <2>3 DEF Abandon, RecordCustody, Tick, vars
<1>5. Typed'
  BY <1>1, <1>2, <1>3, <1>4 DEF Told, Typed
<1>6. Truthful'
  BY <1>1, TruthfulKept DEF Told
<1>7. InStep'
  BY <1>1, <1>2, <1>4 DEF Told, InStep
<1>8. OnTrack'
  BY <1>1, <1>2 DEF Told, OnTrack, AllSent
<1> QED
  BY <1>5, <1>6, <1>7, <1>8 DEF Told

LEMMA RestartTells == ASSUME Told, Restart PROVE Told'
<1>1. /\ UNCHANGED <<records, order, backend>>
      /\ mission' = NoMission /\ tracks' = [c \in Commitments |-> NoTrack]
      /\ loop' = [next |-> "off", up |-> FALSE, last_sent |-> 0, seen |-> None]
      /\ gps' = [gps EXCEPT !.fix = NoFix]
  BY DEF Restart
<1>2. Typed'
  <2>1. NoTrack \in Tracks
    BY EmptySeq DEF NoTrack, Tracks
  <2>2. mission' \in Missions
    BY <1>1 DEF NoMission, Missions
  <2>3. gps' \in Positions
    BY <1>1 DEF NoFix, Positions, Fixes, Told, Typed
  <2>4. loop' \in Loops
    BY <1>1 DEF Loops
  <2> QED
    BY <1>1, <2>1, <2>2, <2>3, <2>4 DEF Told, Typed
<1>3. Truthful'
  BY <1>1, TruthfulKept DEF Told
<1>4. InStep'
  BY <1>1 DEF InStep, NoMission
<1>5. OnTrack'
  BY <1>1, ReportingAssumption DEF OnTrack, NoMission
<1> QED
  BY <1>2, <1>3, <1>4, <1>5 DEF Told

LEMMA HeartbeatTells == ASSUME Told, IInv, Heartbeat PROVE Told'
<1>1. UNCHANGED <<records, mission, gps, tracks>>
  BY DEF Heartbeat
<1>2. HeldMission \in Commitments \cup {None}
  BY HeldIsHeld
<1>3. /\ backend' \in Backends /\ backend'.custody = backend.custody
      /\ backend'.completed = backend.completed /\ backend'.unrecorded = backend.unrecorded
      /\ backend'.fixes = backend.fixes
  BY <1>2 DEF Heartbeat, Told, Typed, Backends
<1>4. loop' \in Loops /\ loop'.seen = None /\ loop.seen = None
  BY DEF Heartbeat, After, Told, Typed, Loops, InStep
<1>5. Typed'
  BY <1>1, <1>3, <1>4 DEF Told, Typed
<1>6. Truthful'
  BY <1>1, <1>3, TruthfulKept DEF Told
<1>7. InStep'
  BY <1>1, <1>4 DEF Told, InStep
<1>8. OnTrack'
  BY <1>1, <1>3 DEF Told, OnTrack, AllSent
<1> QED
  BY <1>5, <1>6, <1>7, <1>8 DEF Told

\* A fix that leaves is on the track and among the fixes sent: what was sent before stays so.
LEMMA SentStaysSent ==
  ASSUME NEW sent \in Seq(Fixes), NEW track \in Seq(Fixes), NEW fix \in Fixes,
         \A i \in DOMAIN track : \E j \in DOMAIN sent : sent[j] = track[i],
         NEW more \in {track, Append(track, fix)}
  PROVE  \A i \in DOMAIN more : \E j \in DOMAIN Append(sent, fix) : Append(sent, fix)[j] = more[i]
<1> DEFINE s == Append(sent, fix)
           t == Append(track, fix)
<1>1. /\ DOMAIN sent = 1..Len(sent) /\ Len(sent) \in Nat /\ DOMAIN s = 1..Len(sent) + 1
      /\ \A j \in 1..Len(sent) : s[j] = sent[j]
      /\ s[Len(sent) + 1] = fix
  BY AppendProperties, LenProperties
<1>2. /\ DOMAIN track = 1..Len(track) /\ Len(track) \in Nat /\ DOMAIN t = 1..Len(track) + 1
      /\ \A j \in 1..Len(track) : t[j] = track[j]
      /\ t[Len(track) + 1] = fix
  BY AppendProperties, LenProperties
<1>3. more \in {track, t}
  OBVIOUS
<1> HIDE DEF s, t
<1>4. \A i \in DOMAIN track : \E j \in DOMAIN s : s[j] = track[i]
  <2> SUFFICES ASSUME NEW i \in DOMAIN track PROVE \E j \in DOMAIN s : s[j] = track[i]
    OBVIOUS
  <2>1. PICK j \in DOMAIN sent : sent[j] = track[i]
    OBVIOUS
  <2> QED
    BY <1>1, <2>1
<1>5. \A i \in DOMAIN t : \E j \in DOMAIN s : s[j] = t[i]
  <2> SUFFICES ASSUME NEW i \in DOMAIN t PROVE \E j \in DOMAIN s : s[j] = t[i]
    OBVIOUS
  <2>1. CASE i = Len(track) + 1
    <3>1. Len(sent) + 1 \in DOMAIN s
      BY <1>1
    <3> QED
      BY <1>1, <1>2, <2>1, <3>1
  <2>2. CASE i # Len(track) + 1
    <3>1. i \in DOMAIN track /\ t[i] = track[i]
      BY <1>2, <2>2
    <3> QED
      BY <1>4, <3>1
  <2> QED
    BY <2>1, <2>2
<1> QED
  BY <1>3, <1>4, <1>5 DEF s

LEMMA TelemetryTells == ASSUME Told, Telemetry PROVE Told'
<1>1. UNCHANGED <<records, mission, gps>> /\ loop.next = "telemetry"
  BY DEF Telemetry
<1>2. loop' \in Loops /\ loop'.seen = None /\ loop.seen = None
  BY DEF Telemetry, After, Told, Typed, Loops, InStep, Positions, Fixes
<1>3. gps.fix \in Fixes
  BY DEF Told, Typed, Positions
<1>4. /\ backend' \in Backends /\ backend'.custody = backend.custody
      /\ backend'.completed = backend.completed /\ backend'.unrecorded = backend.unrecorded
  <2>1. CASE backend' = [backend EXCEPT !.leased = None]
    BY <2>1 DEF Told, Typed, Backends
  <2>2. CASE backend' # [backend EXCEPT !.leased = None]
    <3>1. backend' = [backend EXCEPT !.leased = None,
                             !.fixes = IF loop.up THEN Append(@, gps.fix) ELSE @]
      BY <2>2 DEF Telemetry
    <3>2. (IF loop.up THEN Append(backend.fixes, gps.fix) ELSE backend.fixes) \in Seq(Fixes)
      BY <1>3, AppendProperties DEF Told, Typed, Backends
    <3> QED
      BY <3>1, <3>2 DEF Told, Typed, Backends
  <2> QED
    BY <2>1, <2>2
<1>5. \/ UNCHANGED tracks /\ backend'.fixes = backend.fixes
      \/ /\ backend'.fixes = Append(backend.fixes, gps.fix)
         /\ \/ UNCHANGED tracks
            \/ /\ tracks[held] # NoTrack
               /\ tracks' = [tracks EXCEPT ![held].fixes = Append(@, gps.fix)]
  BY DEF Telemetry, FixLeaves, Told, Typed, Backends
<1>6. /\ tracks' \in [Commitments -> Tracks]
      /\ \A c \in Commitments :
           /\ tracks[c] = NoTrack => tracks'[c] = NoTrack
           /\ \/ backend'.fixes = backend.fixes /\ tracks'[c].fixes = tracks[c].fixes
              \/ /\ backend'.fixes = Append(backend.fixes, gps.fix)
                 /\ tracks'[c].fixes \in {tracks[c].fixes, Append(tracks[c].fixes, gps.fix)}
  <2>1. CASE UNCHANGED tracks
    BY <1>5, <2>1 DEF Told, Typed
  <2>2. CASE ~UNCHANGED tracks
    <3>1. /\ backend'.fixes = Append(backend.fixes, gps.fix)
          /\ tracks[held] # NoTrack
          /\ tracks' = [tracks EXCEPT ![held].fixes = Append(@, gps.fix)]
      BY <1>5, <2>2
    <3>2. \A c \in Commitments :
            /\ tracks[c] \in Tracks
            /\ [tracks[c] EXCEPT !.fixes = Append(@, gps.fix)] \in Tracks
            /\ [tracks[c] EXCEPT !.fixes = Append(@, gps.fix)].fixes
                 = Append(tracks[c].fixes, gps.fix)
      <4> TAKE c \in Commitments
      <4>1. tracks[c] \in Tracks /\ tracks[c].fixes \in Seq(Fixes) /\ tracks[c].granted \in Int
        BY DEF Told, Typed, Tracks
      <4>2. Append(tracks[c].fixes, gps.fix) \in Seq(Fixes)
        BY <1>3, <4>1, AppendProperties
      <4> QED
        BY <4>1, <4>2 DEF Tracks
    <3>3. \A c \in Commitments :
            tracks'[c] = IF c = held THEN [tracks[c] EXCEPT !.fixes = Append(@, gps.fix)]
                         ELSE tracks[c]
      BY <3>1 DEF Told, Typed
    <3>4. tracks' \in [Commitments -> Tracks]
      BY <3>1, <3>2 DEF Told, Typed
    <3>5. ASSUME NEW c \in Commitments
          PROVE  /\ tracks[c] = NoTrack => tracks'[c] = NoTrack
                 /\ tracks'[c].fixes \in {tracks[c].fixes, Append(tracks[c].fixes, gps.fix)}
      BY <3>1, <3>2, <3>3
    <3> QED
      BY <3>1, <3>4, <3>5
  <2> QED
    BY <2>1, <2>2
<1>7. Typed'
  BY <1>1, <1>2, <1>4, <1>6 DEF Told, Typed
<1>8. Truthful'
  BY <1>1, <1>4, TruthfulKept DEF Told
<1>9. InStep'
  BY <1>1, <1>2 DEF Told, InStep
<1>10. OnTrack'
  <2>1. ASSUME NEW c \in Commitments, mission.owner = c PROVE AllSent(tracks[c].fixes)'
    <3>1. /\ backend.fixes \in Seq(Fixes) /\ tracks[c].fixes \in Seq(Fixes)
          /\ \A i \in DOMAIN tracks[c].fixes :
               \E j \in DOMAIN backend.fixes : backend.fixes[j] = tracks[c].fixes[i]
      BY <2>1 DEF Told, Typed, Backends, Tracks, OnTrack, AllSent
    <3>2. CASE backend'.fixes = backend.fixes /\ tracks'[c].fixes = tracks[c].fixes
      BY <3>1, <3>2 DEF AllSent
    <3>3. CASE /\ backend'.fixes = Append(backend.fixes, gps.fix)
               /\ tracks'[c].fixes \in {tracks[c].fixes, Append(tracks[c].fixes, gps.fix)}
      <4>1. \A s, t, m \in Seq(Fixes) :
              /\ \A i \in DOMAIN t : \E j \in DOMAIN s : s[j] = t[i]
              /\ m \in {t, Append(t, gps.fix)}
              => \A i \in DOMAIN m : \E j \in DOMAIN Append(s, gps.fix) :
                   Append(s, gps.fix)[j] = m[i]
        BY <1>3, SentStaysSent
      <4>2. tracks'[c].fixes \in Seq(Fixes)
        BY <1>6 DEF Tracks
      <4>3. \A i \in DOMAIN tracks'[c].fixes : \E j \in DOMAIN Append(backend.fixes, gps.fix) :
              Append(backend.fixes, gps.fix)[j] = tracks'[c].fixes[i]
        BY <3>1, <3>3, <4>1, <4>2
      <4> QED
        BY <3>3, <4>3 DEF AllSent
    <3> QED
      BY <1>6, <3>2, <3>3
  <2> QED
    BY <1>1, <1>6, <2>1 DEF Told, OnTrack
<1> QED
  BY <1>7, <1>8, <1>9, <1>10 DEF Told

\* One handover is told and recorded, or told and counted as unrecorded, or nothing happens.
LEMMA ReportTells ==
  ASSUME Told, NEW c \in Commitments \cup {None}, NEW kind \in Kinds, Report(c, kind),
         c # None /\ loop.up => kind = "ACQUIRED" \/ backend.custody[c] # <<>>,
         UNCHANGED <<mission, gps, tracks>>, loop' \in Loops
  PROVE  /\ Typed' /\ Truthful' /\ OnTrack'
         /\ \A d \in Commitments :
              backend.custody[d] # <<>> => backend'.custody[d] # <<>>
         /\ c # None /\ loop.up => backend'.custody[c] # <<>>
<1>1. CASE c = None \/ Reported(c, kind) \/ ~loop.up
  <2>1. UNCHANGED <<records, order, backend, faults>>
    BY <1>1 DEF Report
  <2>2. Typed'
    BY <2>1 DEF Told, Typed
  <2>3. Truthful'
    BY <2>1, TruthfulKept DEF Told
  <2>4. OnTrack'
    BY <2>1 DEF Told, OnTrack, AllSent
  <2>5. c # None /\ loop.up => backend'.custody[c] # <<>>
    <3> SUFFICES ASSUME c # None, loop.up PROVE backend.custody[c] # <<>>
      BY <2>1
    <3>1. In(records[c].custody_sent, kind)
      BY <1>1, CountIsTimes
    <3>2. In(backend.custody[c], kind)
      BY <3>1 DEF Told, Truthful, HandoversTold
    <3> QED
      BY <3>2 DEF In
  <2> QED
    BY <2>1, <2>2, <2>3, <2>4, <2>5
<1>2. CASE c # None /\ ~Reported(c, kind) /\ loop.up
  <2> DEFINE sent == records[c].custody_sent
             told == backend.custody[c]
             u == backend.unrecorded
             r == [records[c] EXCEPT !.custody_sent = Append(@, kind)]
  <2>1. c \in Commitments /\ ~In(sent, kind)
    BY <1>2, CountIsTimes
  <2>2. PICK written \in WriteOutcomes :
          /\ backend' = [Sent(written) EXCEPT !.custody[c] = Append(@, kind)]
          /\ Update(c, r, written)
    BY <1>2 DEF Report
  <2>3. sent \in Seq(Kinds) /\ told \in Seq(Kinds) /\ u \in Nat
    BY <2>1 DEF Told, Typed, CommitmentRecords, Backends
  <2>4. Append(sent, kind) \in Seq(Kinds) /\ Append(told, kind) \in Seq(Kinds)
    BY <2>3, AppendProperties
  <2>5. /\ r \in CommitmentRecords /\ r.custody_sent = Append(sent, kind)
        /\ r.completion = records[c].completion /\ r.response = records[c].response
    BY <2>1, <2>4 DEF Told, Typed, CommitmentRecords
  <2>6. /\ records' \in [Commitments -> CommitmentRecords]
        /\ \A d \in Commitments \ {c} : records'[d] = records[d]
        /\ records'[c] = IF written THEN r ELSE records[c]
    BY <2>1, <2>2, <2>5, UpdatedRecords DEF Told
  <2>7. /\ backend' \in Backends
        /\ \A d \in Commitments \ {c} : backend'.custody[d] = backend.custody[d]
        /\ backend'.custody[c] = Append(told, kind)
        /\ backend'.completed = backend.completed /\ backend'.fixes = backend.fixes
        /\ backend'.unrecorded = IF written THEN u ELSE u + 1
    <3>1. backend = [leased |-> backend.leased, custody |-> backend.custody,
                     completed |-> backend.completed, fixes |-> backend.fixes, unrecorded |-> u]
      BY DEF Told, Typed, Backends
    <3>2. backend' = [leased |-> backend.leased,
                      custody |-> [backend.custody EXCEPT ![c] = Append(@, kind)],
                      completed |-> backend.completed, fixes |-> backend.fixes,
                      unrecorded |-> IF written THEN u ELSE u + 1]
      BY <2>2, <3>1 DEF Sent
    <3>3. [backend.custody EXCEPT ![c] = Append(@, kind)] \in [Commitments -> Seq(Kinds)]
      BY <2>1, <2>4 DEF Told, Typed, Backends
    <3>4. /\ \A d \in Commitments \ {c} :
               [backend.custody EXCEPT ![c] = Append(@, kind)][d] = backend.custody[d]
          /\ [backend.custody EXCEPT ![c] = Append(@, kind)][c] = Append(told, kind)
      BY <2>1 DEF Told, Typed, Backends
    <3>5. /\ backend.leased \in Commitments \cup {None}
          /\ backend.completed \in [Commitments -> Nat] /\ backend.fixes \in Seq(Fixes)
          /\ (IF written THEN u ELSE u + 1) \in Nat
      BY <2>3 DEF Told, Typed, Backends
    <3> DEFINE told2 == [backend.custody EXCEPT ![c] = Append(@, kind)]
    <3> HIDE DEF told2
    <3> QED
      BY <3>2, <3>3, <3>4, <3>5 DEF Backends, told2
  <2>8. /\ HandoversTold(Append(sent, kind), Append(told, kind), u)
        /\ HandoversTold(sent, Append(told, kind), u + 1)
        /\ Append(told, kind) # <<>>
    BY <1>2, <2>1, <2>3, ReportTold DEF Told, Truthful
  <2> HIDE DEF r
  <2>9. Typed'
    BY <2>6, <2>7 DEF Told, Typed
  <2>10. Truthful'
    <3> SUFFICES ASSUME NEW d \in Commitments
                 PROVE  /\ HandoversTold(records'[d].custody_sent, backend'.custody[d],
                                         backend'.unrecorded)
                        /\ ClaimTold(records'[d].completion, backend'.completed[d],
                                     backend'.unrecorded)
      BY DEF Truthful
    <3>1. records'[d].completion = records[d].completion
      BY <2>5, <2>6
    <3>2. ClaimTold(records'[d].completion, backend'.completed[d], backend'.unrecorded)
      <4>1. ClaimTold(records[d].completion, backend.completed[d], u)
        BY DEF Told, Truthful
      <4>2. backend.completed[d] \in Nat
        BY DEF Told, Typed, Backends
      <4> QED
        BY <2>3, <2>7, <3>1, <4>1, <4>2 DEF ClaimTold
    <3>3. CASE d = c
      BY <2>5, <2>6, <2>7, <2>8, <3>2, <3>3
    <3>4. CASE d # c
      <4>1. HandoversTold(records[d].custody_sent, backend.custody[d], u)
        BY DEF Told, Truthful
      <4>2. records[d].custody_sent \in Seq(Kinds) /\ backend.custody[d] \in Seq(Kinds)
        BY DEF Told, Typed, CommitmentRecords, Backends
      <4>3. HandoversTold(records[d].custody_sent, backend.custody[d], u + 1)
        BY <2>3, <4>1, <4>2, MoreUnrecorded
      <4> QED
        BY <2>6, <2>7, <3>2, <3>4, <4>1, <4>3
    <3> QED
      BY <3>3, <3>4
  <2>11. OnTrack'
    BY <2>5, <2>6, <2>7 DEF Told, OnTrack, AllSent
  <2> QED
    BY <2>7, <2>8, <2>9, <2>10, <2>11
<1> QED
  BY <1>1, <1>2

LEMMA CustodyTells == ASSUME Told, IInv, Custody PROVE Told'
<1>1. UNCHANGED <<mission, gps, tracks>>
  BY DEF Custody
<1>2. HeldMission \in Commitments \cup {None} /\ Seen \in Commitments \cup {None}
  BY HeldIsHeld DEF Seen
<1>3. CASE loop.next = "ACQUIRED"
  <2> DEFINE c == IF mission.acquired THEN HeldMission ELSE None
  <2>1. loop' = [After("RELEASED") EXCEPT !.seen = Seen] /\ Report(c, "ACQUIRED")
    BY <1>3 DEF Custody
  <2>2. loop' \in Loops /\ loop'.next = "RELEASED" /\ loop'.seen = Seen /\ loop'.up = loop.up
    BY <1>2, <2>1 DEF After, Told, Typed, Loops
  <2>3. c \in Commitments \cup {None} /\ "ACQUIRED" \in Kinds
    BY <1>2 DEF Kinds
  <2>4. Seen # None => Seen = c
    BY DEF Seen, Told, InStep
  <2> HIDE DEF c
  <2>5. Typed' /\ Truthful' /\ OnTrack' /\ (c # None /\ loop.up => backend'.custody[c] # <<>>)
    BY <1>1, <2>1, <2>2, <2>3, ReportTells
  <2>6. InStep'
    BY <1>1, <2>2, <2>4, <2>5 DEF Told, InStep
  <2> QED
    BY <2>5, <2>6 DEF Told
<1>4. CASE loop.next = "RELEASED"
  <2>1. loop' = [After("complete") EXCEPT !.seen = None] /\ Report(loop.seen, "RELEASED")
    BY <1>4 DEF Custody
  <2>2. loop' \in Loops /\ loop'.seen = None
    BY <2>1 DEF After, Told, Typed, Loops
  <2>3. loop.seen \in Commitments \cup {None} /\ "RELEASED" \in Kinds
    BY DEF Told, Typed, Loops, Kinds
  <2>4. loop.seen # None /\ loop.up => backend.custody[loop.seen] # <<>>
    BY DEF Told, InStep
  <2>5. Typed' /\ Truthful' /\ OnTrack'
    BY <1>1, <2>1, <2>2, <2>3, <2>4, ReportTells
  <2>6. InStep'
    BY <1>1, <2>2 DEF Told, InStep
  <2> QED
    BY <2>5, <2>6 DEF Told
<1> QED
  BY <1>3, <1>4 DEF Custody

LEMMA CompleteTells == ASSUME Told, IInv, Complete PROVE Told'
<1>1. UNCHANGED <<mission, gps, tracks>> /\ loop.next = "complete"
  BY DEF Complete
<1>2. loop' \in Loops /\ loop'.seen = None
  BY <1>1 DEF Complete, EndOfLoop, After, Told, Typed, Loops, InStep
<1>3. InStep'
  BY <1>1, <1>2 DEF Told, InStep
<1>4. CASE UNCHANGED <<records, order, backend, faults>>
  <2>1. Typed'
    BY <1>1, <1>2, <1>4 DEF Told, Typed
  <2>2. Truthful'
    BY <1>4, TruthfulKept DEF Told
  <2>3. OnTrack'
    BY <1>1, <1>4 DEF Told, OnTrack, AllSent
  <2> QED
    BY <1>3, <2>1, <2>2, <2>3 DEF Told
<1>5. ASSUME NEW c \in Commitments, is_held(records[c]), NEW written, Settle(c, written)
      PROVE  Told'
  <2> DEFINE r == [records[c] EXCEPT !.completion = IF Evidence(c) THEN "SENT" ELSE "WITHHELD"]
             u == backend.unrecorded
  <2>1. /\ backend' = IF Evidence(c) THEN [Sent(written) EXCEPT !.completed[c] = @ + 1]
                      ELSE backend
        /\ Update(c, r, written)
    BY <1>5 DEF Settle
  <2>2. /\ r \in CommitmentRecords /\ r.custody_sent = records[c].custody_sent
        /\ r.response = records[c].response
        /\ r.completion = IF Evidence(c) THEN "SENT" ELSE "WITHHELD"
        /\ records[c].completion = "none"
    BY <1>5 DEF Told, Typed, CommitmentRecords, is_held
  <2>3. /\ records' \in [Commitments -> CommitmentRecords]
        /\ \A d \in Commitments \ {c} : records'[d] = records[d]
        /\ records'[c] = IF written THEN r ELSE records[c]
    BY <2>1, <2>2, UpdatedRecords DEF Told
  <2>4. /\ u \in Nat /\ backend.completed \in [Commitments -> Nat]
        /\ backend.custody \in [Commitments -> Seq(Kinds)]
    BY DEF Told, Typed, Backends
  <2>5. /\ backend' \in Backends /\ backend'.custody = backend.custody
        /\ backend'.fixes = backend.fixes
        /\ \A d \in Commitments \ {c} : backend'.completed[d] = backend.completed[d]
        /\ backend'.completed[c] = backend.completed[c] + (IF Evidence(c) THEN 1 ELSE 0)
        /\ backend'.unrecorded = u + (IF Evidence(c) /\ ~written THEN 1 ELSE 0)
    <3>1. CASE Evidence(c)
      <4>1. backend = [leased |-> backend.leased, custody |-> backend.custody,
                       completed |-> backend.completed, fixes |-> backend.fixes,
                       unrecorded |-> u]
        BY DEF Told, Typed, Backends
      <4>2. backend' = [leased |-> backend.leased, custody |-> backend.custody,
                        completed |-> [backend.completed EXCEPT ![c] = @ + 1],
                        fixes |-> backend.fixes,
                        unrecorded |-> IF written THEN u ELSE u + 1]
        BY <2>1, <3>1, <4>1 DEF Sent
      <4>3. /\ [backend.completed EXCEPT ![c] = @ + 1] \in [Commitments -> Nat]
            /\ \A d \in Commitments \ {c} :
                 [backend.completed EXCEPT ![c] = @ + 1][d] = backend.completed[d]
            /\ [backend.completed EXCEPT ![c] = @ + 1][c] = backend.completed[c] + 1
        BY <2>4
      <4>4. /\ backend.leased \in Commitments \cup {None} /\ backend.fixes \in Seq(Fixes)
            /\ (IF written THEN u ELSE u + 1) \in Nat
            /\ (IF written THEN u ELSE u + 1) = u + (IF Evidence(c) /\ ~written THEN 1 ELSE 0)
        BY <2>4, <3>1 DEF Told, Typed, Backends
      <4> DEFINE claims == [backend.completed EXCEPT ![c] = @ + 1]
      <4> HIDE DEF claims
      <4> QED
        BY <2>4, <3>1, <4>2, <4>3, <4>4 DEF Backends, claims
    <3>2. CASE ~Evidence(c)
      BY <2>1, <2>4, <3>2 DEF Told, Typed
    <3> QED
      BY <3>1, <3>2
  <2> HIDE DEF r
  <2>6. Typed'
    BY <1>1, <1>2, <2>3, <2>5 DEF Told, Typed
  <2>7. Truthful'
    <3> SUFFICES ASSUME NEW d \in Commitments
                 PROVE  /\ HandoversTold(records'[d].custody_sent, backend'.custody[d],
                                         backend'.unrecorded)
                        /\ ClaimTold(records'[d].completion, backend'.completed[d],
                                     backend'.unrecorded)
      BY DEF Truthful
    <3>1. /\ HandoversTold(records[d].custody_sent, backend.custody[d], u)
          /\ ClaimTold(records[d].completion, backend.completed[d], u)
          /\ backend.completed[d] \in Nat
      BY <2>4 DEF Told, Truthful
    <3>2. records'[d].custody_sent = records[d].custody_sent
      BY <2>2, <2>3
    <3>3. records[d].custody_sent \in Seq(Kinds) /\ backend.custody[d] \in Seq(Kinds)
      BY <2>4 DEF Told, Typed, CommitmentRecords
    <3>4. HandoversTold(records[d].custody_sent, backend.custody[d], u + 1)
      BY <2>4, <3>1, <3>3, MoreUnrecorded
    <3>5. HandoversTold(records'[d].custody_sent, backend'.custody[d], backend'.unrecorded)
      <4>1. backend'.unrecorded \in {u, u + 1}
        BY <2>4, <2>5
      <4> QED
        BY <2>5, <3>1, <3>2, <3>4, <4>1
    <3>6. ClaimTold(records'[d].completion, backend'.completed[d], backend'.unrecorded)
      <4>1. CASE d = c
        BY <2>2, <2>3, <2>4, <2>5, <3>1, <4>1 DEF ClaimTold
      <4>2. CASE d # c
        BY <2>3, <2>4, <2>5, <3>1, <4>2 DEF ClaimTold
      <4> QED
        BY <4>1, <4>2
    <3> QED
      BY <3>5, <3>6
  <2>8. OnTrack'
    BY <1>1, <2>2, <2>3, <2>5 DEF Told, OnTrack, AllSent
  <2> QED
    BY <1>3, <2>6, <2>7, <2>8 DEF Told
<1> QED
  <2>1. HeldMission # None => HeldMission \in Commitments /\ is_held(records[HeldMission])
    BY HeldIsHeld DEF HeldMission
  <2> QED
    BY <1>4, <1>5, <2>1 DEF Complete

LEMMA StepTells == ASSUME Told, IInv, [Next]_vars PROVE Told'
  BY AcceptTells, CommandTells, OthersTell, RestartTells, HeartbeatTells, TelemetryTells,
     CustodyTells, CompleteTells DEF Next, Publish

LEMMA AlwaysTold == Spec => [](Told /\ IInv)
<1>1. Init => Told /\ IInv
  BY ToldAtFirst, InitIInv
<1>2. Told /\ IInv /\ [Next]_vars => (Told /\ IInv)'
  BY StepTells, StepKeeps
<1> QED
  BY <1>1, <1>2, PTL DEF Spec

\* Every handover is told once, plus once for each report whose record could not be written,
\* and the release never first, for every number of commitments, link losses, restarts and
\* failed writes (_publish_custody, CommitmentStore.update).
THEOREM HandoverReportedOnceHolds == Spec => []HandoverReportedOnce
<1>1. ASSUME Told PROVE HandoverReportedOnce
  <2> SUFFICES ASSUME NEW c \in Commitments
               PROVE  /\ \A kind \in Kinds : Count(c, kind) <= 1 + backend.unrecorded
                      /\ Count(c, "RELEASED") > 0 => backend.custody[c][1] = "ACQUIRED"
    BY DEF HandoverReportedOnce
  <2>1. /\ HandoversTold(records[c].custody_sent, backend.custody[c], backend.unrecorded)
        /\ backend.custody[c] \in Seq(Kinds) /\ backend.unrecorded \in Nat
    BY <1>1 DEF Told, Truthful, Typed, Backends
  <2>2. ASSUME NEW kind \in Kinds PROVE Count(c, kind) <= 1 + backend.unrecorded
    BY <2>1, TimesIsNat, CountIsTimes DEF HandoversTold
  <2>3. Count(c, "RELEASED") > 0 => backend.custody[c][1] = "ACQUIRED"
    BY <2>1, TimesIsNat, CountIsTimes DEF HandoversTold, In
  <2> QED
    BY <2>2, <2>3
<1> QED
  BY <1>1, AlwaysTold, PTL

\* A claim is made for both handovers told, not again unless a claim went unrecorded, and on
\* a sufficient track of fixes that were all sent since the grant, whatever else happens
\* (_publish_task_complete, completion_is_justified).
THEOREM ClaimIsProvenHolds == Spec => ClaimIsProven
<1>1. ASSUME Told, IInv, [Next]_vars, NEW c \in Commitments,
             backend'.completed[c] > backend.completed[c]
      PROVE  /\ Count(c, "ACQUIRED") > 0 /\ Count(c, "RELEASED") > 0
             /\ backend.completed[c] <= backend.unrecorded
             /\ Sufficient(tracks[c].fixes, tracks[c].granted, gps.clock, Drop, Path)
             /\ AllSent(tracks[c].fixes)
  <2>1. backend \in Backends /\ backend.completed \in [Commitments -> Nat]
    BY <1>1 DEF Told, Typed, Backends
  <2>2. backend'.completed # backend.completed
    BY <1>1, <2>1
  <2>3. Complete
    <3>1. Custody => backend'.completed = backend.completed
      BY <2>1 DEF Custody, Report, Sent, Backends
    <3>2. Telemetry \/ Heartbeat => backend'.completed = backend.completed
      BY <2>1 DEF Telemetry, Heartbeat, Backends
    <3>3. \A d \in Commitments : Accept(d) \/ Command(d) \/ Terminate(d)
                                   => backend'.completed = backend.completed
      BY <2>1 DEF Accept, Command, Terminate, Backends
    <3>4. ~UNCHANGED backend
      BY <2>2
    <3> QED
      BY <1>1, <2>2, <3>1, <3>2, <3>3, <3>4
         DEF Next, Publish, Abandon, RecordCustody, Tick, LinkLost, LinkBack, Restart, vars
  <2>4. PICK written \in WriteOutcomes : Settle(HeldMission, written)
    BY <2>2, <2>3 DEF Complete
  <2>5. /\ HeldMission # None /\ Claimable(HeldMission)
        /\ HeldMission \in Commitments /\ is_held(records[HeldMission])
    BY <1>1, <2>2, <2>3, HeldIsHeld DEF Complete, HeldMission
  <2>6. Evidence(HeldMission) /\ HeldMission = c
    <3>1. Evidence(HeldMission)
      BY <2>2, <2>4 DEF Settle
    <3>2. backend'.completed = [backend.completed EXCEPT ![HeldMission] = @ + 1]
      BY <2>1, <2>4, <3>1 DEF Settle, Sent, Backends
    <3>3. HeldMission # c => backend'.completed[c] = backend.completed[c]
      BY <2>1, <3>2
    <3> QED
      BY <1>1, <2>1, <3>1, <3>3
  <2>7. /\ HandoversTold(records[c].custody_sent, backend.custody[c], backend.unrecorded)
        /\ ClaimTold(records[c].completion, backend.completed[c], backend.unrecorded)
        /\ backend.custody[c] \in Seq(Kinds) /\ backend.unrecorded \in Nat
        /\ backend.completed[c] \in Nat
    BY <1>1, <2>1 DEF Told, Truthful, Backends
  <2>8. backend.completed[c] <= backend.unrecorded
    BY <2>5, <2>6, <2>7 DEF is_held, ClaimTold
  <2>9. Count(c, "ACQUIRED") > 0 /\ Count(c, "RELEASED") > 0
    <3>1. In(records[c].custody_sent, "RELEASED")
      BY <2>5, <2>6, CountIsTimes DEF Claimable
    <3>2. In(backend.custody[c], "RELEASED")
      BY <2>7, <3>1 DEF HandoversTold, Kinds
    <3>3. backend.custody[c] # <<>>
      BY <3>2 DEF In
    <3>4. backend.custody[c][1] = "ACQUIRED" /\ 1 \in DOMAIN backend.custody[c]
      BY <2>7, <3>3, EmptySeq, LenProperties DEF HandoversTold
    <3>5. In(backend.custody[c], "ACQUIRED")
      BY <3>4 DEF In
    <3> QED
      BY <2>7, <3>2, <3>5, TimesIsNat, CountIsTimes
  <2>10. Sufficient(tracks[c].fixes, tracks[c].granted, gps.clock, Drop, Path)
    BY <2>6 DEF Evidence
  <2>11. mission.owner = c
    BY <2>5, <2>6 DEF HeldMission
  <2>12. AllSent(tracks[c].fixes)
    BY <1>1, <2>11 DEF Told, OnTrack
  <2> QED
    BY <2>8, <2>9, <2>10, <2>12
<1>2. Told /\ IInv /\ [Next]_vars =>
        [\A c \in Commitments : backend'.completed[c] > backend.completed[c] =>
           /\ Count(c, "ACQUIRED") > 0 /\ Count(c, "RELEASED") > 0
           /\ backend.completed[c] <= backend.unrecorded
           /\ Sufficient(tracks[c].fixes, tracks[c].granted, gps.clock, Drop, Path)
           /\ AllSent(tracks[c].fixes)]_vars
  BY <1>1
<1> QED
  BY <1>2, AlwaysTold, PTL DEF Spec, ClaimIsProven
=============================================================================
