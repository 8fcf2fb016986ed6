----------------------- MODULE OperatorCommands_proofs -----------------------
(***************************************************************************)
(* Proofs about OperatorCommands, for all messages, limits and orders of   *)
(* delivery: what is acknowledged was carried out, the memory of it is     *)
(* bounded and in order, and a command runs once in a life of the process. *)
(***************************************************************************)
EXTENDS OperatorCommands, SequenceTheorems, TLAPS

Outcomes == [key: Keys, ok: BOOLEAN, at: Nat]
Dones == [runs: Nat, others: Nat, applied: BOOLEAN]

(***************************************************************************)
(* The inductive invariant.  The memory holds one outcome of an identity,  *)
(* and it is the one that the command's last run in this process had.      *)
(***************************************************************************)
Shape ==
  /\ clock \in Nat
  /\ history \in Seq(Outcomes)
  /\ done \in [TimedKeys -> Dones]

OnePlace(s) ==
  \A i, j \in DOMAIN s : s[i].key = s[j].key /\ s[i].key # Anonymous => i = j
Agrees(s, ran) == \A i \in DOMAIN s : s[i].key \in TimedKeys => s[i].ok = ran[s[i].key].applied
IInv ==
  /\ Shape
  /\ OnePlace(history)
  /\ Agrees(history, done)
  /\ ack \in TimedKeys => done[ack].applied

(***************************************************************************)
(* Identities.                                                             *)
(***************************************************************************)
LEMMA TimedKeysAreCommands == \A k \in TimedKeys : k \in Keys /\ k[1] = "command"
  BY DEF TimedKeys, CommandKey

LEMMA StopsAreNotTimed ==
  /\ Anonymous \in Keys /\ Anonymous \notin TimedKeys
  /\ \A m : StopKey(m) \in Keys /\ StopKey(m) \notin TimedKeys
<1>1. Anonymous \in Keys /\ Anonymous[1] = "stop"
  BY DEF Anonymous, Keys
<1>2. ASSUME NEW m PROVE StopKey(m) \in Keys /\ StopKey(m)[1] = "stop"
  <2> DEFINE identity == Or(CommandId(m), m.taskId)
  <2>1. StopKey(m) = IF identity \in Ids THEN <<"stop", identity>> ELSE Anonymous
    BY DEF StopKey
  <2> HIDE DEF identity
  <2> QED
    BY <1>1, <2>1 DEF Keys
<1> QED
  BY <1>1, <1>2, TimedKeysAreCommands

LEMMA CommandsAreNamed ==
  ASSUME NEW m, parse_command(m)
  PROVE  CommandKey(m) \in Keys /\ CommandKey(m) # Anonymous
<1>1. CommandKey(m) \in Keys
  BY DEF parse_command, CommandKey, Keys
<1>2. CommandKey(m)[1] = "command" /\ Anonymous[1] = "stop"
  BY DEF CommandKey, Anonymous
<1> QED
  BY <1>1, <1>2

(***************************************************************************)
(* The memory: what stays in it was in it, in the same order.              *)
(***************************************************************************)
LEMMA RemoveAtProperties ==
  ASSUME NEW S, NEW s \in Seq(S), NEW n \in DOMAIN s
  PROVE  /\ RemoveAt(s, n) \in Seq(S)
         /\ Len(RemoveAt(s, n)) = Len(s) - 1
         /\ \A i \in 1..Len(s) - 1 :
              RemoveAt(s, n)[i] = s[IF i < n THEN i ELSE i + 1]
<1>1. Len(s) \in Nat /\ n \in 1..Len(s) /\ \A i \in 1..Len(s) : s[i] \in S
  BY LenProperties
<1> DEFINE front == SubSeq(s, 1, n - 1)
           rest == SubSeq(s, n + 1, Len(s))
<1>2. /\ front \in Seq(S) /\ Len(front) = n - 1
      /\ \A i \in 1..n - 1 : front[i] = s[i]
  BY <1>1, SubSeqProperties
<1>3. /\ rest \in Seq(S) /\ Len(rest) = Len(s) - n
      /\ \A i \in 1..Len(s) - n : rest[i] = s[n + i]
  <2>1. n + 1 \in Int /\ Len(s) \in Int /\ \A i \in (n + 1)..Len(s) : s[i] \in S
    BY <1>1
  <2>2. /\ rest \in Seq(S) /\ Len(rest) = IF n + 1 <= Len(s) THEN Len(s) - (n + 1) + 1 ELSE 0
        /\ \A i \in 1..(Len(s) - (n + 1) + 1) : rest[i] = s[(n + 1) + i - 1]
    BY <2>1, SubSeqProperties
  <2> HIDE DEF rest
  <2> QED
    BY <1>1, <2>2
<1> HIDE DEF front, rest
<1>4. /\ front \o rest \in Seq(S) /\ Len(front \o rest) = Len(s) - 1
      /\ \A i \in 1..Len(s) - 1 :
           (front \o rest)[i] = IF i <= n - 1 THEN front[i] ELSE rest[i - (n - 1)]
  <2>1. /\ front \o rest \in Seq(S) /\ Len(front \o rest) = Len(front) + Len(rest)
        /\ \A i \in 1..Len(front) + Len(rest) :
             (front \o rest)[i] = IF i <= Len(front) THEN front[i] ELSE rest[i - Len(front)]
    BY <1>2, <1>3, ConcatProperties
  <2>2. Len(front) + Len(rest) = Len(s) - 1
    BY <1>1, <1>2, <1>3
  <2> QED
    BY <1>2, <2>1, <2>2
<1>5. \A i \in 1..Len(s) - 1 : (front \o rest)[i] = s[IF i < n THEN i ELSE i + 1]
  <2> TAKE i \in 1..Len(s) - 1
  <2>1. CASE i < n
    BY <1>1, <1>2, <1>4, <2>1
  <2>2. CASE ~(i < n)
    <3>1. i - (n - 1) \in 1..Len(s) - n /\ n + (i - (n - 1)) = i + 1
      BY <1>1, <2>2
    <3>2. rest[i - (n - 1)] = s[i + 1]
      BY <1>3, <3>1
    <3>3. ~(i <= n - 1)
      BY <1>1, <2>2
    <3> QED
      BY <1>4, <2>2, <3>2, <3>3
  <2> QED
    BY <2>1, <2>2
<1> QED
  BY <1>4, <1>5 DEF RemoveAt, front, rest

LEMMA BoundedProperties ==
  ASSUME NEW S, NEW s \in Seq(S)
  PROVE  /\ Bounded(s) \in Seq(S)
         /\ \E d \in Nat :
              /\ d = IF Len(s) > HistorySize THEN Len(s) - HistorySize ELSE 0
              /\ Len(Bounded(s)) = Len(s) - d
              /\ \A i \in DOMAIN Bounded(s) : i + d \in DOMAIN s /\ Bounded(s)[i] = s[i + d]
<1> DEFINE d == IF Len(s) > HistorySize THEN Len(s) - HistorySize ELSE 0
<1>1. /\ Len(s) \in Nat /\ DOMAIN s = 1..Len(s) /\ \A i \in 1..Len(s) : s[i] \in S
      /\ HistorySize \in Nat
  BY LenProperties, BoundsAssumption
<1>2. d \in Nat /\ d <= Len(s)
  BY <1>1
<1>3. Bounded(s) = SubSeq(s, 1 + d, Len(s))
  BY DEF Bounded
<1> HIDE DEF d
<1>4. /\ Bounded(s) \in Seq(S) /\ Len(Bounded(s)) = Len(s) - d
      /\ \A i \in 1..Len(s) - d : Bounded(s)[i] = s[i + d]
  <2>1. 1 + d \in Int /\ Len(s) \in Int /\ \A i \in (1 + d)..Len(s) : s[i] \in S
    BY <1>1, <1>2
  <2>2. /\ Bounded(s) \in Seq(S)
        /\ Len(Bounded(s)) = IF 1 + d <= Len(s) THEN Len(s) - (1 + d) + 1 ELSE 0
        /\ \A i \in 1..(Len(s) - (1 + d) + 1) : Bounded(s)[i] = s[(1 + d) + i - 1]
    BY <1>3, <2>1, SubSeqProperties
  <2>3. /\ Len(s) - (1 + d) + 1 = Len(s) - d
        /\ ~(1 + d <= Len(s)) => Len(s) - d = 0
    <3>1. ASSUME NEW n \in Nat, d <= n
          PROVE  n - (1 + d) + 1 = n - d /\ (~(1 + d <= n) => n - d = 0)
      BY <1>2, <3>1
    <3> QED
      BY <1>1, <1>2, <3>1
  <2>4. ASSUME NEW i \in 1..Len(s) - d PROVE Bounded(s)[i] = s[i + d]
    <3>1. (1 + d) + i - 1 = i + d
      BY <1>1, <1>2
    <3> QED
      BY <2>2, <2>3, <3>1
  <2> QED
    BY <2>2, <2>3, <2>4
<1>5. DOMAIN Bounded(s) = 1..Len(s) - d
  BY <1>4, LenProperties
<1>6. \A i \in 1..Len(s) - d : i + d \in 1..Len(s)
  BY <1>1, <1>2
<1>7. \A i \in DOMAIN Bounded(s) : i + d \in DOMAIN s /\ Bounded(s)[i] = s[i + d]
  BY <1>1, <1>4, <1>5, <1>6
<1> QED
  BY <1>2, <1>4, <1>7 DEF d

LEMMA RememberProperties ==
  ASSUME history \in Seq(Outcomes), OnePlace(history), NEW o \in Outcomes
  PROVE  /\ Remember(o) \in Seq(Outcomes)
         /\ OnePlace(Remember(o))
         /\ \A i \in DOMAIN Remember(o) :
              \/ Remember(o)[i] = o
              \/ \E j \in DOMAIN history :
                   /\ Remember(o)[i] = history[j]
                   /\ history[j].key # o.key \/ o.key = Anonymous
<1> DEFINE places == IF o.key = Anonymous THEN {} ELSE PlacesOf(o.key)
           others == IF places = {} THEN history
                     ELSE RemoveAt(history, CHOOSE i \in places : TRUE)
           Kept(r) == \E j \in DOMAIN history :
                        r = history[j] /\ (history[j].key # o.key \/ o.key = Anonymous)
<1>1. /\ others \in Seq(Outcomes) /\ OnePlace(others)
      /\ \A i \in DOMAIN others : Kept(others[i])
  <2>1. CASE places = {}
    BY <2>1 DEF PlacesOf
  <2>2. CASE places # {}
    <3> DEFINE n == CHOOSE i \in places : TRUE
    <3>1. n \in DOMAIN history /\ history[n].key = o.key /\ o.key # Anonymous
      BY <2>2 DEF PlacesOf
    <3>2. others = RemoveAt(history, n)
      BY <2>2
    <3> HIDE DEF n, others
    <3>3. /\ others \in Seq(Outcomes) /\ Len(others) = Len(history) - 1
          /\ \A i \in 1..Len(history) - 1 :
               others[i] = history[IF i < n THEN i ELSE i + 1]
      BY <3>1, <3>2, RemoveAtProperties
    <3>4. /\ DOMAIN others = 1..Len(history) - 1 /\ DOMAIN history = 1..Len(history)
          /\ Len(history) \in Nat
      BY <3>3, LenProperties
    <3>5. \A i \in DOMAIN others : \E j \in DOMAIN history :
            /\ others[i] = history[j] /\ j # n
            /\ j = IF i < n THEN i ELSE i + 1
      BY <3>1, <3>3, <3>4
    <3>6. \A i \in DOMAIN others : Kept(others[i])
      BY <3>1, <3>5 DEF OnePlace
    <3>7. OnePlace(others)
      <4> SUFFICES ASSUME NEW i \in DOMAIN others, NEW j \in DOMAIN others,
                          others[i].key = others[j].key, others[i].key # Anonymous
                   PROVE  i = j
        BY DEF OnePlace
      <4>1. (IF i < n THEN i ELSE i + 1) = (IF j < n THEN j ELSE j + 1)
        BY <3>5 DEF OnePlace
      <4> QED
        BY <3>1, <3>4, <4>1
    <3> QED
      BY <3>3, <3>6, <3>7
  <2> QED
    BY <2>1, <2>2
<1> DEFINE all == Append(others, o)
<1>2. Remember(o) = Bounded(all)
  BY DEF Remember
<1> HIDE DEF others, places
<1>3. /\ all \in Seq(Outcomes) /\ Len(all) = Len(others) + 1
      /\ \A i \in 1..Len(others) : all[i] = others[i]
      /\ all[Len(others) + 1] = o
      /\ DOMAIN all = 1..Len(others) + 1 /\ DOMAIN others = 1..Len(others)
      /\ Len(others) \in Nat
  BY <1>1, AppendProperties, LenProperties
<1> HIDE DEF all
<1>4. \A i \in DOMAIN all : all[i] = o \/ Kept(all[i])
  BY <1>1, <1>3
<1>5. OnePlace(all)
  <2> SUFFICES ASSUME NEW i \in DOMAIN all, NEW j \in DOMAIN all,
                      all[i].key = all[j].key, all[i].key # Anonymous
               PROVE  i = j
    BY DEF OnePlace
  <2>1. CASE i \in 1..Len(others) /\ j \in 1..Len(others)
    BY <1>1, <1>3, <2>1 DEF OnePlace
  <2>2. ASSUME NEW k \in 1..Len(others), all[k].key = o.key, o.key # Anonymous PROVE FALSE
    BY <1>1, <1>3, <2>2
  <2> QED
    BY <1>3, <2>1, <2>2
<1>6. PICK d \in Nat : \A i \in DOMAIN Bounded(all) :
         i + d \in DOMAIN all /\ Bounded(all)[i] = all[i + d]
  BY <1>3, BoundedProperties
<1>7. Bounded(all) \in Seq(Outcomes) /\ DOMAIN Bounded(all) \subseteq Nat
  BY <1>3, BoundedProperties, LenProperties
<1>8. OnePlace(Bounded(all))
  <2> SUFFICES ASSUME NEW i \in DOMAIN Bounded(all), NEW j \in DOMAIN Bounded(all),
                      Bounded(all)[i].key = Bounded(all)[j].key,
                      Bounded(all)[i].key # Anonymous
               PROVE  i = j
    BY DEF OnePlace
  <2>1. i + d = j + d
    BY <1>5, <1>6 DEF OnePlace
  <2> QED
    BY <1>7, <2>1
<1> QED
  BY <1>2, <1>4, <1>6, <1>7, <1>8

(***************************************************************************)
(* A run is remembered as it went.                                         *)
(***************************************************************************)
LEMMA RunKeeps ==
  ASSUME IInv, NEW k \in Keys, NEW type, Run(k, type), done' = Ran(k, type)
  PROVE  /\ history' \in Seq(Outcomes) /\ OnePlace(history')
         /\ done' \in [TimedKeys -> Dones]
         /\ Agrees(history', done')
         /\ k \in TimedKeys => done'[k].applied = ~Refused(type)
<1> DEFINE o == [key |-> k, ok |-> ~Refused(type), at |-> clock]
<1>1. o \in Outcomes /\ o.key = k /\ o.ok = ~Refused(type)
  BY DEF IInv, Shape, Outcomes
<1>2. history' = Remember(o)
  BY DEF Run
<1> HIDE DEF o
<1>3. /\ history' \in Seq(Outcomes) /\ OnePlace(history')
      /\ \A i \in DOMAIN history' :
           \/ history'[i] = o
           \/ \E j \in DOMAIN history :
                history'[i] = history[j] /\ (history[j].key # k \/ k = Anonymous)
  BY <1>1, <1>2, RememberProperties DEF IInv, Shape
<1>4. /\ done' \in [TimedKeys -> Dones]
      /\ \A j \in TimedKeys :
           done'[j].applied = IF j = k THEN ~Refused(type) ELSE done[j].applied
  <2>1. \A j \in TimedKeys : done[j] \in Dones
    BY DEF IInv, Shape
  <2>2. ASSUME NEW j \in TimedKeys
        PROVE  /\ Ran(k, type)[j] \in Dones
               /\ Ran(k, type)[j].applied = IF j = k THEN ~Refused(type) ELSE done[j].applied
    <3>1. CASE j = k
      BY <2>1, <3>1 DEF Ran, Dones
    <3>2. CASE j # k
      <4>1. Ran(k, type)[j] =
              [done[j] EXCEPT !.others = IF done[j].runs > 0 /\ @ < HistorySize THEN @ + 1 ELSE @]
        BY <3>2 DEF Ran
      <4> QED
        BY <2>1, <3>2, <4>1 DEF Dones
    <3> QED
      BY <3>1, <3>2
  <2>3. Ran(k, type) = [j \in TimedKeys |-> Ran(k, type)[j]]
    BY DEF Ran
  <2> QED
    BY <2>2, <2>3
<1>5. Agrees(history', done')
  <2> SUFFICES ASSUME NEW i \in DOMAIN history', history'[i].key \in TimedKeys
               PROVE  history'[i].ok = done'[history'[i].key].applied
    BY DEF Agrees
  <2>1. CASE history'[i] = o
    BY <1>1, <1>4, <2>1
  <2>2. ASSUME NEW j \in DOMAIN history, history'[i] = history[j],
               history[j].key # k \/ k = Anonymous
        PROVE  history'[i].ok = done'[history'[i].key].applied
    BY <1>4, <2>2, StopsAreNotTimed DEF IInv, Agrees
  <2> QED
    BY <1>3, <2>1, <2>2
<1> QED
  BY <1>3, <1>4, <1>5

LEMMA CommandKeeps == ASSUME IInv, NEW m, OnCommand(m) PROVE IInv'
<1> DEFINE k == CommandKey(m)
<1>1. k \in Keys /\ k # Anonymous /\ UNCHANGED clock
  BY CommandsAreNamed DEF OnCommand
<1>2. ack' = IF Ack(k, m.type) THEN k ELSE Anonymous
  BY DEF OnCommand
<1>3. CASE seen(k)
  <2>1. UNCHANGED <<history, done>>
    BY <1>3 DEF OnCommand
  <2>2. PlacesOf(k) # {}
    BY <1>3 DEF seen
  <2>3. Outcome(k).ok /\ k \in TimedKeys => done[k].applied
    BY <2>2 DEF Outcome, PlacesOf, IInv, Agrees
  <2>4. Ack(k, m.type) <=> Outcome(k).ok
    BY <1>3 DEF Ack
  <2> HIDE DEF k
  <2> QED
    BY <1>1, <1>2, <2>1, <2>3, <2>4, StopsAreNotTimed DEF IInv, Shape
<1>4. CASE ~seen(k)
  <2>1. Run(k, m.type) /\ done' = Ran(k, m.type)
    BY <1>4 DEF OnCommand
  <2>2. Ack(k, m.type) <=> ~Refused(m.type)
    BY <1>4 DEF Ack
  <2> HIDE DEF k
  <2> QED
    BY <1>1, <1>2, <2>1, <2>2, RunKeeps, StopsAreNotTimed DEF IInv, Shape
<1> QED
  BY <1>3, <1>4

LEMMA StopKeeps == ASSUME IInv, NEW m, OnStop(m) PROVE IInv'
<1> DEFINE k == StopKey(m)
<1>1. k \in Keys /\ ack' = Anonymous /\ UNCHANGED clock
  BY StopsAreNotTimed DEF OnStop
<1>2. CASE seen(k)
  BY <1>1, <1>2, StopsAreNotTimed DEF OnStop, IInv, Shape
<1>3. CASE ~seen(k)
  <2>1. Run(k, "STOP") /\ done' = Ran(k, "STOP")
    BY <1>3 DEF OnStop
  <2> HIDE DEF k
  <2> QED
    BY <1>1, <2>1, RunKeeps, StopsAreNotTimed DEF IInv, Shape
<1> QED
  BY <1>2, <1>3

LEMMA FreshIInv ==
  ASSUME NEW h, NEW d, h = <<>>, d = [k \in TimedKeys |-> NotRun]
  PROVE  h \in Seq(Outcomes) /\ OnePlace(h) /\ Agrees(h, d) /\ d \in [TimedKeys -> Dones]
  BY EmptySeq DEF OnePlace, Agrees, NotRun, Dones

LEMMA InitIInv == Init => IInv
  BY FreshIInv, StopsAreNotTimed DEF Init, IInv, Shape

LEMMA StepKeeps == IInv /\ [Next]_vars => IInv'
<1> SUFFICES ASSUME IInv, [Next]_vars PROVE IInv'
  OBVIOUS
<1>1. CASE Restart
  BY <1>1, FreshIInv, StopsAreNotTimed DEF Restart, IInv, Shape
<1>2. CASE UNCHANGED vars \/ OtherMode \/ Tick \/ \E m \in Messages : Issue(m)
  <2>1. UNCHANGED <<history, done, ack>> /\ clock' \in Nat
    BY <1>2 DEF vars, OtherMode, Tick, Issue, IInv, Shape
  <2> QED
    BY <2>1 DEF IInv, Shape
<1> QED
  BY <1>1, <1>2, CommandKeeps, StopKeeps DEF Next

\* However late, often and out of order commands arrive, whatever the memory has dropped since, a
\* COMMAND_ACK speaks of a command that this process carried out (CommandExecutor.execute).
THEOREM AckIsEvidenceHolds == Spec => []AckIsEvidence
<1>1. IInv => AckIsEvidence
  BY DEF IInv, AckIsEvidence
<1> QED
  BY <1>1, InitIInv, StepKeeps, PTL DEF Spec

(***************************************************************************)
(* The memory, once more: what stays, stays in its order, and nothing is   *)
(* dropped before as many others as the memory holds have come.            *)
(***************************************************************************)
\* Place i of what is left when place n is taken out, as it was before.
Before(n, i) == IF i < n THEN i ELSE i + 1

\* What was remembered before, and in which order.
WasThere(r, o) == \E u \in DOMAIN history : r = history[u] /\ (r.key # o.key \/ o.key = Anonymous)
WereInOrder(r, s) == \E u, v \in DOMAIN history : u < v /\ r = history[u] /\ s = history[v]

LEMMA OthersProperties ==
  ASSUME history \in Seq(Outcomes), OnePlace(history), NEW o \in Outcomes
  PROVE  \E others \in Seq(Outcomes), n \in Nat :
           /\ Remember(o) = Bounded(Append(others, o))
           /\ \/ n = Len(history) + 1 /\ Len(others) = Len(history)
              \/ /\ n \in 1..Len(history) /\ Len(others) = Len(history) - 1
                 /\ history[n].key = o.key
           /\ \A i \in 1..Len(others) :
                /\ others[i] = history[Before(n, i)]
                /\ others[i].key # o.key \/ o.key = Anonymous
<1> DEFINE places == IF o.key = Anonymous THEN {} ELSE PlacesOf(o.key)
           others == IF places = {} THEN history
                     ELSE RemoveAt(history, CHOOSE i \in places : TRUE)
<1>1. Remember(o) = Bounded(Append(others, o))
  BY DEF Remember
<1>2. Len(history) \in Nat /\ DOMAIN history = 1..Len(history)
  BY LenProperties
<1>3. CASE places = {}
  <2>1. others = history
    BY <1>3
  <2>2. \A i \in 1..Len(history) :
          /\ history[i] = history[Before(Len(history) + 1, i)]
          /\ history[i].key # o.key \/ o.key = Anonymous
    BY <1>2, <1>3 DEF PlacesOf, Before
  <2>3. Len(history) + 1 \in Nat
    BY <1>2
  <2> HIDE DEF others, places
  <2> QED
    BY <1>1, <2>1, <2>2, <2>3
<1>4. CASE places # {}
  <2> DEFINE n == CHOOSE i \in places : TRUE
  <2>1. n \in DOMAIN history /\ history[n].key = o.key /\ o.key # Anonymous
    BY <1>4 DEF PlacesOf
  <2>2. others = RemoveAt(history, n)
    BY <1>4
  <2> HIDE DEF n, others, places
  <2>3. /\ others \in Seq(Outcomes) /\ Len(others) = Len(history) - 1
        /\ \A i \in 1..Len(history) - 1 : others[i] = history[Before(n, i)]
    BY <2>1, <2>2, RemoveAtProperties DEF Before
  <2>4. \A i \in 1..Len(history) - 1 : Before(n, i) \in DOMAIN history /\ Before(n, i) # n
    BY <1>2, <2>1 DEF Before
  <2>5. \A i \in 1..Len(others) : others[i].key # o.key
    BY <2>1, <2>3, <2>4 DEF OnePlace
  <2>6. n \in Nat /\ n \in 1..Len(history)
    BY <1>2, <2>1
  <2> QED
    BY <1>1, <2>1, <2>3, <2>5, <2>6
<1> QED
  BY <1>3, <1>4

LEMMA RememberOrder ==
  ASSUME history \in Seq(Outcomes), OnePlace(history), NEW o \in Outcomes,
         NEW t, t = Remember(o)
  PROVE  /\ t \in Seq(Outcomes) /\ Len(t) \in 1..HistorySize /\ t[Len(t)] = o
         /\ \A i, j \in 1..Len(t) - 1 : i < j => WereInOrder(t[i], t[j])
         /\ \A i \in 1..Len(t) - 1 : WasThere(t[i], o)
         /\ \A u \in DOMAIN history :
              history[u].key # o.key /\ Len(history) - u + 1 < HistorySize =>
                \E i \in DOMAIN t : t[i] = history[u] /\ Len(t) - i <= Len(history) - u + 1
<1>1. PICK others \in Seq(Outcomes), n \in Nat :
           /\ Remember(o) = Bounded(Append(others, o))
           /\ \/ n = Len(history) + 1 /\ Len(others) = Len(history)
              \/ /\ n \in 1..Len(history) /\ Len(others) = Len(history) - 1
                 /\ history[n].key = o.key
           /\ \A i \in 1..Len(others) :
                /\ others[i] = history[Before(n, i)]
                /\ others[i].key # o.key \/ o.key = Anonymous
  BY OthersProperties
<1> DEFINE all == Append(others, o)
           l == Len(others)
<1>2. /\ all \in Seq(Outcomes) /\ Len(all) = l + 1 /\ l \in Nat
      /\ \A i \in 1..l : all[i] = others[i]
      /\ all[l + 1] = o
      /\ DOMAIN all = 1..l + 1
  BY AppendProperties, LenProperties
<1>3. t = Bounded(all)
  BY <1>1
<1> HIDE DEF all, l
<1>4. \E d \in Nat :
        /\ d = IF Len(all) > HistorySize THEN Len(all) - HistorySize ELSE 0
        /\ Len(Bounded(all)) = Len(all) - d
        /\ \A i \in DOMAIN Bounded(all) : i + d \in DOMAIN all /\ Bounded(all)[i] = all[i + d]
  BY <1>2, BoundedProperties
<1>5. PICK d \in Nat :
        /\ d = IF l + 1 > HistorySize THEN l + 1 - HistorySize ELSE 0
        /\ Len(t) = l + 1 - d
        /\ \A i \in DOMAIN t : i + d \in DOMAIN all /\ t[i] = all[i + d]
  <2>1. PICK d \in Nat :
        /\ d = IF Len(all) > HistorySize THEN Len(all) - HistorySize ELSE 0
        /\ Len(Bounded(all)) = Len(all) - d
        /\ \A i \in DOMAIN Bounded(all) : i + d \in DOMAIN all /\ Bounded(all)[i] = all[i + d]
    BY <1>4
  <2>2. /\ d = IF l + 1 > HistorySize THEN l + 1 - HistorySize ELSE 0
        /\ Len(t) = l + 1 - d
    <3>1. Len(all) = l + 1
      BY <1>2
    <3>2. Len(t) = Len(all) - d
      BY <1>3, <2>1, Zenon
    <3>3. d = IF Len(all) > HistorySize THEN Len(all) - HistorySize ELSE 0
      BY <2>1, Zenon
    <3> QED
      BY <1>2, <3>1, <3>2, <3>3, BoundsAssumption
  <2>3. \A i \in DOMAIN t : i + d \in DOMAIN all /\ t[i] = all[i + d]
    BY <1>3, <2>1, Zenon
  <2> QED
    BY <2>2, <2>3, Zenon
<1>6. t \in Seq(Outcomes) /\ DOMAIN t = 1..Len(t)
  BY <1>2, <1>3, BoundedProperties, LenProperties
<1>7. HistorySize \in Nat /\ HistorySize > 0
  BY BoundsAssumption
<1>8. /\ DOMAIN history = 1..Len(history) /\ Len(history) \in Nat
      /\ \/ n = Len(history) + 1 /\ l = Len(history)
         \/ n \in 1..Len(history) /\ l = Len(history) - 1 /\ history[n].key = o.key
  BY <1>1, LenProperties DEF l
<1>9. /\ Len(t) \in 1..HistorySize
      /\ \A i \in 1..Len(t) - 1 : i + d \in 1..l /\ Before(n, i + d) \in DOMAIN history
      /\ \A i, j \in 1..Len(t) - 1 : i < j => Before(n, i + d) < Before(n, j + d)
      /\ \A u \in DOMAIN history : u # n /\ Len(history) - u + 1 < HistorySize =>
           \E i \in 1..Len(t) - 1 :
             Before(n, i + d) = u /\ Len(t) - i <= Len(history) - u + 1
  <2> DEFINE L == Len(history)
             size == HistorySize
             T == Len(t)
  <2>1. /\ L \in Nat /\ size \in Nat /\ size > 0
        /\ (n = L + 1 /\ l = L) \/ (n \in 1..L /\ l = L - 1)
    BY <1>7, <1>8
  <2>2. d = (IF l + 1 > size THEN l + 1 - size ELSE 0) /\ T = l + 1 - d /\ DOMAIN history = 1..L
    BY <1>5, <1>8
  <2> HIDE DEF L, size, T
  <2>3. /\ l + 1 - d \in 1..size
        /\ \A i \in 1..(l + 1 - d) - 1 : i + d \in 1..l /\ Before(n, i + d) \in 1..L
        /\ \A i, j \in 1..(l + 1 - d) - 1 : i < j => Before(n, i + d) < Before(n, j + d)
        /\ \A u \in 1..L : u # n /\ L - u + 1 < size =>
             \E i \in 1..(l + 1 - d) - 1 :
               Before(n, i + d) = u /\ (l + 1 - d) - i <= L - u + 1
    <3>1. l + 1 - d \in 1..size
      BY <1>2, <2>1, <2>2
    <3>2. ASSUME NEW i \in 1..(l + 1 - d) - 1
          PROVE  i + d \in 1..l /\ Before(n, i + d) \in 1..L
      <4>1. i + d \in 1..l
        BY <1>2, <2>1, <2>2
      <4>2. ASSUME NEW j \in 1..l PROVE (IF j < n THEN j ELSE j + 1) \in 1..L
        BY <1>2, <2>1, <2>2
      <4> QED
        BY <4>1, <4>2 DEF Before
    <3>3. ASSUME NEW i \in 1..(l + 1 - d) - 1, NEW j \in 1..(l + 1 - d) - 1, i < j
          PROVE  Before(n, i + d) < Before(n, j + d)
      BY <3>3 DEF Before
    <3>4. ASSUME NEW u \in 1..L, u # n, L - u + 1 < size
          PROVE  \E i \in 1..(l + 1 - d) - 1 : Before(n, i + d) = u /\ (l + 1 - d) - i <= L - u + 1
      <4> DEFINE p == IF u < n THEN u ELSE u - 1
      <4>1. p \in 1..l /\ Before(n, p) = u /\ l - p <= L - u
        BY <1>2, <2>1, <2>2, <3>4 DEF Before
      <4> HIDE DEF p
      <4>2. l - p + 1 < size /\ (d = 0 \/ d = l + 1 - size)
        BY <1>2, <2>1, <2>2, <3>4, <4>1
      <4>3. p - d >= 1
        BY <1>2, <2>1, <4>1, <4>2
      <4>4. p - d \in 1..(l + 1 - d) - 1
        <5>1. p \in Int /\ d \in Int /\ l \in Int /\ p <= l
          BY <1>2, <2>1, <4>1
        <5> QED
          BY <4>3, <5>1
      <4>5. (p - d) + d = p /\ (l + 1 - d) - (p - d) <= L - u + 1
        BY <1>2, <2>1, <3>4, <4>1
      <4> QED
        BY <4>1, <4>4, <4>5
    <3> QED
      BY <3>1, <3>2, <3>3, <3>4
  <2> QED
    BY <2>2, <2>3 DEF L, size, T
<1>10. t[Len(t)] = o
  <2>1. Len(t) \in DOMAIN t /\ Len(t) + d = l + 1
    <3>1. ASSUME NEW x \in Nat, x = l + 1 - d PROVE x + d = l + 1
      BY <1>2, <3>1
    <3>2. Len(t) \in Nat /\ Len(t) \in 1..Len(t)
      BY <1>7, <1>9
    <3> QED
      BY <1>5, <1>6, <3>1, <3>2
  <2> QED
    BY <1>2, <1>5, <2>1
<1>11. 1..Len(t) - 1 \subseteq DOMAIN t
  BY <1>6, <1>7, <1>9
<1>12. ASSUME NEW i \in 1..Len(t) - 1
       PROVE  t[i] = history[Before(n, i + d)] /\ (t[i].key # o.key \/ o.key = Anonymous)
  <2>1. i \in DOMAIN t /\ i + d \in 1..l
    BY <1>9, <1>11
  <2>2. t[i] = others[i + d]
    BY <1>2, <1>5, <2>1
  <2> QED
    BY <1>1, <2>1, <2>2 DEF l
<1>13. \A i, j \in 1..Len(t) - 1 : i < j => WereInOrder(t[i], t[j])
  BY <1>9, <1>12 DEF WereInOrder
<1>14. ASSUME NEW u \in DOMAIN history, history[u].key # o.key, Len(history) - u + 1 < HistorySize
       PROVE  \E i \in DOMAIN t : t[i] = history[u] /\ Len(t) - i <= Len(history) - u + 1
  <2>1. u # n
    <3>1. n \in 1..Len(history) => history[n].key = o.key
      BY <1>8
    <3> QED
      BY <1>8, <1>14, <3>1
  <2> QED
    BY <1>9, <1>11, <1>12, <1>14, <2>1
<1>15. \A i \in 1..Len(t) - 1 : WasThere(t[i], o)
  BY <1>9, <1>12 DEF WasThere
<1> QED
  BY <1>6, <1>9, <1>10, <1>13, <1>14, <1>15

(***************************************************************************)
(* The types.                                                              *)
(***************************************************************************)
Memory(s, now) ==
  /\ s \in Seq([key: Keys, ok: BOOLEAN, at: 0..now]) /\ Len(s) <= HistorySize
  /\ \A i, j \in DOMAIN s :
       i < j => s[i].at <= s[j].at /\ (s[i].key = s[j].key => s[i].key = Anonymous)

LEMMA MemoryProperties ==
  ASSUME NEW s, clock \in Nat, Memory(s, clock)
  PROVE  s \in Seq(Outcomes) /\ OnePlace(s)
<1>1. s \in Seq([key: Keys, ok: BOOLEAN, at: 0..clock])
  BY DEF Memory
<1>2. Len(s) \in Nat /\ DOMAIN s = 1..Len(s) /\ \A i \in 1..Len(s) : s[i] \in Outcomes
  <2>1. /\ Len(s) \in Nat /\ DOMAIN s = 1..Len(s)
        /\ \A i \in 1..Len(s) : s[i] \in [key: Keys, ok: BOOLEAN, at: 0..clock]
    BY <1>1, LenProperties
  <2>2. [key: Keys, ok: BOOLEAN, at: 0..clock] \subseteq Outcomes
    BY DEF Outcomes
  <2> QED
    BY <2>1, <2>2
<1>3. s \in Seq(Outcomes)
  BY <1>1, <1>2, SeqDef
<1>4. OnePlace(s)
  <2> SUFFICES ASSUME NEW i \in DOMAIN s, NEW j \in DOMAIN s, s[i].key = s[j].key,
                      s[i].key # Anonymous, i # j
               PROVE  FALSE
    BY DEF OnePlace
  <2>1. i < j \/ j < i
    BY <1>2
  <2> QED
    BY <2>1 DEF Memory
<1> QED
  BY <1>3, <1>4

LEMMA MemoryGrows ==
  ASSUME clock \in Nat, Memory(history, clock), NEW o \in [key: Keys, ok: BOOLEAN, at: {clock}]
  PROVE  Memory(Remember(o), clock)
<1> DEFINE t == Remember(o)
<1>1. o \in Outcomes /\ o.at = clock
  BY DEF Outcomes
<1>2. history \in Seq(Outcomes) /\ OnePlace(history)
  BY MemoryProperties
<1>3. /\ t \in Seq(Outcomes) /\ Len(t) \in 1..HistorySize /\ t[Len(t)] = o
      /\ \A i, j \in 1..Len(t) - 1 : i < j => WereInOrder(t[i], t[j])
      /\ \A i \in 1..Len(t) - 1 : WasThere(t[i], o)
  BY <1>1, <1>2, RememberOrder
<1> HIDE DEF t
<1>4. Len(t) \in Nat /\ DOMAIN t = 1..Len(t) /\ Len(t) <= HistorySize
  BY <1>3, LenProperties, BoundsAssumption
<1>5. \A u \in DOMAIN history : history[u] \in [key: Keys, ok: BOOLEAN, at: 0..clock]
  <2>1. history \in Seq([key: Keys, ok: BOOLEAN, at: 0..clock])
    BY DEF Memory
  <2>2. DOMAIN history = 1..Len(history)
    BY <1>2, LenProperties
  <2> DEFINE S == [key: Keys, ok: BOOLEAN, at: 0..clock]
  <2>3. \A i \in 1..Len(history) : history[i] \in S
    <3> HIDE DEF S
    <3>1. history \in Seq(S)
      BY <2>1 DEF S
    <3> QED
      BY <3>1, LenProperties
  <2> QED
    BY <2>2, <2>3
<1>6. o \in [key: Keys, ok: BOOLEAN, at: 0..clock]
  OBVIOUS
<1>7. \A i \in 1..Len(t) : i = Len(t) \/ i \in 1..Len(t) - 1
  <2>1. ASSUME NEW n \in Nat PROVE \A i \in 1..n : i = n \/ i \in 1..n - 1
    OBVIOUS
  <2> QED
    BY <1>4, <2>1
<1>8. t \in Seq([key: Keys, ok: BOOLEAN, at: 0..clock])
  <2>1. \A i \in 1..Len(t) : t[i] \in [key: Keys, ok: BOOLEAN, at: 0..clock]
    BY <1>3, <1>5, <1>6, <1>7 DEF WasThere
  <2>2. t \in [1..Len(t) -> [key: Keys, ok: BOOLEAN, at: 0..clock]]
    BY <1>3, <1>4, <2>1
  <2> DEFINE S == [key: Keys, ok: BOOLEAN, at: 0..clock]
  <2>3. t \in [1..Len(t) -> S]
    BY <2>2
  <2> HIDE DEF S
  <2>4. t \in Seq(S)
    BY <1>4, <2>3, SeqDef
  <2> QED
    BY <2>4 DEF S
<1>9. ASSUME NEW i \in DOMAIN t, NEW j \in DOMAIN t, i < j
      PROVE  t[i].at <= t[j].at /\ (t[i].key = t[j].key => t[i].key = Anonymous)
  <2>1. i \in 1..Len(t) - 1
    BY <1>4, <1>9
  <2>2. CASE j = Len(t)
    <3>1. PICK u \in DOMAIN history :
            t[i] = history[u] /\ (t[i].key # o.key \/ o.key = Anonymous)
      BY <1>3, <2>1 DEF WasThere
    <3>2. t[i].at \in 0..clock /\ t[j] = o
      BY <1>3, <1>5, <2>2, <3>1
    <3>3. t[i].at <= t[j].at
      BY <1>1, <3>2
    <3> QED
      BY <3>1, <3>2, <3>3
  <2>3. CASE j \in 1..Len(t) - 1
    <3>1. PICK u \in DOMAIN history, v \in DOMAIN history :
            u < v /\ t[i] = history[u] /\ t[j] = history[v]
      BY <1>3, <1>9, <2>1, <2>3 DEF WereInOrder
    <3> QED
      BY <3>1 DEF Memory
  <2> QED
    BY <1>4, <1>7, <2>2, <2>3
<1> QED
  BY <1>4, <1>8, <1>9 DEF Memory, t

LEMMA RunTypes ==
  ASSUME TypeOK, NEW k \in Keys, NEW type \in Types, Run(k, type), done' = Ran(k, type)
  PROVE  /\ Memory(history', clock)
         /\ agent' \in [mode: Modes, route: BOOLEAN, origin: BOOLEAN, error: BOOLEAN]
         /\ done' \in [TimedKeys -> [runs: 0..2, others: 0..HistorySize, applied: BOOLEAN]]
<1>1. Memory(history', clock)
  <2>1. [key |-> k, ok |-> ~Refused(type), at |-> clock] \in [key: Keys, ok: BOOLEAN, at: {clock}]
    OBVIOUS
  <2>2. clock \in Nat /\ Memory(history, clock)
    BY DEF TypeOK, Memory
  <2> QED
    BY <2>1, <2>2, MemoryGrows DEF Run
<1>2. agent' \in [mode: Modes, route: BOOLEAN, origin: BOOLEAN, error: BOOLEAN]
  <2>1. agent \in [mode: Modes, route: BOOLEAN, origin: BOOLEAN, error: BOOLEAN]
    BY DEF TypeOK
  <2>2. /\ Stopped(agent) \in [mode: Modes, route: BOOLEAN, origin: BOOLEAN, error: BOOLEAN]
        /\ Paused(agent) \in [mode: Modes, route: BOOLEAN, origin: BOOLEAN, error: BOOLEAN]
        /\ Resumed(agent) \in [mode: Modes, route: BOOLEAN, origin: BOOLEAN, error: BOOLEAN]
        /\ Returning(agent) \in [mode: Modes, route: BOOLEAN, origin: BOOLEAN, error: BOOLEAN]
    BY <2>1 DEF Modes, Stopped, Paused, Resumed, Returning
  <2>3. Effect(type) \in {agent, Stopped(agent), Paused(agent), Resumed(agent), Returning(agent)}
    BY DEF Effect, Types
  <2> QED
    BY <2>1, <2>2, <2>3 DEF Run
<1>3. ASSUME NEW j \in TimedKeys
      PROVE  Ran(k, type)[j] \in [runs: 0..2, others: 0..HistorySize, applied: BOOLEAN]
  <2>1. HistorySize \in Nat
    BY BoundsAssumption
  <2>2. done[j] \in [runs: 0..2, others: 0..HistorySize, applied: BOOLEAN]
    BY DEF TypeOK
  <2>3. CASE j = k
    <3>1. 1 + (done[k].runs % 2) \in 0..2
      <4>1. \A n \in 0..2 : 1 + (n % 2) \in 0..2
        OBVIOUS
      <4> QED
        BY <2>2, <2>3, <4>1
    <3>2. Ran(k, type)[j] =
            [runs |-> 1 + (done[k].runs % 2), others |-> 0, applied |-> ~Refused(type)]
      BY <2>3 DEF Ran
    <3> QED
      BY <2>1, <3>1, <3>2
  <2>4. CASE j # k
    <3>1. Ran(k, type)[j] =
            [done[j] EXCEPT !.others = IF done[j].runs > 0 /\ @ < HistorySize THEN @ + 1 ELSE @]
      BY <2>4 DEF Ran
    <3> QED
      BY <2>1, <2>2, <3>1
  <2> QED
    BY <2>3, <2>4
<1>4. Ran(k, type) = [j \in TimedKeys |-> Ran(k, type)[j]]
  BY DEF Ran
<1> QED
  BY <1>1, <1>2, <1>3, <1>4

LEMMA TypesKept == TypeOK /\ [Next]_vars => TypeOK'
<1> SUFFICES ASSUME TypeOK, [Next]_vars PROVE TypeOK'
  OBVIOUS
<1>1. {HistorySize, MaxClock, MaxRestarts} \subseteq Nat
  BY BoundsAssumption
<1>2. ASSUME NEW m \in Messages, OnCommand(m) PROVE TypeOK'
  <2> DEFINE k == CommandKey(m)
  <2>1. k \in Keys /\ m.type \in Types /\ UNCHANGED <<issued, clock, restarts>>
    BY <1>2, CommandsAreNamed DEF OnCommand, parse_command
  <2>2. ack' \in Keys
    BY <1>2, <2>1, StopsAreNotTimed DEF OnCommand
  <2>3. CASE seen(k)
    BY <1>2, <2>1, <2>2, <2>3 DEF OnCommand, TypeOK
  <2>4. CASE ~seen(k)
    <3>1. Run(k, m.type) /\ done' = Ran(k, m.type)
      BY <1>2, <2>4 DEF OnCommand
    <3> HIDE DEF k
    <3> QED
      BY <2>1, <2>2, <3>1, RunTypes DEF TypeOK, Memory
  <2> QED
    BY <2>3, <2>4
<1>3. ASSUME NEW m \in Messages, OnStop(m) PROVE TypeOK'
  <2> DEFINE k == StopKey(m)
  <2>1. k \in Keys /\ UNCHANGED <<issued, clock, restarts>> /\ ack' \in Keys
    BY <1>3, StopsAreNotTimed DEF OnStop
  <2>2. CASE seen(k)
    BY <1>3, <2>1, <2>2 DEF OnStop, TypeOK
  <2>3. CASE ~seen(k)
    <3>1. Run(k, "STOP") /\ done' = Ran(k, "STOP") /\ "STOP" \in Types
      BY <1>3, <2>3 DEF OnStop, Types
    <3> HIDE DEF k
    <3> QED
      BY <2>1, <3>1, RunTypes DEF TypeOK, Memory
  <2> QED
    BY <2>2, <2>3
<1>4. CASE Tick
  <2>1. clock' \in 0..MaxClock /\ UNCHANGED <<issued, history, agent, restarts, done, ack>>
    BY <1>1, <1>4 DEF Tick, TypeOK
  <2>2. history' \in Seq([key: Keys, ok: BOOLEAN, at: 0..clock'])
    <3>1. /\ Len(history) \in Nat /\ DOMAIN history = 1..Len(history)
          /\ \A i \in 1..Len(history) : history[i] \in [key: Keys, ok: BOOLEAN, at: 0..clock]
      BY LenProperties DEF TypeOK
    <3>2. 0..clock \subseteq 0..clock'
      BY <1>4 DEF Tick, TypeOK
    <3>3. \A i \in 1..Len(history) : history[i] \in [key: Keys, ok: BOOLEAN, at: 0..clock']
      BY <3>1, <3>2
    <3>4. history \in [1..Len(history) -> [key: Keys, ok: BOOLEAN, at: 0..clock']]
      BY <3>1, <3>3 DEF TypeOK
    <3> QED
      BY <2>1, <3>1, <3>4, SeqDef
  <2> QED
    BY <2>1, <2>2 DEF TypeOK
<1>5. CASE Restart
  <2>1. /\ history' = <<>> /\ restarts' \in 0..MaxRestarts /\ ack' \in Keys
        /\ UNCHANGED <<issued, clock>>
    BY <1>1, <1>5, StopsAreNotTimed DEF Restart, TypeOK
  <2>2. history' \in Seq([key: Keys, ok: BOOLEAN, at: 0..clock']) /\ Len(history') <= HistorySize
    BY <1>1, <2>1, EmptySeq
  <2>3. NotRun \in [runs: 0..2, others: 0..HistorySize, applied: BOOLEAN]
    BY <1>1 DEF NotRun
  <2>4. agent' \in [mode: Modes, route: BOOLEAN, origin: BOOLEAN, error: BOOLEAN]
    BY <1>5 DEF Restart, Modes
  <2> QED
    BY <1>5, <2>1, <2>2, <2>3, <2>4 DEF Restart, TypeOK
<1>6. CASE OtherMode
  <2>1. agent' \in [mode: Modes, route: BOOLEAN, origin: BOOLEAN, error: BOOLEAN]
    <3>1. agent \in [mode: Modes, route: BOOLEAN, origin: BOOLEAN, error: BOOLEAN]
      BY DEF TypeOK
    <3>2. ASSUME NEW fix \in BOOLEAN
          PROVE  [mode |-> "AUTO", route |-> TRUE, origin |-> agent.origin \/ fix, error |-> FALSE]
                   \in [mode: Modes, route: BOOLEAN, origin: BOOLEAN, error: BOOLEAN]
      BY DEF Modes
    <3>3. {[agent EXCEPT !.mode = "IDLE", !.route = FALSE],
           [agent EXCEPT !.mode = "ERROR", !.error = TRUE]}
             \subseteq [mode: Modes, route: BOOLEAN, origin: BOOLEAN, error: BOOLEAN]
      BY <3>1 DEF Modes
    <3> QED
      BY <1>6, <3>2, <3>3 DEF OtherMode
  <2> QED
    BY <1>6, <2>1 DEF OtherMode, TypeOK
<1>7. ASSUME NEW m \in Messages, Issue(m) PROVE TypeOK'
  BY <1>1, <1>7 DEF Issue, TypeOK
<1>8. CASE UNCHANGED vars
  BY <1>8 DEF vars, TypeOK
<1> QED
  BY <1>2, <1>3, <1>4, <1>5, <1>6, <1>7, <1>8 DEF Next

LEMMA TypesAtFirst == Init => TypeOK
<1> SUFFICES ASSUME Init PROVE TypeOK
  OBVIOUS
<1>1. {HistorySize, MaxClock, MaxRestarts} \subseteq Nat
  BY BoundsAssumption
<1>2. history \in Seq([key: Keys, ok: BOOLEAN, at: 0..clock]) /\ Len(history) <= HistorySize
  BY <1>1, EmptySeq DEF Init
<1>3. NotRun \in [runs: 0..2, others: 0..HistorySize, applied: BOOLEAN]
  BY <1>1 DEF NotRun
<1> QED
  BY <1>1, <1>2, <1>3, StopsAreNotTimed DEF Init, TypeOK, Modes

\* The memory of what was done never holds more than its size, never out of order, and never two
\* outcomes of one command, for all messages, limits and orders of delivery (_remember).
THEOREM TypeCorrect == Spec => []TypeOK
  BY TypesAtFirst, TypesKept, PTL DEF Spec

(***************************************************************************)
(* Once in a life of the process.                                          *)
(***************************************************************************)
\* An id is one command's: what is for this robot and has the id of a command with a readable
\* time is that command, however often it is delivered.
OneCommandEach ==
  \A m, n \in Messages :
    /\ m.event = "COMMAND" /\ n.event = "COMMAND" /\ Addressed(m) /\ Timed(n)
    /\ CommandKey(m) = CommandKey(n)
    => m = n

\* What ran, and fewer others since than the memory holds, is in it, as far from its end as
\* others ran, and from after the command was issued.
Remembered ==
  \A m \in Messages :
    /\ issued[m] <= clock
    /\ m.event = "COMMAND" /\ Timed(m) /\ CommandKey(m) \in TimedKeys =>
         LET k == CommandKey(m) IN
         /\ done[k].runs > 0 => issued[m] >= 0
         /\ done[k].runs > 0 /\ done[k].others < HistorySize =>
              \E i \in DOMAIN history :
                /\ history[i].key = k
                /\ Len(history) - i <= done[k].others
                /\ issued[m] <= history[i].at

LEMMA RunIsRemembered ==
  ASSUME TypeOK, Remembered, NEW k \in Keys, NEW type \in Types, Run(k, type),
         done' = Ran(k, type), UNCHANGED <<issued, clock>>,
         \A m \in Messages : m.event = "COMMAND" /\ Timed(m) /\ CommandKey(m) = k => issued[m] >= 0
  PROVE  Remembered'
<1> DEFINE o == [key |-> k, ok |-> ~Refused(type), at |-> clock]
<1>1. o \in Outcomes /\ o.key = k /\ o.at = clock
  BY DEF TypeOK, Outcomes
<1>2. history' = Remember(o)
  BY DEF Run
<1> HIDE DEF o
<1>3. history \in Seq(Outcomes) /\ OnePlace(history) /\ clock \in Nat
  <2>1. clock \in Nat /\ Memory(history, clock)
    BY DEF TypeOK, Memory
  <2> QED
    BY <2>1, MemoryProperties
<1>4. /\ history' \in Seq(Outcomes) /\ Len(history') \in 1..HistorySize
      /\ history'[Len(history')] = o
      /\ \A u \in DOMAIN history :
           history[u].key # k /\ Len(history) - u + 1 < HistorySize =>
             \E i \in DOMAIN history' :
               history'[i] = history[u] /\ Len(history') - i <= Len(history) - u + 1
  BY <1>1, <1>2, <1>3, RememberOrder
<1>5. HistorySize \in Nat /\ HistorySize > 0
  BY BoundsAssumption
<1> SUFFICES ASSUME NEW m \in Messages, m.event = "COMMAND", Timed(m), CommandKey(m) \in TimedKeys
             PROVE  LET j == CommandKey(m) IN
                    /\ done'[j].runs > 0 => issued[m] >= 0
                    /\ done'[j].runs > 0 /\ done'[j].others < HistorySize =>
                         \E i \in DOMAIN history' :
                           /\ history'[i].key = j
                           /\ Len(history') - i <= done'[j].others
                           /\ issued[m] <= history'[i].at
  BY DEF Remembered, Timed
<1> DEFINE j == CommandKey(m)
<1>6. /\ j \in TimedKeys /\ issued[m] <= clock
      /\ done[j].runs > 0 => issued[m] >= 0
      /\ done[j].runs > 0 /\ done[j].others < HistorySize =>
           \E i \in DOMAIN history :
             /\ history[i].key = j
             /\ Len(history) - i <= done[j].others
             /\ issued[m] <= history[i].at
  BY DEF Remembered
<1>7. j = k => issued[m] >= 0
  OBVIOUS
<1> HIDE DEF j
<1>8. CASE j = k
  <2>1. done'[j].others = 0
    BY <1>6, <1>8 DEF Ran
  <2>2. Len(history') \in DOMAIN history' /\ Len(history') - Len(history') = 0
    BY <1>4, <1>5, LenProperties
  <2> QED
    BY <1>1, <1>4, <1>6, <1>7, <1>8, <2>1, <2>2 DEF j
<1>9. CASE j # k
  <2>1. done[j] \in [runs: 0..2, others: 0..HistorySize, applied: BOOLEAN]
    BY <1>6 DEF TypeOK
  <2>2. done'[j] =
          [done[j] EXCEPT !.others = IF done[j].runs > 0 /\ @ < HistorySize THEN @ + 1 ELSE @]
    BY <1>6, <1>9 DEF Ran
  <2>3. /\ done'[j].runs = done[j].runs
        /\ done[j].runs > 0 /\ done'[j].others < HistorySize =>
             done[j].others < HistorySize /\ done'[j].others = done[j].others + 1
    BY <1>5, <2>1, <2>2
  <2>4. ASSUME done[j].runs > 0, done'[j].others < HistorySize
        PROVE  \E i \in DOMAIN history' :
                 /\ history'[i].key = j
                 /\ Len(history') - i <= done'[j].others
                 /\ issued[m] <= history'[i].at
    <3>1. PICK u \in DOMAIN history :
            history[u].key = j /\ Len(history) - u <= done[j].others /\ issued[m] <= history[u].at
      BY <1>6, <2>3, <2>4
    <3>2. Len(history) \in Nat /\ u \in Nat /\ done[j].others \in Nat
      BY <1>3, <1>5, <2>1, LenProperties
    <3>3. Len(history) - u + 1 < HistorySize /\ Len(history) - u + 1 <= done'[j].others
      BY <1>5, <2>3, <2>4, <3>1, <3>2
    <3>4. PICK i \in DOMAIN history' :
            history'[i] = history[u] /\ Len(history') - i <= Len(history) - u + 1
      BY <1>4, <1>9, <3>1, <3>3
    <3>5. Len(history') - i <= done'[j].others
      <4>1. Len(history') \in Nat /\ i \in Nat /\ done'[j].others \in Nat
        BY <1>4, <2>3, <2>4, <3>2, LenProperties
      <4> QED
        BY <3>2, <3>3, <3>4, <4>1
    <3> QED
      BY <3>1, <3>4, <3>5
  <2> QED
    BY <1>6, <2>3, <2>4 DEF j
<1> QED
  BY <1>8, <1>9

LEMMA CommandIsRemembered ==
  ASSUME OneCommandEach, TypeOK, Remembered, NEW m \in Messages, OnCommand(m)
  PROVE  /\ Remembered'
         /\ \A k \in TimedKeys : done[k].runs > 0 /\ done'[k].runs # done[k].runs
                                   => done[k].others >= HistorySize
<1> DEFINE j == CommandKey(m)
<1>1. /\ j \in Keys /\ j # Anonymous /\ m.type \in Types /\ ~Stale(m) /\ Addressed(m)
      /\ m.event = "COMMAND" /\ issued[m] >= 0 /\ UNCHANGED <<issued, clock>>
  BY CommandsAreNamed DEF OnCommand, parse_command
<1>2. \A n \in Messages : n.event = "COMMAND" /\ Timed(n) /\ CommandKey(n) = j => n = m
  BY <1>1 DEF OneCommandEach
<1>3. CASE seen(j)
  <2>1. UNCHANGED <<history, done>>
    BY <1>3 DEF OnCommand
  <2> QED
    BY <1>1, <2>1 DEF Remembered, Timed
<1>4. CASE ~seen(j)
  <2>1. Run(j, m.type) /\ done' = Ran(j, m.type)
    BY <1>4 DEF OnCommand
  <2>2. Remembered'
    <3> HIDE DEF j
    <3> QED
      BY <1>1, <1>2, <2>1, RunIsRemembered
  <2>3. ASSUME NEW k \in TimedKeys, done[k].runs > 0, done'[k].runs # done[k].runs,
               ~(done[k].others >= HistorySize)
        PROVE  FALSE
    <3>1. done[k] \in [runs: 0..2, others: 0..HistorySize, applied: BOOLEAN]
      BY DEF TypeOK
    <3>2. k = j
      <4>1. k # j => done'[k] =
              [done[k] EXCEPT !.others = IF done[k].runs > 0 /\ @ < HistorySize THEN @ + 1 ELSE @]
        BY <2>1 DEF Ran
      <4> QED
        BY <2>3, <3>1, <4>1
    <3>3. PICK n \in Messages : n.event = "COMMAND" /\ Timed(n) /\ CommandKey(n) = k
      BY DEF TimedKeys
    <3>4. n = m /\ Timed(m) /\ j \in TimedKeys
      BY <1>2, <3>2, <3>3
    <3>5. done[j].others < HistorySize
      BY <2>3, <3>1, <3>2, BoundsAssumption
    <3>6. PICK i \in DOMAIN history : history[i].key = j /\ issued[m] <= history[i].at
      BY <1>1, <2>3, <3>2, <3>4, <3>5 DEF Remembered
    <3>7. clock - issued[m] <= MaxAge
      <4>1. clock \in Nat /\ issued[m] \in Int /\ MaxAge \in Nat
        BY BoundsAssumption DEF TypeOK
      <4> QED
        BY <1>1, <3>4, <4>1 DEF Stale
    <3>8. history[i].at \in Nat
      <4>1. history \in Seq([key: Keys, ok: BOOLEAN, at: 0..clock])
        BY DEF TypeOK
      <4>2. i \in 1..Len(history) /\ history[i] \in [key: Keys, ok: BOOLEAN, at: 0..clock]
        BY <4>1, LenProperties
      <4> QED
        BY <4>2
    <3>9. clock - history[i].at <= HistoryTTL
      <4>1. clock \in Nat /\ issued[m] \in Int /\ {MaxAge, HistoryTTL} \subseteq Nat
            /\ MaxAge <= HistoryTTL
        BY BoundsAssumption DEF TypeOK
      <4> QED
        BY <3>6, <3>7, <3>8, <4>1
    <3> QED
      BY <1>1, <1>4, <3>6, <3>9 DEF seen, PlacesOf
  <2> QED
    BY <2>2, <2>3
<1> QED
  BY <1>3, <1>4

LEMMA StepIsRemembered ==
  ASSUME OneCommandEach, TypeOK, Remembered, [Next]_vars
  PROVE  /\ Remembered'
         /\ restarts' = restarts =>
              \A k \in TimedKeys : done[k].runs > 0 /\ done'[k].runs # done[k].runs
                                     => done[k].others >= HistorySize
<1>1. ASSUME NEW m \in Messages, OnStop(m)
      PROVE  /\ Remembered'
             /\ \A k \in TimedKeys : done'[k].runs = done[k].runs
  <2> DEFINE j == StopKey(m)
  <2>1. j \in Keys /\ j \notin TimedKeys /\ UNCHANGED <<issued, clock>>
    BY <1>1, StopsAreNotTimed DEF OnStop
  <2>2. CASE seen(j)
    <3>1. UNCHANGED <<history, done>>
      BY <1>1, <2>2 DEF OnStop
    <3> QED
      BY <2>1, <3>1 DEF Remembered, Timed
  <2>3. CASE ~seen(j)
    <3>1. Run(j, "STOP") /\ done' = Ran(j, "STOP") /\ "STOP" \in Types
      BY <1>1, <2>3 DEF OnStop, Types
    <3>2. \A n \in Messages : CommandKey(n) # j
      <4>1. j[1] = "stop"
        BY DEF StopKey, Anonymous
      <4> QED
        BY <4>1 DEF CommandKey
    <3> HIDE DEF j
    <3>3. Remembered'
      BY <2>1, <3>1, <3>2, RunIsRemembered
    <3>4. ASSUME NEW k \in TimedKeys PROVE done'[k].runs = done[k].runs
      <4>1. done[k] \in [runs: 0..2, others: 0..HistorySize, applied: BOOLEAN]
        BY DEF TypeOK
      <4>2. done'[k] =
              [done[k] EXCEPT !.others = IF done[k].runs > 0 /\ @ < HistorySize THEN @ + 1 ELSE @]
        BY <2>1, <3>1 DEF Ran
      <4> QED
        BY <4>1, <4>2
    <3> QED
      BY <3>3, <3>4
  <2> QED
    BY <2>2, <2>3
<1>2. CASE Tick
  <2>1. clock' = clock + 1 /\ UNCHANGED <<issued, history, done>>
    BY <1>2 DEF Tick
  <2>2. clock \in Nat /\ \A m \in Messages : issued[m] \in Int
    BY BoundsAssumption DEF TypeOK
  <2>3. \A m \in Messages : issued[m] <= clock'
    BY <2>1, <2>2 DEF Remembered
  <2> QED
    BY <2>1, <2>3 DEF Remembered, Timed
<1>3. CASE Restart
  <2>1. UNCHANGED <<issued, clock>> /\ done' = [k \in TimedKeys |-> NotRun]
    BY <1>3 DEF Restart
  <2>2. restarts' # restarts
    BY <1>3 DEF Restart, TypeOK
  <2> QED
    BY <2>1, <2>2 DEF Remembered, NotRun
<1>4. ASSUME NEW m \in Messages, Issue(m) PROVE Remembered'
  <2>1. /\ UNCHANGED <<clock, history, done>> /\ issued[m] = -1
        /\ issued' = [issued EXCEPT ![m] = clock] /\ clock \in Nat
    BY <1>4 DEF Issue, TypeOK
  <2>2. \A n \in Messages : issued'[n] = IF n = m THEN clock ELSE issued[n]
    BY <2>1 DEF TypeOK
  <2>3. m.event = "COMMAND" /\ Timed(m) /\ CommandKey(m) \in TimedKeys
          => ~(done[CommandKey(m)].runs > 0)
    BY <2>1 DEF Remembered
  <2> QED
    BY <2>1, <2>2, <2>3 DEF Remembered, Timed
<1>5. CASE OtherMode \/ UNCHANGED vars
  BY <1>5 DEF OtherMode, vars, Remembered, Timed
<1> QED
  BY <1>1, <1>2, <1>3, <1>4, <1>5, CommandIsRemembered DEF Next, Tick, Issue, OtherMode, vars

\* With one command to an id, and an age limit no longer than the memory lasts (120 s of 900 s
\* as shipped), a COMMAND whose time can be read runs once in a life of the process, however
\* often and late it is delivered, unless as many others as the memory holds ran since
\* (CommandExecutor.seen, parse_command).
THEOREM NotRunTwiceHolds == ASSUME OneCommandEach PROVE Spec => NotRunTwice
<1>1. Init => Remembered
  <2> SUFFICES ASSUME Init PROVE Remembered
    OBVIOUS
  <2> QED
    BY DEF Init, Remembered, NotRun
<1>2. TypeOK /\ Remembered /\ [Next]_vars => (TypeOK /\ Remembered)'
  BY StepIsRemembered, TypesKept
<1>3. TypeOK /\ Remembered /\ [Next]_vars =>
        [\A k \in TimedKeys :
           restarts' = restarts /\ done[k].runs > 0 /\ done'[k].runs # done[k].runs =>
             done[k].others >= HistorySize]_vars
  BY StepIsRemembered
<1> QED
  BY <1>1, <1>2, <1>3, TypesAtFirst, PTL DEF Spec, NotRunTwice
=============================================================================
