--------------------------- MODULE OperatorCommands ---------------------------
(***************************************************************************)
(* The operator's channel: COMMAND and the bare STOP event, which the      *)
(* backend delivers late and more than once, from the payload as it        *)
(* arrives (parse_command, parse_stop_event) through the memory of what    *)
(* was already done (CommandExecutor) to the agent's mode and the ACK      *)
(* (BackendLink._on_command, _on_stop_event).                              *)
(*                                                                         *)
(* The handlers run to the end before the next message is handled: the     *)
(* only await is the ACK's, after everything else.                         *)
(***************************************************************************)
EXTENDS Integers, Sequences, FiniteSets, SequencesExt

CONSTANTS
  Messages,      \* what the backend may send, each delivered any number of times
  Ids,           \* what commandId, id and taskId may hold, next to the two below
  Absent, Blank, \* no value (or an empty one); nothing but spaces
  Me,            \* this robot's id
  MaxAge,        \* command_max_age_s
  HistorySize,
  HistoryTTL,
  HomeIsSet,     \* is a home position configured?
  MaxClock,      \* bound on time
  MaxRestarts    \* bound on restarts

Types == {"STOP", "PAUSE", "RESUME", "RETURN"}

\* A payload: the fields the parsers read.  A time is there and readable (it is then when
\* the message was issued), there and unreadable, or absent.
Names == Ids \cup {Absent, Blank}
Times == {"readable", "unreadable", "absent"}

ASSUME MessagesAssumption ==
  \A m \in Messages :
    /\ m.event \in {"COMMAND", "STOP"} /\ {m.commandId, m.id, m.taskId} \subseteq Names
    /\ m.type \in Types \cup {"OTHER", Absent} /\ {m.timestamp, m.issuedAt} \subseteq Times

\* As shipped a command is stale (120 s) long before its outcome is forgotten (900 s).
ASSUME BoundsAssumption ==
  /\ {MaxAge, HistorySize, HistoryTTL, MaxClock, MaxRestarts} \subseteq Nat
  /\ HistorySize > 0 /\ MaxAge <= HistoryTTL
  /\ HomeIsSet \in BOOLEAN

VARIABLES
  issued,    \* when the backend issued each message whose time can be read, -1 before
  clock,
  history,   \* _history: the outcomes remembered, the oldest first
  agent,     \* mode, is a route loaded, was an origin recorded, is an error
  restarts,
  done,      \* ghost: per timed COMMAND, did it run in this life, with effect, and how many
             \* others have run since
  ack        \* ghost: the COMMAND the last message acknowledged, if it did

vars == <<issued, clock, history, agent, restarts, done, ack>>

Modes == {"IDLE", "AUTO", "PAUSED", "STOPPED", "ERROR"}

-----------------------------------------------------------------------------
(* The payloads *)

\* x or y, as Python evaluates it.
Or(x, y) == IF x # Absent THEN x ELSE y
OrTime(x, y) == IF x # "absent" THEN x ELSE y

Timed(m) == OrTime(m.timestamp, m.issuedAt) = "readable"

Addressed(m) == m.robotId \in {Absent, Me}

CommandId(m) == Or(m.commandId, m.id)

\* parse_command: an age only where the first time that is there can be read.
Stale(m) == Timed(m) /\ clock - issued[m] > MaxAge
parse_command(m) ==
  /\ m.type \in Types
  /\ CommandId(m) \in Ids
  /\ Addressed(m)
  /\ ~Stale(m)

\* Identities are kept apart: those of STOP events have a prefix.
CommandKey(m) == <<"command", CommandId(m)>>
Anonymous == <<"stop", Absent>>
StopKey(m) ==
  LET identity == Or(CommandId(m), m.taskId)
  IN IF identity \in Ids THEN <<"stop", identity>> ELSE Anonymous
Keys == ({"command", "stop"} \X Ids) \cup {Anonymous}
TimedKeys == Keys \cap {CommandKey(m) : m \in {n \in Messages : n.event = "COMMAND" /\ Timed(n)}}

-----------------------------------------------------------------------------
(* The agent, as far as the commands reach it *)

Stopped(a) == [a EXCEPT !.mode = "STOPPED", !.route = FALSE]
Paused(a) == [a EXCEPT !.mode = "PAUSED"]
Resumed(a) == [a EXCEPT !.mode = "AUTO", !.error = FALSE]
Returning(a) == [a EXCEPT !.mode = "AUTO", !.route = TRUE]

\* _apply: can the agent do it, and what it then does.
Refused(type) ==
  \/ type = "RESUME" /\ agent.mode \notin {"AUTO", "PAUSED"}
  \/ type = "RESUME" /\ agent.mode = "PAUSED" /\ ~agent.route
  \/ type = "RETURN" /\ ~HomeIsSet /\ ~agent.origin
Effect(type) ==
  CASE Refused(type) -> agent
    [] type = "STOP" -> Stopped(agent)
    [] type = "PAUSE" -> Paused(agent)
    [] type = "RESUME" -> IF agent.mode = "AUTO" THEN agent ELSE Resumed(agent)
    [] type = "RETURN" -> Returning(agent)

-----------------------------------------------------------------------------
(* CommandExecutor *)

NotRun == [runs |-> 0, others |-> 0, applied |-> FALSE]

Init ==
  /\ issued = [m \in Messages |-> IF Timed(m) THEN -1 ELSE 0]
  /\ clock = 0
  /\ history = <<>>
  /\ agent = [mode |-> "IDLE", route |-> FALSE, origin |-> FALSE, error |-> FALSE]
  /\ restarts = 0
  /\ done = [k \in TimedKeys |-> NotRun]
  /\ ack = Anonymous

\* Where an identity is remembered: at one place at most.
PlacesOf(k) == {i \in DOMAIN history : history[i].key = k}
Outcome(k) == history[CHOOSE i \in PlacesOf(k) : TRUE]

\* Mutant: an outcome is forgotten as soon as its command may be stale.
SeenBriefly(k) == \E i \in PlacesOf(k) : clock - history[i].at < MaxAge /\ k # Anonymous

\* seen: an outcome of this identity, not too old.  An anonymous STOP is new each time.
seen(k) == \E i \in PlacesOf(k) : clock - history[i].at <= HistoryTTL /\ k # Anonymous

\* The newest outcomes, as many as the memory holds.
Bounded(s) == SubSeq(s, 1 + (IF Len(s) > HistorySize THEN Len(s) - HistorySize ELSE 0), Len(s))

\* Mutant: an outcome too old is not dropped when the command runs again.
RememberTwice(outcome) == Bounded(Append(history, outcome))

\* _remember: the newest last, the oldest dropped.
Remember(outcome) ==
  LET places == IF outcome.key = Anonymous THEN {} ELSE PlacesOf(outcome.key)
      others == IF places = {} THEN history ELSE RemoveAt(history, CHOOSE i \in places : TRUE)
  IN Bounded(Append(others, outcome))

\* execute: once, or not at all; a refusal is an outcome, too.
Run(k, type) ==
  /\ agent' = Effect(type)
  /\ history' = Remember([key |-> k, ok |-> ~Refused(type), at |-> clock])

\* What the ghost keeps of a run; runs alternates between 1 and 2.
Ran(k, type) ==
  [j \in TimedKeys |->
     IF j = k THEN [runs |-> 1 + (done[k].runs % 2), others |-> 0, applied |-> ~Refused(type)]
     ELSE [done[j] EXCEPT !.others = IF done[j].runs > 0 /\ @ < HistorySize THEN @ + 1 ELSE @]]

-----------------------------------------------------------------------------
(* The handlers *)

\* Mutant: whatever was executed before is acknowledged.
AckOfAnyDuplicate(k, type) == IF seen(k) THEN TRUE ELSE ~Refused(type)

\* _on_command: acknowledged if it was applied, now or before.
Ack(k, type) == IF seen(k) THEN Outcome(k).ok ELSE ~Refused(type)

OnCommand(m) ==
  /\ m.event = "COMMAND" /\ issued[m] >= 0
  /\ parse_command(m)
  /\ LET k == CommandKey(m) IN
     /\ ack' = IF Ack(k, m.type) THEN k ELSE Anonymous
     /\ IF seen(k) THEN UNCHANGED <<agent, history, done>>
        ELSE Run(k, m.type) /\ done' = Ran(k, m.type)
  /\ UNCHANGED <<issued, clock, restarts>>

\* _on_stop_event: whatever its age and its form, and never acknowledged.
OnStop(m) ==
  /\ m.event = "STOP" /\ issued[m] >= 0
  /\ Addressed(m)
  /\ LET k == StopKey(m) IN
     IF seen(k)
     THEN UNCHANGED <<agent, history, done>>
     ELSE Run(k, "STOP") /\ done' = Ran(k, "STOP")
  /\ ack' = Anonymous
  /\ UNCHANGED <<issued, clock, restarts>>

-----------------------------------------------------------------------------
(* Everything else *)

Issue(m) ==
  /\ issued[m] = -1
  /\ issued' = [issued EXCEPT ![m] = clock]
  /\ UNCHANGED <<clock, history, agent, restarts, done, ack>>

Tick ==
  /\ clock < MaxClock
  /\ clock' = clock + 1
  /\ UNCHANGED <<issued, history, agent, restarts, done, ack>>

\* start_mission, an accepted OFFER; the end of the route; a failed tick.
OtherMode ==
  /\ \/ /\ agent.mode # "AUTO"
        /\ \E fix \in BOOLEAN :
             agent' = [mode |-> "AUTO", route |-> TRUE, origin |-> agent.origin \/ fix, error |-> FALSE]
     \/ /\ agent.mode = "AUTO"
        /\ agent' \in {[agent EXCEPT !.mode = "IDLE", !.route = FALSE],
                       [agent EXCEPT !.mode = "ERROR", !.error = TRUE]}
  /\ UNCHANGED <<issued, clock, history, restarts, done, ack>>

\* What was executed, and the agent's state, are forgotten.
Restart ==
  /\ restarts < MaxRestarts /\ restarts' = restarts + 1
  /\ history' = <<>>
  /\ agent' = [mode |-> "IDLE", route |-> FALSE, origin |-> FALSE, error |-> FALSE]
  /\ done' = [k \in TimedKeys |-> NotRun]
  /\ ack' = Anonymous
  /\ UNCHANGED <<issued, clock>>

Next ==
  \/ \E m \in Messages : Issue(m) \/ OnCommand(m) \/ OnStop(m)
  \/ Tick \/ OtherMode \/ Restart

Spec == Init /\ [][Next]_vars

-----------------------------------------------------------------------------
(* Properties *)

\* Every variable has its type; the memory is bounded, in the order of execution, and
\* holds one outcome of an identity.
TypeOK ==
  /\ issued \in [Messages -> -1..MaxClock] /\ clock \in 0..MaxClock
  /\ history \in Seq([key: Keys, ok: BOOLEAN, at: 0..clock]) /\ Len(history) <= HistorySize
  /\ \A i, j \in DOMAIN history :
       i < j => /\ history[i].at <= history[j].at
                /\ history[i].key = history[j].key => history[i].key = Anonymous
  /\ agent \in [mode: Modes, route: BOOLEAN, origin: BOOLEAN, error: BOOLEAN]
  /\ restarts \in 0..MaxRestarts /\ ack \in Keys
  /\ done \in [TimedKeys -> [runs: 0..2, others: 0..HistorySize, applied: BOOLEAN]]

\* However often and however late a COMMAND whose time can be read is delivered, one life of
\* the process carries it out once, unless as many others as the memory holds ran since: by
\* the time its outcome is too old to be remembered, the command is too old to be accepted.
\* (One COMMAND to an id: another with the id of one, and no time, would be taken for it.)
NotRunTwice ==
  [][\A k \in TimedKeys :
       restarts' = restarts /\ done[k].runs > 0 /\ done'[k].runs # done[k].runs =>
         done[k].others >= HistorySize]_vars

\* A COMMAND_ACK is evidence of an effect: what is acknowledged, as a duplicate too, was
\* carried out by this process, and not only refused.
AckIsEvidence == ack \in TimedKeys => done[ack].applied
=============================================================================
