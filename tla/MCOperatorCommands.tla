-------------------------- MODULE MCOperatorCommands --------------------------
(* Three commands of an operator, a cancelled task, and payloads with their faults. *)
EXTENDS OperatorCommands

Command(id, type, time) ==
  [event |-> "COMMAND", commandId |-> id, id |-> Absent, taskId |-> Absent, type |-> type,
   robotId |-> Absent, timestamp |-> time, issuedAt |-> "absent"]
Stop(id) == [Command(Absent, Absent, "absent") EXCEPT !.event = "STOP", !.taskId = id]

CONSTANTS a, b, c

MCMessages ==
  { Command(a, "RETURN", "readable"), Command(b, "RESUME", "absent"),
    [Command(Absent, "PAUSE", "absent") EXCEPT !.id = c, !.issuedAt = "readable", !.robotId = Me],
    Stop(a), [Stop(Absent) EXCEPT !.commandId = Blank],
    Command(Blank, "STOP", "unreadable"), [Command(a, "STOP", "absent") EXCEPT !.robotId = b] }
=============================================================================
