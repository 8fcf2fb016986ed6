------------------------------ MODULE Esp32Link ------------------------------
(***************************************************************************)
(* The serial link to the ESP32 (robotx/esp32/link.py): the I/O thread     *)
(* that opens, reads, writes and closes the port; the agent thread that    *)
(* submits motion, reads the status, acknowledges a reboot, starts and     *)
(* stops the link; and, outside src/, the ESP32 of PROTOCOL.md, which      *)
(* answers commands, sends telemetry and reboots.                          *)
(*                                                                         *)
(* An action is one critical section of the link's lock or one call on the *)
(* port.  Time is abstract: what a clock comparison can find (telemetry    *)
(* gone stale, a command unanswered too long, the PING retry due, a motion *)
(* command too old) happens by an action of its own.                       *)
(***************************************************************************)
EXTENDS Integers, Sequences, FiniteSets

CONSTANTS
  SeqMax,          \* SEQ_MAX: sequence numbers are 1..SeqMax, then 1 again
  MaxPending,      \* Esp32Config.max_pending
  MaxTimeouts,     \* Esp32Config.max_consecutive_ack_timeouts
  TransmitEnabled, \* Esp32Config.transmit_enabled
  MotionEnabled,   \* Esp32Config.motion_enabled
  MaxConnections,  \* bound: how often the port is opened
  MaxBoots,        \* bound: how often the ESP32 boots
  MaxUptime,       \* bound: uptime_ms in coarse units, where it stops counting
  MaxFaults,       \* bound: lost lines, failed calls, silences and late answers together
  MaxWire,         \* bound: lines under way in one direction
  BadProto,        \* boots of the ESP32 with a firmware of another protocol version
  DriveOutcomes    \* what telemetry may say of motor_drive_available

ASSUME ConfigAssumption ==
  /\ {SeqMax, MaxPending, MaxTimeouts, MaxWire, MaxBoots} \subseteq Nat \ {0}
  /\ {MaxConnections, MaxUptime, MaxFaults} \subseteq Nat
  /\ {TransmitEnabled, MotionEnabled} \subseteq BOOLEAN
  /\ MotionEnabled => TransmitEnabled
  /\ BadProto \subseteq Nat
  /\ DriveOutcomes \subseteq BOOLEAN /\ DriveOutcomes # {}

VARIABLES
  link,    \* what _lock guards
  io,      \* the I/O thread: where it is, the lines it read, the frames it will write
  toEsp,   \* frames on their way to the ESP32
  toPi,    \* lines on their way to the Pi
  ctl,     \* the ESP32
  faults,  \* how much of MaxFaults is used
  hist     \* ghost: what a property needs to remember

vars == <<link, io, toEsp, toPi, ctl, faults, hist>>

Motion == {"STOP", "DRIVE"}
Commands == {"PING"} \cup Motion
NoUptime == -1
NoSlot == [cmd |-> "none", old |-> FALSE, conn |-> 0]
Statuses == {"DISCONNECTED", "CONNECTING", "UP", "STALE", "DEGRADED", "STOPPING"}

Last(s) == s[Len(s)]

(***************************************************************************)
(* Esp32Link.__init__: nothing started.  The ESP32 is up already.          *)
(***************************************************************************)
Init ==
  /\ link = [status |-> "DISCONNECTED", port_open |-> FALSE, stopping |-> FALSE,
             telemetry |-> "none", drive |-> FALSE, last_uptime |-> NoUptime,
             reboot_latched |-> FALSE, proto_problem |-> FALSE,
             seq |-> 0, seq_synced |-> FALSE, pending |-> <<>>, timeouts |-> 0,
             ping_seq |-> 0, ping_due |-> TRUE, bidirectional |-> FALSE,
             slot |-> NoSlot, motion_sent |-> FALSE]
  /\ io = [pc |-> "idle", lines |-> <<>>, out |-> <<>>]
  /\ toEsp = <<>>
  /\ toPi = <<>>
  /\ ctl \in [boot: {1}, uptime: {0}, last_seq: {0, SeqMax}]
  /\ faults = 0
  /\ hist = [conn |-> 0, heard |-> 0,
             proof |-> [conn |-> 0, boot |-> 0], unsent |-> "none"]

(***************************************************************************)
(* What the handlers do to the locked state l.                             *)
(***************************************************************************)

\* SequenceCounter.next: 0 stands for "no number yet".
WrapLate(s) == IF s > SeqMax THEN 1 ELSE s + 1  \* mutant: off by one at the wrap
NextSeq(s) == IF s >= SeqMax THEN 1 ELSE s + 1

\* _pending is a dict, in the order of insertion: a number has one entry at most, and one
\* used again replaces the entry under it.
Without(p, seq) ==
  LET places == {i \in DOMAIN p : p[i].seq = seq}
      place == CHOOSE i \in places : TRUE
  IN IF places = {} THEN p ELSE SubSeq(p, 1, place - 1) \o SubSeq(p, place + 1, Len(p))
Put(p, seq, cmd) == Append(Without(p, seq), [seq |-> seq, cmd |-> cmd])
PendingSeqs(p) == {p[i].seq : i \in DOMAIN p}

NothingForgotten(l) == l  \* mutant of ResetConnection
\* _reset_connection: forget what belonged to the previous connection.
ResetConnection(l) ==
  [l EXCEPT !.pending = <<>>, !.slot = NoSlot, !.motion_sent = FALSE,
            !.bidirectional = FALSE, !.ping_seq = 0, !.ping_due = TRUE,
            !.seq_synced = FALSE, !.timeouts = 0, !.telemetry = "none"]

\* _reboot: latch a detected reboot of the ESP32.
Reboot(l) ==
  [l EXCEPT !.reboot_latched = TRUE, !.pending = <<>>, !.slot = NoSlot,
            !.bidirectional = FALSE, !.ping_seq = 0, !.seq = 0, !.seq_synced = TRUE]

\* _refresh_status: silence goes before every latched fault.
Faulty(l) == l.reboot_latched \/ l.proto_problem \/ l.timeouts >= MaxTimeouts
Unproven(l) == l.telemetry = "none" \/ (TransmitEnabled /\ ~l.bidirectional)
Refresh(l) ==
  IF ~l.port_open \/ l.stopping THEN l
  ELSE [l EXCEPT !.status = IF l.telemetry = "stale" THEN "STALE"
                            ELSE IF Faulty(l) THEN "DEGRADED"
                            ELSE IF Unproven(l) THEN "CONNECTING" ELSE "UP"]

NoteProto(l, boot) ==
  IF boot \in BadProto
  THEN [l EXCEPT !.proto_problem = TRUE, !.bidirectional = FALSE]
  ELSE l

\* _on_telemetry
OnTelemetry(l, line) ==
  LET r == IF line.uptime < l.last_uptime THEN Reboot(l) ELSE l
  IN [r EXCEPT !.last_uptime = line.uptime, !.telemetry = "fresh", !.drive = line.drive,
               !.seq = IF r.seq_synced THEN @ ELSE line.last_seq, !.seq_synced = TRUE]

\* _on_event, READY: a reboot unless nothing was known of the ESP32 before.
OnReady(l, line) ==
  LET n == NoteProto(l, line.boot)
      r == IF l.last_uptime # NoUptime THEN Reboot(n) ELSE n
  IN [r EXCEPT !.last_uptime = line.uptime, !.seq = 0, !.seq_synced = TRUE]

Matches(l, line) == line.seq \in PendingSeqs(l.pending)
EntryOf(l, line) == l.pending[CHOOSE i \in DOMAIN l.pending : l.pending[i].seq = line.seq]
AnswersPing(l, line) ==
  /\ Matches(l, line)
  /\ EntryOf(l, line).cmd = "PING"
  /\ line.seq = l.ping_seq

\* _on_ack: an answer to nothing pending is only counted.
OnAck(l, line) ==
  LET a == [l EXCEPT !.pending = Without(@, line.seq), !.timeouts = 0,
                     !.seq = IF line.result = "STALE" THEN line.last_seq ELSE @]
      p == NoteProto([a EXCEPT !.ping_seq = 0], line.boot)
  IN IF ~Matches(l, line) THEN l
     ELSE IF ~AnswersPing(l, line) THEN a
     ELSE IF line.result = "ACCEPTED" THEN [p EXCEPT !.bidirectional = ~p.proto_problem]
     ELSE [a EXCEPT !.ping_seq = 0, !.ping_due = TRUE]

\* _on_error with the number of a command: the command is over.
OnError(l, line) ==
  [l EXCEPT !.pending = Without(@, line.seq),
            !.timeouts = IF Matches(l, line) THEN 0 ELSE @,
            !.ping_seq = IF line.seq = @ THEN 0 ELSE @]

\* _handle_line, for a line that passed decode_line.
Handled(l, line) ==
  Refresh(CASE line.type = "TELEMETRY" -> OnTelemetry(l, line)
            [] line.type = "READY"     -> OnReady(l, line)
            [] line.type = "DIAG"      -> NoteProto(l, line.boot)
            [] line.type = "ACK"       -> OnAck(l, line)
            [] OTHER                   -> OnError(l, line))

\* _motion_ready: whether the link would carry cmd right now.
MotionReady(l, cmd) ==
  /\ TransmitEnabled /\ MotionEnabled
  /\ l.port_open /\ ~l.stopping /\ l.status = "UP"
  /\ l.bidirectional /\ ~l.reboot_latched /\ l.telemetry = "fresh"
  /\ cmd = "DRIVE" => l.drive

PingWanted(l) ==
  /\ l.seq_synced /\ l.telemetry = "fresh"
  /\ ~l.bidirectional /\ l.ping_seq = 0
  /\ ~l.reboot_latched /\ ~l.proto_problem
  /\ l.ping_due
  /\ Len(l.pending) < MaxPending

NoPendingLimit(l) ==  \* mutant of MotionWanted
  l.slot # NoSlot /\ ~l.slot.old /\ MotionReady(l, l.slot.cmd)

MotionWanted(l) ==
  /\ l.slot # NoSlot /\ ~l.slot.old
  /\ MotionReady(l, l.slot.cmd)
  /\ Len(l.pending) < MaxPending

\* A frame, with the ghosts that say on which connection it was asked for and which
\* boot of the ESP32 had answered the PING.
Frame(l, cmd, conn) ==
  [cmd |-> cmd, seq |-> NextSeq(l.seq), conn |-> conn, boot |-> hist.proof.boot]

(***************************************************************************)
(* The I/O thread.                                                         *)
(***************************************************************************)
Fault == faults < MaxFaults /\ faults' = faults + 1
SameWorld == UNCHANGED <<ctl, faults>>

\* _open: a port that opens begins a new connection.  The back-off of a second or
\* more before it outlasts whatever was on the wire.
Open ==
  /\ io.pc = "closed"
  /\ hist.conn < MaxConnections
  /\ toEsp = <<>>
  /\ link' = [ResetConnection(link) EXCEPT !.port_open = TRUE, !.status = "CONNECTING"]
  /\ io' = [io EXCEPT !.pc = "read"]
  /\ hist' = [hist EXCEPT !.conn = @ + 1]
  /\ UNCHANGED <<toEsp, toPi>> /\ SameWorld

OpenFails ==
  /\ io.pc = "closed" /\ ~link.stopping
  /\ Fault
  /\ link' = [link EXCEPT !.status = "DISCONNECTED"]
  /\ UNCHANGED <<io, toEsp, toPi, ctl, hist>>

NeverLooksAtStop == io.pc \in {"read", "poll"}  \* mutant of AtLoopTop
AtLoopTop == io.pc = "read" \/ (io.pc = "poll" /\ ~link.stopping)

\* port.read: the next lines that have arrived, if any.
Read ==
  /\ AtLoopTop
  /\ \E n \in 0..Len(toPi) :
       /\ toPi # <<>> => n > 0
       /\ io' = [io EXCEPT !.pc = "lines", !.lines = SubSeq(toPi, 1, n)]
       /\ toPi' = SubSeq(toPi, n + 1, Len(toPi))
  /\ UNCHANGED <<link, toEsp, hist>> /\ SameWorld

\* _lost: a failed read or write ends the connection; what was still to be written
\* is gone, and what arrives until the port is open again is not kept.
Lost ==
  /\ AtLoopTop \/ io.pc = "write"
  /\ Fault
  /\ link' = [ResetConnection(link) EXCEPT !.port_open = FALSE, !.status = "DISCONNECTED"]
  /\ io' = [io EXCEPT !.pc = "closed", !.out = <<>>]
  /\ toPi' = <<>>
  /\ UNCHANGED <<toEsp, ctl, hist>>

HandleLine ==
  /\ io.pc = "lines" /\ io.lines # <<>>
  /\ LET line == Head(io.lines)
         proves == /\ line.type = "ACK" /\ line.result = "ACCEPTED"
                   /\ AnswersPing(link, line)
     IN /\ link' = Handled(link, line)
        /\ hist' = [hist EXCEPT !.heard = line.boot,
                      !.proof = IF proves THEN [conn |-> line.conn, boot |-> line.boot]
                                ELSE @]
  /\ io' = [io EXCEPT !.lines = Tail(@)]
  /\ UNCHANGED <<toEsp, toPi>> /\ SameWorld

\* Whether the frame numbered seq, or its answer, is still under way.
UnderWay(seq) ==
  \/ \E i \in DOMAIN toEsp : toEsp[i].seq = seq
  \/ \E s \in {toPi, io.lines} : \E i \in DOMAIN s :
       s[i].type \in {"ACK", "ERROR"} /\ s[i].seq = seq

\* mutant of ExpirePending: the expired PING is still waited for.
PingWaitedFor(n) ==
  LET count == link.timeouts + n
  IN /\ IF \E i \in 1..n : UnderWay(link.pending[i].seq) THEN Fault ELSE UNCHANGED faults
     /\ link' = Refresh([link EXCEPT
                  !.pending = SubSeq(@, n + 1, Len(@)),
                  !.timeouts = IF count > MaxTimeouts THEN MaxTimeouts ELSE count])

\* _expire_pending of the n oldest commands.  To give up one whose answer is
\* still coming is a fault; one that was lost is given up in time.
ExpirePending(n) ==
  LET gone == {link.pending[i].seq : i \in 1..n}
      count == link.timeouts + n
  IN /\ IF \E q \in gone : UnderWay(q) THEN Fault ELSE UNCHANGED faults
     /\ link' = Refresh([link EXCEPT
                  !.pending = SubSeq(@, n + 1, Len(@)),
                  !.timeouts = IF count > MaxTimeouts THEN MaxTimeouts ELSE count,
                  !.ping_seq = IF @ \in gone THEN 0 ELSE @])

\* poll_once, after the lines: _expire_pending and _refresh_status.
TickExpiring(n) ==
  /\ io.pc = "lines" /\ io.lines = <<>>
  /\ ExpirePending(n)
  /\ io' = [io EXCEPT !.pc = IF TransmitEnabled THEN "transmit" ELSE "poll"]
  /\ UNCHANGED <<toEsp, toPi, ctl, hist>>

Tick == \E n \in 0..Len(link.pending) : TickExpiring(n)

\* The same when the oldest command has been lost and its ack_timeout_s is over.
GiveUpLost ==
  \E n \in 1..Len(link.pending) :
    (\A i \in 1..n : ~UnderWay(link.pending[i].seq)) /\ TickExpiring(n)

WithPing(l) ==
  IF PingWanted(l)
  THEN [l EXCEPT !.seq = NextSeq(@), !.pending = Put(@, NextSeq(l.seq), "PING"),
                 !.ping_seq = NextSeq(l.seq), !.ping_due = FALSE]
  ELSE l
SlotKept(l) ==  \* mutant of WithMotion: what was sent stays in the slot
  IF MotionWanted(l)
  THEN [l EXCEPT !.seq = NextSeq(@), !.pending = Put(@, NextSeq(l.seq), l.slot.cmd),
                 !.motion_sent = TRUE]
  ELSE [l EXCEPT !.slot = NoSlot]
WithMotion(l) ==
  IF MotionWanted(l)
  THEN [l EXCEPT !.seq = NextSeq(@), !.pending = Put(@, NextSeq(l.seq), l.slot.cmd),
                 !.slot = NoSlot, !.motion_sent = TRUE]
  ELSE [l EXCEPT !.slot = NoSlot]

\* _transmit, under the lock: build what is due.
Transmit ==
  /\ io.pc = "transmit"
  /\ LET pinged == WithPing(link)
         ping == IF PingWanted(link) THEN <<Frame(link, "PING", hist.conn)>> ELSE <<>>
         motion == IF MotionWanted(pinged)
                   THEN <<Frame(pinged, link.slot.cmd, link.slot.conn)>> ELSE <<>>
     IN /\ link' = WithMotion(pinged)
        /\ io' = [io EXCEPT !.pc = IF ping \o motion = <<>> THEN "poll" ELSE "write",
                            !.out = ping \o motion]
        /\ hist' = [hist EXCEPT !.unsent = IF motion # <<>> THEN "none" ELSE @]
  /\ UNCHANGED <<toEsp, toPi>> /\ SameWorld

\* _transmit, outside the lock: one frame to the port.
Write ==
  /\ io.pc = "write"
  /\ toEsp' = Append(toEsp, Head(io.out))
  /\ io' = [io EXCEPT !.out = Tail(@), !.pc = IF Len(io.out) = 1 THEN "poll" ELSE "write"]
  /\ UNCHANGED <<link, toPi, hist>> /\ SameWorld

\* _shutdown_port, under the lock: decide on the final STOP.
FinalStopWanted == MotionEnabled /\ link.motion_sent /\ link.bidirectional /\ ~link.reboot_latched
Shutdown ==
  /\ io.pc = "poll" /\ link.stopping
  /\ link' = [link EXCEPT !.port_open = FALSE, !.seq = IF FinalStopWanted THEN NextSeq(@) ELSE @]
  /\ io' = [io EXCEPT !.pc = "final",
              !.out = IF FinalStopWanted THEN <<Frame(link, "STOP", hist.conn)>> ELSE <<>>]
  /\ UNCHANGED <<toEsp, toPi, hist>> /\ SameWorld

ExitClosed ==
  /\ io.pc = "closed" /\ link.stopping
  /\ io' = [io EXCEPT !.pc = "exited"]
  /\ UNCHANGED <<link, toEsp, toPi, hist>> /\ SameWorld

\* _shutdown_port, outside the lock: write the final STOP, which may fail, and close.
Close ==
  /\ io.pc = "final"
  /\ \/ toEsp' = toEsp \o io.out /\ UNCHANGED faults
     \/ io.out # <<>> /\ Fault /\ UNCHANGED toEsp
  /\ io' = [io EXCEPT !.pc = "exited", !.out = <<>>]
  /\ toPi' = <<>>
  /\ UNCHANGED <<link, ctl, hist>>

(***************************************************************************)
(* The agent's thread.                                                     *)
(***************************************************************************)
Start ==
  /\ io.pc = "idle"
  /\ link' = [link EXCEPT !.stopping = FALSE, !.status = "CONNECTING"]
  /\ io' = [io EXCEPT !.pc = "closed"]
  /\ UNCHANGED <<toEsp, toPi, hist>> /\ SameWorld

Stop ==
  /\ io.pc \notin {"idle", "exited"} /\ ~link.stopping
  /\ link' = [link EXCEPT !.stopping = TRUE, !.status = "STOPPING"]
  /\ UNCHANGED <<io, toEsp, toPi, hist>> /\ SameWorld

\* stop(), once the thread has been joined.
Joined ==
  /\ io.pc = "exited"
  /\ link' = [link EXCEPT !.status = "DISCONNECTED"]
  /\ io' = [io EXCEPT !.pc = "idle"]
  /\ UNCHANGED <<toEsp, toPi, hist>> /\ SameWorld

\* submit: a DRIVE the link cannot carry now becomes STOP; the newest offer replaces.
Submit(wish) ==
  LET cmd == IF wish = "DRIVE" /\ ~MotionReady(link, "DRIVE") THEN "STOP" ELSE wish
  IN /\ MotionEnabled
     /\ link' = [link EXCEPT !.slot = [cmd |-> cmd, old |-> FALSE,
                                       conn |-> IF link.port_open THEN hist.conn ELSE 0]]
     /\ hist' = [hist EXCEPT !.unsent = cmd]
     /\ UNCHANGED <<io, toEsp, toPi>> /\ SameWorld

\* status(): the agent's look refreshes the status as well.
ReadStatus ==
  /\ link' = Refresh(link)
  /\ UNCHANGED <<io, toEsp, toPi, hist>> /\ SameWorld

\* acknowledge_reboot: lifts the latch; the link must prove itself again.  The operator
\* is slower than the wire: what was written before is answered or lost by then.
Acknowledged(l) ==
  [l EXCEPT !.reboot_latched = FALSE, !.bidirectional = FALSE,
            !.ping_seq = 0, !.ping_due = TRUE]
AcknowledgeReboot ==
  /\ link.reboot_latched
  /\ \A seq \in 1..SeqMax : ~UnderWay(seq)
  /\ link' = Acknowledged(link)
  /\ UNCHANGED <<io, toEsp, toPi, hist>> /\ SameWorld

(***************************************************************************)
(* Time.                                                                   *)
(***************************************************************************)

\* No telemetry for stale_after_s, five frames' time: the ESP32 went quiet.
TelemetryAges ==
  /\ link.telemetry = "fresh"
  /\ Fault
  /\ link' = [link EXCEPT !.telemetry = "stale"]
  /\ UNCHANGED <<io, toEsp, toPi, ctl, hist>>

\* max_command_age_s after the submission.
SlotAges ==
  /\ link.slot # NoSlot /\ ~link.slot.old
  /\ link' = [link EXCEPT !.slot.old = TRUE]
  /\ UNCHANGED <<io, toEsp, toPi, hist>> /\ SameWorld

\* ping_retry_s after the last PING.
PingFallsDue ==
  /\ ~link.ping_due
  /\ link' = [link EXCEPT !.ping_due = TRUE]
  /\ UNCHANGED <<io, toEsp, toPi, hist>> /\ SameWorld

(***************************************************************************)
(* The ESP32 (PROTOCOL.md) and the wire: external to src/.                 *)
(***************************************************************************)

\* Bytes that arrive while no port is open are not kept.
Send(line) == toPi' = IF link.port_open THEN Append(toPi, line) ELSE toPi
Room == Len(toPi) < MaxWire

Telemeter ==
  /\ Room /\ ~\E i \in DOMAIN toPi : toPi[i].type = "TELEMETRY"
  /\ \E u \in {ctl.uptime, ctl.uptime + 1}, d \in DriveOutcomes :
       /\ u <= MaxUptime
       /\ ctl' = [ctl EXCEPT !.uptime = u]
       /\ Send([type |-> "TELEMETRY", boot |-> ctl.boot, uptime |-> u,
                last_seq |-> ctl.last_seq, drive |-> d])
  /\ UNCHANGED <<link, io, toEsp, faults, hist>>

\* DIAG SYSTEM names the protocol version.
Diagnose ==
  /\ Room /\ ctl.boot \in BadProto
  /\ Send([type |-> "DIAG", boot |-> ctl.boot])
  /\ UNCHANGED <<link, io, toEsp, ctl, faults, hist>>

\* Section 8: how far a number is ahead of the last one acknowledged.
Steps(seq, last) == (seq - last) % SeqMax
Verdict(seq) ==
  IF ctl.last_seq = 0 THEN "ACCEPTED"
  ELSE IF Steps(seq, ctl.last_seq) = 0 THEN "DUPLICATE"
  ELSE IF Steps(seq, ctl.last_seq) <= SeqMax \div 2 THEN "ACCEPTED" ELSE "STALE"

\* Sections 7 and 9: exactly one answer; an ACK that does not fit its buffer becomes
\* an ERROR with its number.
Receive ==
  /\ toEsp # <<>> /\ Room
  /\ LET f == Head(toEsp)
         v == Verdict(f.seq)
         ack == [type |-> "ACK", boot |-> ctl.boot, seq |-> f.seq, result |-> v,
                 last_seq |-> ctl.last_seq, conn |-> f.conn]
     IN /\ ctl' = [ctl EXCEPT !.last_seq = IF v = "ACCEPTED" THEN f.seq ELSE @]
        /\ \/ Send(ack) /\ UNCHANGED faults
           \/ Fault /\ Send([type |-> "ERROR", boot |-> ctl.boot, seq |-> f.seq])
  /\ toEsp' = Tail(toEsp)
  /\ UNCHANGED <<link, io, hist>>

\* A reboot forgets last_seq; what had arrived may survive in the UART's buffer.
\* READY is the first line of the new boot.
RebootEsp ==
  /\ ctl.boot < MaxBoots /\ Room
  /\ ctl' = [boot |-> ctl.boot + 1, uptime |-> 0, last_seq |-> 0]
  /\ toEsp' \in {toEsp, <<>>}
  /\ Send([type |-> "READY", boot |-> ctl'.boot, uptime |-> 0])
  /\ UNCHANGED <<link, io, faults, hist>>

\* Noise: a frame, or a line other than READY, that fails its CRC.
LoseFrame ==
  /\ toEsp # <<>> /\ Fault
  /\ toEsp' = Tail(toEsp)
  /\ UNCHANGED <<link, io, toPi, ctl, hist>>
LoseLine ==
  /\ toPi # <<>> /\ Head(toPi).type # "READY" /\ Fault
  /\ toPi' = Tail(toPi)
  /\ UNCHANGED <<link, io, toEsp, ctl, hist>>

IOThread ==
  \/ Open \/ OpenFails \/ Read \/ Lost \/ HandleLine \/ Tick \/ Transmit \/ Write
  \/ Shutdown \/ ExitClosed \/ Close
Agent ==
  \/ Start \/ Stop \/ Joined \/ ReadStatus \/ AcknowledgeReboot
  \/ \E wish \in Motion : Submit(wish)
Time == TelemetryAges \/ SlotAges \/ PingFallsDue
Environment == Telemeter \/ Diagnose \/ Receive \/ RebootEsp \/ LoseFrame \/ LoseLine

Next == IOThread \/ Agent \/ Time \/ Environment
Spec == Init /\ [][Next]_vars

\* The I/O thread runs; time passes; the ESP32 sends its telemetry and answers.
Fairness ==
  /\ WF_vars(Open) /\ WF_vars(Read) /\ WF_vars(HandleLine) /\ WF_vars(Tick)
  /\ WF_vars(Transmit) /\ WF_vars(Write)
  /\ WF_vars(Shutdown) /\ WF_vars(ExitClosed) /\ WF_vars(Close) /\ WF_vars(Joined)
  /\ WF_vars(PingFallsDue) /\ SF_vars(GiveUpLost)
  /\ SF_vars(Telemeter) /\ SF_vars(Receive)
FairSpec == Spec /\ Fairness

(***************************************************************************)
(* Properties.                                                             *)
(***************************************************************************)
Frames == [cmd: Commands, seq: 1..SeqMax, conn: 0..MaxConnections, boot: 0..MaxBoots]
LineTypes == {"TELEMETRY", "READY", "DIAG", "ACK", "ERROR"}

\* The types, with the bounds the code means to keep: at most max_pending commands wait
\* for an answer, under numbers of their own, and a connection is proven only while open.
TypeOK ==
  /\ link.status \in Statuses
  /\ link.telemetry \in {"none", "fresh", "stale"}
  /\ link.last_uptime \in NoUptime..MaxUptime
  /\ {link.seq, link.ping_seq} \subseteq 0..SeqMax
  /\ link.timeouts \in 0..MaxTimeouts
  /\ link.slot \in [cmd: Motion \cup {"none"}, old: BOOLEAN, conn: 0..MaxConnections]
  /\ Len(link.pending) <= MaxPending
  /\ Cardinality(PendingSeqs(link.pending)) = Len(link.pending)
  /\ \A i \in DOMAIN link.pending : link.pending[i] \in [seq: 1..SeqMax, cmd: Commands]
  /\ io.pc \in {"idle", "closed", "poll", "read", "lines", "transmit", "write", "final", "exited"}
  /\ link.port_open <=> io.pc \in {"poll", "read", "lines", "transmit", "write"}
  /\ \A s \in {io.out, toEsp} : \A i \in DOMAIN s : s[i] \in Frames
  /\ \A s \in {io.lines, toPi} : \A i \in DOMAIN s : s[i].type \in LineTypes
  /\ ctl \in [boot: 1..MaxBoots, uptime: 0..MaxUptime, last_seq: 0..SeqMax]
  /\ faults \in 0..MaxFaults

\* "Nothing survives a reconnect": a motion command about to be written was submitted on
\* the connection it is written to, however close Lost, Open and Submit fall together.
NothingReplayed ==
  \A i \in DOMAIN io.out : io.out[i].cmd \in Motion => io.out[i].conn = hist.conn

\* While the link counts as bidirectional, a PING written on this connection was answered
\* by the very boot of the ESP32 that is heard now, that boot speaks the Pi's protocol, and
\* no reboot waits for the operator: neither an answer from before a reconnect nor one of
\* an ESP32 that has restarted since opens the way for motion.
ProvenByFreshPing ==
  link.bidirectional =>
    /\ hist.proof.conn = hist.conn
    /\ hist.proof.boot = hist.heard
    /\ hist.proof.boot \notin BadProto
    /\ ~link.reboot_latched

\* A motion command that reaches the boot of the ESP32 that answered the PING is new to
\* it, never refused as a duplicate or as stale: the resynchronised numbers of Pi and
\* ESP32 agree through reconnects, reboots, losses and the wrap at SEQ_MAX.
MotionIsNewToEsp ==
  toEsp # <<>> =>
    LET f == Head(toEsp)
    IN f.cmd \in Motion /\ f.boot = ctl.boot => Verdict(f.seq) = "ACCEPTED"

\* A motion command is sent at most once, and only while it is the newest one submitted:
\* a STOP is never overtaken by the DRIVE it replaced.
NewestOnce ==
  [][io.pc = "transmit" /\ io'.out # <<>> /\ Last(io'.out).cmd \in Motion
       => Last(io'.out).cmd = hist.unsent]_vars

\* An open port is not stuck: with faults ending, the link gets to UP, unless a reboot
\* waits for the operator, the protocol does not match, the port is lost or the link stops.
Recovers ==
  link.port_open ~> \/ link.status = "UP" \/ link.reboot_latched \/ link.proto_problem
                    \/ link.stopping \/ ~link.port_open

\* stop() comes to its end, wherever the I/O thread is and whatever the ESP32 sends.
StopEnds == link.stopping ~> io.pc = "idle"
=============================================================================
