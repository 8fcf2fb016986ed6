-------------------------- MODULE Esp32Link_proofs --------------------------
(***************************************************************************)
(* Proofs about Esp32Link, for every bound, configuration and behaviour of *)
(* the ESP32: no motion command crosses a reconnect; a motion command that *)
(* is sent is the newest one, sent once; the types and the bounds on what  *)
(* is pending; a connection that counts as proven was proven on this       *)
(* connection by the boot of the ESP32 that is heard now; and, where the   *)
(* ring of numbers is wide enough, a motion command that reaches the boot  *)
(* that answered the PING is new to it.                                    *)
(***************************************************************************)
EXTENDS Esp32Link, SequenceTheorems, FiniteSetTheorems, TLAPS

(***************************************************************************)
(* Shapes.  What the proofs need of types is that the records are records. *)
(***************************************************************************)
LinkFields ==
  {"status", "port_open", "stopping", "telemetry", "drive", "last_uptime", "reboot_latched",
   "proto_problem", "seq", "seq_synced", "pending", "timeouts", "ping_seq", "ping_due",
   "bidirectional", "slot", "motion_sent"}
IsRecord(r, fields) == r = [x \in fields |-> r[x]]
IsLink(l) == IsRecord(l, LinkFields)
IsHist(h) == IsRecord(h, {"conn", "heard", "proof", "unsent"})
IsIO(i) == IsRecord(i, {"pc", "lines", "out"})
IsSlot(s) == IsRecord(s, {"cmd", "old", "conn"})

\* The frames of one iteration: at most a PING and a motion command.
IsFrame(f) == IsRecord(f, {"cmd", "seq", "conn", "boot"})
OutShape(out) ==
  \/ out = <<>>
  \/ \E f : IsFrame(f) /\ out = <<f>>
  \/ \E f, g : IsFrame(f) /\ IsFrame(g) /\ out = <<f, g>>

\* Whether r is l with the motion slot kept or emptied and the port as it was.
KeepsSlot(l, r) ==
  IsLink(r) /\ r.slot \in {l.slot, NoSlot} /\ r.port_open = l.port_open

(***************************************************************************)
(* What the handlers do to the slot: none of them fills it.                *)
(***************************************************************************)
LEMMA RebootKeepsSlot ==
  ASSUME NEW l, IsLink(l) PROVE KeepsSlot(l, Reboot(l))
  BY DEF IsLink, LinkFields, IsRecord, KeepsSlot, Reboot

LEMMA ResetKeepsSlot ==
  ASSUME NEW l, IsLink(l)
  PROVE  KeepsSlot(l, ResetConnection(l)) /\ ResetConnection(l).slot = NoSlot
  BY DEF IsLink, LinkFields, IsRecord, KeepsSlot, ResetConnection

LEMMA RefreshKeepsSlot ==
  ASSUME NEW l, IsLink(l) PROVE KeepsSlot(l, Refresh(l))
  BY DEF IsLink, LinkFields, IsRecord, KeepsSlot, Refresh

LEMMA NoteProtoKeepsSlot ==
  ASSUME NEW l, NEW boot, IsLink(l) PROVE KeepsSlot(l, NoteProto(l, boot))
  BY DEF IsLink, LinkFields, IsRecord, KeepsSlot, NoteProto

LEMMA TelemetryKeepsSlot ==
  ASSUME NEW l, NEW line, IsLink(l) PROVE KeepsSlot(l, OnTelemetry(l, line))
<1> DEFINE r == IF line.uptime < l.last_uptime THEN Reboot(l) ELSE l
<1>1. KeepsSlot(l, r)
  BY RebootKeepsSlot DEF KeepsSlot
<1>2. \A x : IsLink(x) => KeepsSlot(x,
        [x EXCEPT !.last_uptime = line.uptime, !.telemetry = "fresh", !.drive = line.drive,
                  !.seq = IF x.seq_synced THEN @ ELSE line.last_seq, !.seq_synced = TRUE])
  BY ZenonT(40) DEF IsLink, LinkFields, IsRecord, KeepsSlot
<1>3. OnTelemetry(l, line) =
        [r EXCEPT !.last_uptime = line.uptime, !.telemetry = "fresh", !.drive = line.drive,
                  !.seq = IF r.seq_synced THEN @ ELSE line.last_seq, !.seq_synced = TRUE]
  BY DEF OnTelemetry
<1> HIDE DEF r
<1>4. KeepsSlot(r, OnTelemetry(l, line))
  BY <1>1, <1>2, <1>3 DEF KeepsSlot
<1> QED BY <1>1, <1>4 DEF KeepsSlot

LEMMA ReadyKeepsSlot ==
  ASSUME NEW l, NEW line, IsLink(l) PROVE KeepsSlot(l, OnReady(l, line))
<1> DEFINE n == NoteProto(l, line.boot)
           r == IF l.last_uptime # NoUptime THEN Reboot(n) ELSE n
<1>1. KeepsSlot(l, n)
  BY NoteProtoKeepsSlot
<1>2. KeepsSlot(n, r)
  BY <1>1, RebootKeepsSlot DEF KeepsSlot
<1>3. \A x : IsLink(x) => KeepsSlot(x,
        [x EXCEPT !.last_uptime = line.uptime, !.seq = 0, !.seq_synced = TRUE])
  BY DEF IsLink, LinkFields, IsRecord, KeepsSlot
<1>4. OnReady(l, line) =
        [r EXCEPT !.last_uptime = line.uptime, !.seq = 0, !.seq_synced = TRUE]
  BY DEF OnReady
<1> HIDE DEF n, r
<1>5. KeepsSlot(r, OnReady(l, line))
  BY <1>2, <1>3, <1>4 DEF KeepsSlot
<1> QED BY <1>1, <1>2, <1>5 DEF KeepsSlot

LEMMA AckKeepsSlot ==
  ASSUME NEW l, NEW line, IsLink(l) PROVE KeepsSlot(l, OnAck(l, line))
<1> DEFINE a == [l EXCEPT !.pending = Without(@, line.seq), !.timeouts = 0,
                          !.seq = IF line.result = "STALE" THEN line.last_seq ELSE @]
           q == [a EXCEPT !.ping_seq = 0]
           p == NoteProto(q, line.boot)
<1>1. KeepsSlot(l, a)
  BY DEF IsLink, LinkFields, IsRecord, KeepsSlot
<1>2. KeepsSlot(a, q)
  <2>1. IsLink(a) BY <1>1 DEF KeepsSlot
  <2> HIDE DEF a
  <2> QED BY <2>1 DEF IsLink, LinkFields, IsRecord, KeepsSlot
<1>3. KeepsSlot(q, p)
  BY <1>2, NoteProtoKeepsSlot DEF KeepsSlot
<1>4. \A x : IsLink(x) =>
        /\ KeepsSlot(x, [x EXCEPT !.bidirectional = ~x.proto_problem])
        /\ KeepsSlot(x, [x EXCEPT !.ping_seq = 0, !.ping_due = TRUE])
  BY DEF IsLink, LinkFields, IsRecord, KeepsSlot
<1>5. OnAck(l, line) \in {l, a, [p EXCEPT !.bidirectional = ~p.proto_problem],
                          [a EXCEPT !.ping_seq = 0, !.ping_due = TRUE]}
  BY DEF OnAck
<1> HIDE DEF a, p, q
<1>6. /\ KeepsSlot(p, [p EXCEPT !.bidirectional = ~p.proto_problem])
      /\ KeepsSlot(a, [a EXCEPT !.ping_seq = 0, !.ping_due = TRUE])
  BY <1>1, <1>3, <1>4 DEF KeepsSlot
<1> QED BY <1>1, <1>2, <1>3, <1>5, <1>6 DEF KeepsSlot

LEMMA ErrorKeepsSlot ==
  ASSUME NEW l, NEW line, IsLink(l) PROVE KeepsSlot(l, OnError(l, line))
  BY DEF IsLink, LinkFields, IsRecord, KeepsSlot, OnError

LEMMA HandledKeepsSlot ==
  ASSUME NEW l, NEW line, IsLink(l) PROVE KeepsSlot(l, Handled(l, line))
<1> DEFINE h == CASE line.type = "TELEMETRY" -> OnTelemetry(l, line)
                  [] line.type = "READY"     -> OnReady(l, line)
                  [] line.type = "DIAG"      -> NoteProto(l, line.boot)
                  [] line.type = "ACK"       -> OnAck(l, line)
                  [] OTHER                   -> OnError(l, line)
<1>1. h \in {OnTelemetry(l, line), OnReady(l, line), NoteProto(l, line.boot),
             OnAck(l, line), OnError(l, line)}
  OBVIOUS
<1>2. KeepsSlot(l, h)
  <2> HIDE DEF h
  <2> QED BY <1>1, TelemetryKeepsSlot, ReadyKeepsSlot, NoteProtoKeepsSlot, AckKeepsSlot,
             ErrorKeepsSlot
<1>3. KeepsSlot(h, Refresh(h))
  BY <1>2, RefreshKeepsSlot DEF KeepsSlot
<1>4. Handled(l, line) = Refresh(h)
  BY DEF Handled
<1> HIDE DEF h
<1> QED BY <1>2, <1>3, <1>4 DEF KeepsSlot

(***************************************************************************)
(* The invariant.  What waits in the slot is what was submitted last, and, *)
(* while the port is open, was submitted on this connection: that is why   *)
(* Open and Lost must empty the slot, and what Transmit relies on.         *)
(***************************************************************************)
SlotIsNewest ==
  link.slot # NoSlot =>
    /\ link.slot.cmd = hist.unsent
    /\ link.port_open => link.slot.conn = hist.conn

LinkInv == IsLink(link) /\ IsHist(hist) /\ IsSlot(link.slot) /\ SlotIsNewest

IOInv ==
  /\ IsIO(io)
  /\ OutShape(io.out)
  /\ io.pc = "write" => io.out # <<>>
  /\ io.out # <<>> => io.pc \in {"write", "final"}
  /\ NothingReplayed

IInv == LinkInv /\ IOInv

LEMMA InitIInv == Init => IInv
  BY DEF Init, IInv, LinkInv, IOInv, SlotIsNewest, NothingReplayed, OutShape, NoSlot, NoUptime,
         IsLink, LinkFields, IsHist, IsIO, IsSlot, IsRecord

\* A step that does not fill the slot, nor what the ghosts say of it, keeps LinkInv.
LEMMA SlotKeptStep ==
  ASSUME LinkInv, KeepsSlot(link, link'), IsHist(hist'),
         hist'.conn = hist.conn, hist'.unsent = hist.unsent
  PROVE  LinkInv'
  BY DEF LinkInv, KeepsSlot, SlotIsNewest, IsSlot, IsRecord, NoSlot

\* A step of the I/O thread with nothing to write, before and after.
LEMMA NothingToWrite ==
  ASSUME IsIO(io'), io'.out = <<>>, io'.pc # "write"
  PROVE  IOInv'
  BY DEF IOInv, OutShape, NothingReplayed

\* A step that leaves the I/O thread and the connection alone.
LEMMA ThreadUntouched ==
  ASSUME IOInv, io' = io, hist'.conn = hist.conn
  PROVE  IOInv'
  BY DEF IOInv, NothingReplayed

(***************************************************************************)
(* What Transmit does to the slot: it empties it, whatever it sends.       *)
(***************************************************************************)
LEMMA PingKeepsSlot ==
  ASSUME IsLink(link)
  PROVE  KeepsSlot(link, WithPing(link)) /\ WithPing(link).slot = link.slot
  BY DEF IsLink, LinkFields, IsRecord, KeepsSlot, WithPing

LEMMA MotionKeepsSlot ==
  ASSUME NEW l, IsLink(l)
  PROVE  KeepsSlot(l, WithMotion(l)) /\ WithMotion(l).slot = NoSlot
  BY DEF IsLink, LinkFields, IsRecord, KeepsSlot, WithMotion

(***************************************************************************)
(* The steps of the I/O thread.                                            *)
(***************************************************************************)
LEMMA OpenKeeps == ASSUME IInv, Open PROVE IInv'
<1>1. /\ KeepsSlot(link, ResetConnection(link)) /\ ResetConnection(link).slot = NoSlot
  BY ResetKeepsSlot DEF IInv, LinkInv
<1>2. \A l : IsLink(l) => /\ IsLink([l EXCEPT !.port_open = TRUE, !.status = "CONNECTING"])
                          /\ [l EXCEPT !.port_open = TRUE, !.status = "CONNECTING"].slot = l.slot
  BY DEF IsLink, LinkFields, IsRecord
<1>3. IsLink(link') /\ link'.slot = NoSlot
  BY <1>1, <1>2 DEF Open, KeepsSlot
<1>4. IsHist(hist')
  BY DEF Open, IInv, LinkInv, IsHist, IsRecord
<1>5. LinkInv'
  BY <1>3, <1>4 DEF LinkInv, SlotIsNewest, IsSlot, IsRecord, NoSlot
<1>6. IsIO(io') /\ io'.out = <<>> /\ io'.pc # "write"
  BY DEF Open, IInv, IOInv, IsIO, IsRecord
<1>7. IOInv'
  BY <1>6, NothingToWrite
<1> QED BY <1>5, <1>7 DEF IInv

LEMMA LostKeeps == ASSUME IInv, Lost PROVE IInv'
<1>1. /\ KeepsSlot(link, ResetConnection(link)) /\ ResetConnection(link).slot = NoSlot
  BY ResetKeepsSlot DEF IInv, LinkInv
<1>2. \A l : IsLink(l) =>
        /\ IsLink([l EXCEPT !.port_open = FALSE, !.status = "DISCONNECTED"])
        /\ [l EXCEPT !.port_open = FALSE, !.status = "DISCONNECTED"].slot = l.slot
  BY DEF IsLink, LinkFields, IsRecord
<1>3. IsLink(link') /\ link'.slot = NoSlot
  BY <1>1, <1>2 DEF Lost, KeepsSlot
<1>4. LinkInv'
  BY <1>3 DEF Lost, IInv, LinkInv, SlotIsNewest, IsSlot, IsRecord, NoSlot
<1>5. IsIO(io') /\ io'.out = <<>> /\ io'.pc # "write"
  BY DEF Lost, IInv, IOInv, IsIO, IsRecord
<1> QED BY <1>4, <1>5, NothingToWrite DEF IInv

LEMMA ReadKeeps == ASSUME IInv, Read PROVE IInv'
<1>1. IsIO(io') /\ io'.out = <<>> /\ io'.pc # "write"
  BY DEF Read, AtLoopTop, IInv, IOInv, IsIO, IsRecord
<1>2. LinkInv'
  BY DEF Read, IInv, LinkInv, SlotIsNewest
<1> QED BY <1>1, <1>2, NothingToWrite DEF IInv

LEMMA HandleLineKeeps == ASSUME IInv, HandleLine PROVE IInv'
<1>1. KeepsSlot(link, link')
  BY HandledKeepsSlot DEF HandleLine, IInv, LinkInv
<1>2. IsHist(hist') /\ hist'.conn = hist.conn /\ hist'.unsent = hist.unsent
  BY DEF HandleLine, IInv, LinkInv, IsHist, IsRecord
<1>3. IsIO(io') /\ io'.out = <<>> /\ io'.pc # "write"
  BY DEF HandleLine, IInv, IOInv, IsIO, IsRecord
<1> QED BY <1>1, <1>2, <1>3, SlotKeptStep, NothingToWrite DEF IInv

LEMMA TickKeeps == ASSUME IInv, Tick PROVE IInv'
<1>1. PICK n \in 0..Len(link.pending) : TickExpiring(n)
  BY DEF Tick
<1>2. KeepsSlot(link, link')
  <2>1. PICK p, t, q :
          link' = Refresh([link EXCEPT !.pending = p, !.timeouts = t, !.ping_seq = q])
    BY <1>1 DEF TickExpiring, ExpirePending
  <2> DEFINE l == [link EXCEPT !.pending = p, !.timeouts = t, !.ping_seq = q]
  <2>2. KeepsSlot(link, l)
    BY DEF IInv, LinkInv, IsLink, LinkFields, IsRecord, KeepsSlot
  <2> HIDE DEF l
  <2>3. KeepsSlot(l, Refresh(l))
    BY <2>2, RefreshKeepsSlot DEF KeepsSlot
  <2> QED BY <2>1, <2>2, <2>3 DEF KeepsSlot, l
<1>3. IsIO(io') /\ io'.out = <<>> /\ io'.pc # "write"
  BY <1>1 DEF TickExpiring, IInv, IOInv, IsIO, IsRecord
<1>4. hist' = hist
  BY <1>1 DEF TickExpiring
<1> QED BY <1>2, <1>3, <1>4, SlotKeptStep, NothingToWrite DEF IInv, LinkInv

LEMMA Joining ==
  /\ <<>> \o <<>> = <<>>
  /\ \A f : <<f>> \o <<>> = <<f>> /\ <<>> \o <<f>> = <<f>>
  /\ \A f, g : <<f>> \o <<g>> = <<f, g>>
<1>1. <<>> \o <<>> = <<>>
  OBVIOUS
<1>2. ASSUME NEW f PROVE <<f>> \o <<>> = <<f>> /\ <<>> \o <<f>> = <<f>>
  <2>1. <<f>> \in Seq({f})
    OBVIOUS
  <2> QED BY <2>1, ConcatEmptySeq
<1>3. ASSUME NEW f, NEW g PROVE <<f>> \o <<g>> = <<f, g>>
  <2>1. <<f>> \in Seq({f, g})
    OBVIOUS
  <2>2. /\ <<g>> \in Seq({f, g}) /\ <<f, g>> \in Seq({f, g})
        /\ <<f>>[1] = f /\ <<g>>[1] = g
    OBVIOUS
  <2> DEFINE fg == <<f>> \o <<g>>
  <2>3. fg \in Seq({f, g}) /\ Len(fg) = 2
    BY <2>1, <2>2, ConcatProperties
  <2>4. fg[1] = f /\ fg[2] = g
    BY <2>1, <2>2, ConcatProperties
  <2> HIDE DEF fg
  <2>5. Len(<<f, g>>) = 2 /\ \A i \in 1..2 : fg[i] = <<f, g>>[i]
    BY <2>4
  <2>6. fg = <<f, g>>
    BY <2>2, <2>3, <2>5, SeqEqual
  <2> QED BY <2>6 DEF fg
<1> QED BY <1>1, <1>2, <1>3

\* What Transmit builds: a PING or not, then what is in the slot or not.
LEMMA TransmitBuilds ==
  ASSUME IInv, Transmit
  PROVE  \E ping, motion :
           /\ io'.out = ping \o motion
           /\ ping = <<>> \/ \E f : IsFrame(f) /\ f.cmd = "PING" /\ ping = <<f>>
           /\ \/ motion = <<>>
              \/ \E f : /\ IsFrame(f) /\ motion = <<f>>
                        /\ f.cmd = hist.unsent /\ f.conn = hist.conn
           /\ io'.pc = IF ping \o motion = <<>> THEN "poll" ELSE "write"
           /\ IsIO(io')
<1> DEFINE pinged == WithPing(link)
           ping == IF PingWanted(link) THEN <<Frame(link, "PING", hist.conn)>> ELSE <<>>
           motion == IF MotionWanted(pinged)
                     THEN <<Frame(pinged, link.slot.cmd, link.slot.conn)>> ELSE <<>>
<1>1. ping = <<>> \/ \E f : IsFrame(f) /\ f.cmd = "PING" /\ ping = <<f>>
  BY DEF Frame, IsFrame, IsRecord
<1>2. ASSUME MotionWanted(pinged)
      PROVE  link.slot.cmd = hist.unsent /\ link.slot.conn = hist.conn
  <2>1. pinged.slot = link.slot /\ pinged.port_open = link.port_open
    BY PingKeepsSlot DEF IInv, LinkInv, KeepsSlot
  <2> HIDE DEF pinged
  <2>2. link.slot # NoSlot /\ link.port_open
    BY <1>2, <2>1 DEF MotionWanted, MotionReady
  <2> QED BY <2>2 DEF IInv, LinkInv, SlotIsNewest
<1>3. \/ motion = <<>>
      \/ \E f : IsFrame(f) /\ motion = <<f>> /\ f.cmd = hist.unsent /\ f.conn = hist.conn
  BY <1>2 DEF Frame, IsFrame, IsRecord
<1>4. io' = [io EXCEPT !.pc = IF ping \o motion = <<>> THEN "poll" ELSE "write",
                       !.out = ping \o motion]
  BY DEF Transmit
<1> HIDE DEF ping, motion, pinged
<1>5. /\ io'.out = ping \o motion /\ IsIO(io')
      /\ io'.pc = IF ping \o motion = <<>> THEN "poll" ELSE "write"
  BY <1>4 DEF IInv, IOInv, IsIO, IsRecord
<1> QED BY <1>1, <1>3, <1>5

LEMMA TransmitKeeps == ASSUME IInv, Transmit PROVE IInv'
<1>1. KeepsSlot(link, link') /\ link'.slot = NoSlot
  BY PingKeepsSlot, MotionKeepsSlot DEF Transmit, IInv, LinkInv, KeepsSlot
<1>2. IsHist(hist') /\ hist'.conn = hist.conn
  BY DEF Transmit, IInv, LinkInv, IsHist, IsRecord
<1>3. LinkInv'
  BY <1>1, <1>2 DEF KeepsSlot, LinkInv, SlotIsNewest, IsSlot, IsRecord, NoSlot
<1>4. PICK ping, motion :
        /\ io'.out = ping \o motion
        /\ ping = <<>> \/ \E f : IsFrame(f) /\ f.cmd = "PING" /\ ping = <<f>>
        /\ \/ motion = <<>>
           \/ \E f : /\ IsFrame(f) /\ motion = <<f>>
                     /\ f.cmd = hist.unsent /\ f.conn = hist.conn
        /\ io'.pc = IF ping \o motion = <<>> THEN "poll" ELSE "write"
        /\ IsIO(io')
  BY TransmitBuilds
<1>5. \/ io'.out = <<>>
      \/ \E f : /\ IsFrame(f) /\ io'.out = <<f>>
                /\ f.cmd = "PING" \/ f.conn = hist.conn
      \/ \E f, g : /\ IsFrame(f) /\ IsFrame(g) /\ io'.out = <<f, g>>
                   /\ f.cmd = "PING" /\ g.conn = hist.conn
  BY <1>4, Joining
<1>6. OutShape(io'.out) /\ NothingReplayed'
  BY <1>2, <1>5 DEF OutShape, NothingReplayed, Motion
<1>7. IOInv'
  BY <1>4, <1>6 DEF IOInv
<1> QED BY <1>3, <1>7 DEF IInv

LEMMA WriteKeeps == ASSUME IInv, Write PROVE IInv'
<1>1. io'.out = Tail(io.out) /\ IsIO(io')
      /\ io'.pc = IF Len(io.out) = 1 THEN "poll" ELSE "write"
  BY DEF Write, IInv, IOInv, IsIO, IsRecord
<1>2. CASE \E f : IsFrame(f) /\ io.out = <<f>>
  <2>1. io'.out = <<>> /\ io'.pc = "poll"
    BY <1>1, <1>2
  <2> QED BY <1>1, <2>1, NothingToWrite DEF Write, IInv, LinkInv, SlotIsNewest
<1>3. CASE \E f, g : IsFrame(f) /\ IsFrame(g) /\ io.out = <<f, g>>
  <2>1. PICK f, g : IsFrame(f) /\ IsFrame(g) /\ io.out = <<f, g>>
    BY <1>3
  <2>2. io'.out = <<g>> /\ io'.pc = "write"
    BY <1>1, <2>1
  <2>3. g.cmd \in Motion => g.conn = hist.conn
    BY <2>1 DEF IInv, IOInv, NothingReplayed
  <2>4. NothingReplayed'
    <3>1. hist' = hist
      BY DEF Write
    <3>2. DOMAIN <<g>> = {1} /\ <<g>>[1] = g
      OBVIOUS
    <3> QED BY <2>2, <2>3, <3>1, <3>2 DEF NothingReplayed
  <2> QED BY <1>1, <2>1, <2>2, <2>4 DEF Write, IInv, IOInv, OutShape, LinkInv, SlotIsNewest
<1> QED BY <1>2, <1>3 DEF IInv, IOInv, OutShape, Write

LEMMA ShutdownKeeps == ASSUME IInv, Shutdown PROVE IInv'
<1>1. IsLink(link') /\ link'.slot = link.slot /\ ~link'.port_open
  BY DEF Shutdown, IInv, LinkInv, IsLink, LinkFields, IsRecord
<1>2. LinkInv'
  BY <1>1 DEF Shutdown, IInv, LinkInv, SlotIsNewest
<1>3. IsIO(io') /\ io'.pc = "final"
      /\ io'.out = IF FinalStopWanted THEN <<Frame(link, "STOP", hist.conn)>> ELSE <<>>
  BY DEF Shutdown, IInv, IOInv, IsIO, IsRecord
<1>4. OutShape(io'.out) /\ NothingReplayed'
  <2>1. IsFrame(Frame(link, "STOP", hist.conn))
        /\ Frame(link, "STOP", hist.conn).conn = hist.conn
    BY DEF Frame, IsFrame, IsRecord
  <2>2. hist' = hist
    BY DEF Shutdown
  <2> QED BY <1>3, <2>1, <2>2 DEF OutShape, NothingReplayed
<1> QED BY <1>2, <1>3, <1>4 DEF IInv, IOInv

LEMMA ExitKeeps == ASSUME IInv, ExitClosed \/ Close PROVE IInv'
<1>1. IsIO(io') /\ io'.out = <<>> /\ io'.pc # "write"
  BY DEF ExitClosed, Close, IInv, IOInv, IsIO, IsRecord
<1>2. LinkInv'
  BY DEF ExitClosed, Close, IInv, LinkInv, SlotIsNewest
<1> QED BY <1>1, <1>2, NothingToWrite DEF IInv

(***************************************************************************)
(* The other steps.                                                        *)
(***************************************************************************)
LEMMA StartOrJoinedKeeps == ASSUME IInv, Start \/ Joined PROVE IInv'
<1>1. KeepsSlot(link, link')
  BY DEF Start, Joined, IInv, LinkInv, IsLink, LinkFields, IsRecord, KeepsSlot
<1>2. IsIO(io') /\ io'.out = <<>> /\ io'.pc # "write"
  BY DEF Start, Joined, IInv, IOInv, IsIO, IsRecord
<1>3. hist' = hist
  BY DEF Start, Joined
<1> QED BY <1>1, <1>2, <1>3, SlotKeptStep, NothingToWrite DEF IInv, LinkInv

LEMMA QuietKeeps ==
  ASSUME IInv, \/ OpenFails \/ Stop \/ ReadStatus \/ AcknowledgeReboot
               \/ TelemetryAges \/ PingFallsDue
  PROVE  IInv'
<1>1. KeepsSlot(link, link')
  <2>1. CASE ReadStatus
    BY <2>1, RefreshKeepsSlot DEF ReadStatus, IInv, LinkInv
  <2>2. CASE AcknowledgeReboot
    BY <2>2 DEF AcknowledgeReboot, Acknowledged, IInv, LinkInv, IsLink, LinkFields, IsRecord,
                KeepsSlot
  <2>3. CASE OpenFails \/ Stop
    BY <2>3 DEF OpenFails, Stop, IInv, LinkInv, IsLink, LinkFields, IsRecord, KeepsSlot
  <2>4. CASE TelemetryAges \/ PingFallsDue
    BY <2>4 DEF TelemetryAges, PingFallsDue, IInv, LinkInv, IsLink, LinkFields, IsRecord,
                KeepsSlot
  <2> QED BY <2>1, <2>2, <2>3, <2>4
<1>2. io' = io /\ hist' = hist
  BY DEF OpenFails, Stop, ReadStatus, AcknowledgeReboot, TelemetryAges, PingFallsDue
<1> QED BY <1>1, <1>2, SlotKeptStep, ThreadUntouched DEF IInv, LinkInv

LEMMA SubmitKeeps == ASSUME IInv, NEW wish \in Motion, Submit(wish) PROVE IInv'
<1> DEFINE cmd == IF wish = "DRIVE" /\ ~MotionReady(link, "DRIVE") THEN "STOP" ELSE wish
<1>1. link' = [link EXCEPT !.slot = [cmd |-> cmd, old |-> FALSE,
                                     conn |-> IF link.port_open THEN hist.conn ELSE 0]]
      /\ hist' = [hist EXCEPT !.unsent = cmd] /\ io' = io
  BY DEF Submit
<1> HIDE DEF cmd
<1>2. /\ IsLink(link') /\ link'.port_open = link.port_open
      /\ link'.slot = [cmd |-> cmd, old |-> FALSE,
                       conn |-> IF link.port_open THEN hist.conn ELSE 0]
  BY <1>1 DEF IInv, LinkInv, IsLink, LinkFields, IsRecord
<1>3. IsHist(hist') /\ hist'.conn = hist.conn /\ hist'.unsent = cmd
  BY <1>1 DEF IInv, LinkInv, IsHist, IsRecord
<1>4. LinkInv'
  BY <1>2, <1>3 DEF LinkInv, SlotIsNewest, IsSlot, IsRecord
<1> QED BY <1>1, <1>3, <1>4, ThreadUntouched DEF IInv

LEMMA SlotAgesKeeps == ASSUME IInv, SlotAges PROVE IInv'
<1>1. /\ IsLink(link') /\ link'.port_open = link.port_open
      /\ link'.slot = [link.slot EXCEPT !.old = TRUE]
  BY DEF SlotAges, IInv, LinkInv, IsLink, LinkFields, IsRecord
<1>2. /\ IsSlot(link'.slot) /\ link'.slot.cmd = link.slot.cmd
      /\ link'.slot.conn = link.slot.conn
  BY <1>1 DEF IInv, LinkInv, IsSlot, IsRecord
<1>3. io' = io /\ hist' = hist /\ link.slot # NoSlot
  BY DEF SlotAges
<1> QED BY <1>1, <1>2, <1>3, ThreadUntouched DEF IInv, LinkInv, SlotIsNewest

LEMMA EnvironmentKeeps == ASSUME IInv, Environment \/ UNCHANGED vars PROVE IInv'
<1>1. link' = link /\ io' = io /\ hist' = hist
  BY DEF Environment, Telemeter, Diagnose, Receive, RebootEsp, LoseFrame, LoseLine, vars
<1> QED BY <1>1, ThreadUntouched DEF IInv, LinkInv, SlotIsNewest

LEMMA NextKeepsIInv == IInv /\ [Next]_vars => IInv'
<1> SUFFICES ASSUME IInv, [Next]_vars PROVE IInv'
  OBVIOUS
<1>1. CASE IOThread
  BY <1>1, OpenKeeps, QuietKeeps, ReadKeeps, LostKeeps, HandleLineKeeps, TickKeeps,
     TransmitKeeps, WriteKeeps, ShutdownKeeps, ExitKeeps DEF IOThread
<1>2. CASE Agent
  BY <1>2, StartOrJoinedKeeps, QuietKeeps, SubmitKeeps DEF Agent
<1>3. CASE Time
  BY <1>3, QuietKeeps, SlotAgesKeeps DEF Time
<1>4. CASE Environment \/ UNCHANGED vars
  BY <1>4, EnvironmentKeeps
<1> QED BY <1>1, <1>2, <1>3, <1>4 DEF Next

LEMMA AlwaysIInv == Spec => []IInv
  BY InitIInv, NextKeepsIInv, PTL DEF Spec

(***************************************************************************)
(* "Nothing survives a reconnect" (link.py, module docstring): a motion    *)
(* command about to be written was submitted on the connection it is       *)
(* written to, however often the port is lost and reopened.                *)
(***************************************************************************)
THEOREM NothingReplayedHolds == Spec => []NothingReplayed
<1>1. IInv => NothingReplayed
  BY DEF IInv, IOInv
<1> QED BY <1>1, AlwaysIInv, PTL

(***************************************************************************)
(* A motion command is sent at most once and only while it is the newest   *)
(* one submitted (submit and _transmit).                                   *)
(***************************************************************************)
LEMMA StepSendsNewest ==
  ASSUME IInv, [Next]_vars,
         io.pc = "transmit", io'.out # <<>>, Last(io'.out).cmd \in Motion
  PROVE  Last(io'.out).cmd = hist.unsent
<1>1. io.out = <<>>
  BY DEF IInv, IOInv
<1>2. Transmit
  <2>1. io' # io
    BY <1>1
  <2> QED
    BY <2>1 DEF Next, IOThread, Agent, Time, Environment, vars, Open, OpenFails, Read, AtLoopTop,
       Lost, HandleLine, Tick, TickExpiring, Write, Shutdown, ExitClosed, Close, Start, Stop,
       Joined, ReadStatus, AcknowledgeReboot, Submit, TelemetryAges, SlotAges, PingFallsDue,
       Telemeter, Diagnose, Receive, RebootEsp, LoseFrame, LoseLine
<1>3. PICK ping, motion :
        /\ io'.out = ping \o motion
        /\ ping = <<>> \/ \E f : IsFrame(f) /\ f.cmd = "PING" /\ ping = <<f>>
        /\ \/ motion = <<>>
           \/ \E f : /\ IsFrame(f) /\ motion = <<f>>
                     /\ f.cmd = hist.unsent /\ f.conn = hist.conn
  BY <1>2, TransmitBuilds
<1>4. \/ \E f : io'.out = <<f>> /\ (f.cmd = "PING" \/ f.cmd = hist.unsent)
      \/ \E f, g : io'.out = <<f, g>> /\ g.cmd = hist.unsent
  BY <1>3, Joining
<1>5. CASE \E f : io'.out = <<f>> /\ (f.cmd = "PING" \/ f.cmd = hist.unsent)
  BY <1>5 DEF Last, Motion
<1>6. CASE \E f, g : io'.out = <<f, g>> /\ g.cmd = hist.unsent
  BY <1>6 DEF Last
<1> QED BY <1>4, <1>5, <1>6

THEOREM NewestOnceHolds == Spec => NewestOnce
<1>1. IInv /\ [Next]_vars =>
        [io.pc = "transmit" /\ io'.out # <<>> /\ Last(io'.out).cmd \in Motion
           => Last(io'.out).cmd = hist.unsent]_vars
  BY StepSendsNewest
<1> QED BY <1>1, AlwaysIInv, PTL DEF Spec, NewestOnce

(***************************************************************************)
(* Types, for every bound.                                                 *)
(***************************************************************************)
Pcs == {"idle", "closed", "poll", "read", "lines", "transmit", "write", "final", "exited"}
OpenPcs == {"poll", "read", "lines", "transmit", "write"}
Boots == 1..MaxBoots
Connections == 0..MaxConnections
Entries == [seq: 1..SeqMax, cmd: Commands]
SlotTypes == {NoSlot} \cup [cmd: Motion, old: BOOLEAN, conn: Connections]
LinkTypes ==
  [status: Statuses, port_open: BOOLEAN, stopping: BOOLEAN,
   telemetry: {"none", "fresh", "stale"}, drive: BOOLEAN, last_uptime: NoUptime..MaxUptime,
   reboot_latched: BOOLEAN, proto_problem: BOOLEAN, seq: 0..SeqMax, seq_synced: BOOLEAN,
   pending: Seq(Entries), timeouts: 0..MaxTimeouts, ping_seq: 0..SeqMax, ping_due: BOOLEAN,
   bidirectional: BOOLEAN, slot: SlotTypes, motion_sent: BOOLEAN]
HistTypes ==
  [conn: Connections, heard: 0..MaxBoots,
   proof: [conn: Connections, boot: 0..MaxBoots], unsent: Motion \cup {"none"}]
Lines ==
  [type: {"TELEMETRY"}, boot: Boots, uptime: 0..MaxUptime, last_seq: 0..SeqMax, drive: BOOLEAN]
    \cup [type: {"READY"}, boot: Boots, uptime: {0}]
    \cup [type: {"DIAG"}, boot: Boots]
    \cup [type: {"ACK"}, boot: Boots, seq: 1..SeqMax,
          result: {"ACCEPTED", "DUPLICATE", "STALE"}, last_seq: 0..SeqMax, conn: Connections]
    \cup [type: {"ERROR"}, boot: Boots, seq: 1..SeqMax]

\* At most max_pending commands wait for an answer, under numbers of their own.
Distinct(p) == \A i, j \in DOMAIN p : p[i].seq = p[j].seq => i = j
PendingOK(p) == p \in Seq(Entries) /\ Len(p) <= MaxPending /\ Distinct(p)

\* Whoever sent something or waits for a PING knows the ESP32's uptime, so that READY
\* is a reboot to it; and after a reboot nothing is waited for and nothing is proven.
Sane(l) ==
  /\ l.telemetry = "fresh" \/ l.ping_seq # 0 \/ l.bidirectional => l.last_uptime # NoUptime
  /\ l.reboot_latched => l.ping_seq = 0 /\ ~l.bidirectional

LinkOK(l) == l \in LinkTypes /\ PendingOK(l.pending) /\ Sane(l)

LEMMA SplitProperties ==
  ASSUME NEW S, NEW s \in Seq(S), NEW n \in DOMAIN s
  PROVE  LET t == SubSeq(s, 1, n - 1) \o SubSeq(s, n + 1, Len(s))
         IN /\ t \in Seq(S)
            /\ Len(t) = Len(s) - 1
            /\ \A i \in 1..Len(s) - 1 : t[i] = s[IF i < n THEN i ELSE i + 1]
<1>1. Len(s) \in Nat /\ n \in 1..Len(s) /\ \A i \in 1..Len(s) : s[i] \in S
  BY LenProperties
<1> DEFINE front == SubSeq(s, 1, n - 1)
           rest == SubSeq(s, n + 1, Len(s))
<1>2. /\ front \in Seq(S) /\ Len(front) = n - 1
      /\ \A i \in 1..n - 1 : front[i] = s[i]
  BY <1>1, SubSeqProperties
<1>3. /\ rest \in Seq(S) /\ Len(rest) = Len(s) - n
      /\ \A i \in 1..Len(s) - n : rest[i] = s[n + i]
  <2>1. n + 1 \in Int /\ Len(s) \in Int /\ \A i \in (n + 1)..Len(s) : s[i] \in S
    BY <1>1
  <2>2. /\ rest \in Seq(S) /\ Len(rest) = IF n + 1 <= Len(s) THEN Len(s) - (n + 1) + 1 ELSE 0
        /\ \A i \in 1..(Len(s) - (n + 1) + 1) : rest[i] = s[(n + 1) + i - 1]
    BY <2>1, SubSeqProperties
  <2> HIDE DEF rest
  <2> QED BY <1>1, <2>2
<1> HIDE DEF front, rest
<1> DEFINE t == front \o rest
<1>4. /\ t \in Seq(S) /\ Len(t) = Len(front) + Len(rest)
      /\ \A i \in 1..Len(front) + Len(rest) :
           t[i] = IF i <= Len(front) THEN front[i] ELSE rest[i - Len(front)]
  BY <1>2, <1>3, ConcatProperties
<1> HIDE DEF t
<1>5. Len(t) = Len(s) - 1
  BY <1>1, <1>2, <1>3, <1>4
<1>6. \A i \in 1..Len(s) - 1 : t[i] = s[IF i < n THEN i ELSE i + 1]
  <2> TAKE i \in 1..Len(s) - 1
  <2>1. t[i] = IF i <= n - 1 THEN front[i] ELSE rest[i - (n - 1)]
    BY <1>1, <1>2, <1>3, <1>4, SMTT(30)
  <2>2. CASE i < n
    BY <1>1, <1>2, <2>1, <2>2
  <2>3. CASE ~(i < n)
    <3>1. i - (n - 1) \in 1..Len(s) - n /\ n + (i - (n - 1)) = i + 1 /\ ~(i <= n - 1)
      BY <1>1, <2>3
    <3> QED BY <1>3, <2>1, <2>3, <3>1
  <2> QED BY <2>2, <2>3
<1> QED BY <1>4, <1>5, <1>6 DEF t, front, rest

\* A dict entry is taken out: the others stay, under their own numbers.
LEMMA WithoutOK ==
  ASSUME NEW p \in Seq(Entries), Distinct(p), NEW q
  PROVE  /\ Without(p, q) \in Seq(Entries)
         /\ Len(Without(p, q)) <= Len(p)
         /\ Distinct(Without(p, q))
         /\ \A i \in DOMAIN Without(p, q) : Without(p, q)[i].seq # q
<1> DEFINE places == {i \in DOMAIN p : p[i].seq = q}
           n == CHOOSE i \in places : TRUE
           t == SubSeq(p, 1, n - 1) \o SubSeq(p, n + 1, Len(p))
<1>0. Len(p) \in Nat /\ DOMAIN p = 1..Len(p)
  BY LenProperties
<1>1. CASE places = {}
  <2>1. Without(p, q) = p
    BY <1>1 DEF Without
  <2> QED BY <1>0, <1>1, <2>1
<1>2. CASE places # {}
  <2>1. Without(p, q) = t
    BY <1>2 DEF Without
  <2>2. n \in DOMAIN p /\ p[n].seq = q
    BY <1>2
  <2>3. /\ t \in Seq(Entries) /\ Len(t) = Len(p) - 1
        /\ \A i \in 1..Len(p) - 1 : t[i] = p[IF i < n THEN i ELSE i + 1]
    BY <2>2, SplitProperties
  <2> HIDE DEF n, t, places
  <2>4. n \in 1..Len(p) /\ DOMAIN t = 1..Len(p) - 1
    BY <1>0, <2>2, <2>3, LenProperties
  <2>5. Distinct(t)
    <3> SUFFICES ASSUME NEW i \in 1..Len(p) - 1, NEW j \in 1..Len(p) - 1,
                        t[i].seq = t[j].seq
                 PROVE  i = j
      BY <2>4 DEF Distinct
    <3> DEFINE k == IF i < n THEN i ELSE i + 1
               m == IF j < n THEN j ELSE j + 1
    <3>1. k \in DOMAIN p /\ m \in DOMAIN p
      BY <1>0, <2>4
    <3>2. p[k].seq = p[m].seq
      BY <2>3
    <3>3. k = m
      BY <3>1, <3>2 DEF Distinct
    <3> QED BY <3>3, <2>4, <1>0
  <2>6. \A i \in DOMAIN t : t[i].seq # q
    <3> SUFFICES ASSUME NEW i \in 1..Len(p) - 1, t[i].seq = q PROVE FALSE
      BY <2>4
    <3> DEFINE k == IF i < n THEN i ELSE i + 1
    <3>1. k \in DOMAIN p /\ k # n
      BY <1>0, <2>4
    <3>2. p[k].seq = p[n].seq
      BY <2>2, <2>3
    <3> QED BY <3>1, <3>2, <2>2 DEF Distinct
  <2> QED BY <1>0, <2>1, <2>3, <2>5, <2>6
<1> QED BY <1>1, <1>2

LEMMA PutOK ==
  ASSUME NEW p, PendingOK(p), Len(p) < MaxPending, NEW q \in 1..SeqMax, NEW c \in Commands
  PROVE  PendingOK(Put(p, q, c))
<1> DEFINE w == Without(p, q)
           e == [seq |-> q, cmd |-> c]
           t == Append(w, e)
<1>1. /\ w \in Seq(Entries) /\ Len(w) <= Len(p) /\ Distinct(w)
      /\ \A i \in DOMAIN w : w[i].seq # q
  BY WithoutOK DEF PendingOK
<1>2. e \in Entries /\ e.seq = q
  BY DEF Entries
<1> HIDE DEF w, e
<1>3. /\ t \in Seq(Entries) /\ Len(t) = Len(w) + 1
      /\ \A i \in 1..Len(w) : t[i] = w[i]
      /\ t[Len(w) + 1] = e
  BY <1>1, <1>2, AppendProperties
<1>4. Put(p, q, c) = t
  BY DEF Put, t, w, e
<1> HIDE DEF t
<1>5. Len(w) \in Nat /\ DOMAIN w = 1..Len(w) /\ DOMAIN t = 1..Len(w) + 1
  BY <1>1, <1>3, LenProperties
<1>6. Distinct(t)
  <2> SUFFICES ASSUME NEW i \in 1..Len(w) + 1, NEW j \in 1..Len(w) + 1, t[i].seq = t[j].seq
               PROVE  i = j
    BY <1>5 DEF Distinct
  <2>1. CASE i \in 1..Len(w) /\ j \in 1..Len(w)
    BY <1>1, <1>3, <1>5, <2>1 DEF Distinct
  <2>2. CASE i = Len(w) + 1 /\ j \in 1..Len(w)
    BY <1>1, <1>2, <1>3, <1>5, <2>2
  <2>3. CASE j = Len(w) + 1 /\ i \in 1..Len(w)
    BY <1>1, <1>2, <1>3, <1>5, <2>3
  <2> QED BY <1>5, <2>1, <2>2, <2>3
<1>7. Len(t) <= MaxPending
  <2>1. Len(p) \in Nat
    BY LenProperties DEF PendingOK
  <2> QED BY <1>1, <1>3, <1>5, <2>1, ConfigAssumption
<1> QED BY <1>3, <1>4, <1>6, <1>7 DEF PendingOK

LEMMA ShortenOK ==
  ASSUME NEW p, PendingOK(p), NEW n \in 0..Len(p)
  PROVE  PendingOK(SubSeq(p, n + 1, Len(p)))
<1> DEFINE t == SubSeq(p, n + 1, Len(p))
<1>1. p \in Seq(Entries) /\ Len(p) \in Nat /\ DOMAIN p = 1..Len(p) /\ Len(p) <= MaxPending
      /\ \A i \in 1..Len(p) : p[i] \in Entries
  BY LenProperties, ElementOfSeq DEF PendingOK
<1>2. /\ t \in Seq(Entries)
      /\ Len(t) = IF n + 1 <= Len(p) THEN Len(p) - (n + 1) + 1 ELSE 0
      /\ \A i \in 1..(Len(p) - (n + 1) + 1) : t[i] = p[(n + 1) + i - 1]
  <2>1. n + 1 \in Int /\ Len(p) \in Int /\ \A i \in (n + 1)..Len(p) : p[i] \in Entries
    BY <1>1
  <2> QED BY <2>1, SubSeqProperties
<1> HIDE DEF t
<1>3. Len(t) = Len(p) - n /\ \A i \in 1..Len(p) - n : t[i] = p[n + i]
  <2>1. Len(t) = Len(p) - n
    <3>1. Len(p) \in Nat /\ n \in Int /\ n <= Len(p)
      BY <1>1
    <3>2. Len(t) = IF n + 1 <= Len(p) THEN Len(p) - (n + 1) + 1 ELSE 0
      BY <1>2
    <3> QED BY <3>1, <3>2
  <2>2. ASSUME NEW i \in 1..Len(p) - n PROVE t[i] = p[n + i]
    <3>1. i \in 1..(Len(p) - (n + 1) + 1) /\ (n + 1) + i - 1 = n + i
      BY <1>1
    <3> QED BY <1>2, <3>1
  <2> QED BY <2>1, <2>2
<1>4. DOMAIN t = 1..Len(p) - n
  BY <1>2, <1>3, LenProperties
<1>5. Distinct(t)
  <2> SUFFICES ASSUME NEW i \in 1..Len(p) - n, NEW j \in 1..Len(p) - n, t[i].seq = t[j].seq
               PROVE  i = j
    BY <1>4 DEF Distinct
  <2>1. n + i \in DOMAIN p /\ n + j \in DOMAIN p /\ p[n + i].seq = p[n + j].seq
    BY <1>1, <1>3
  <2>2. n + i = n + j
    BY <2>1 DEF PendingOK, Distinct
  <2> QED BY <2>2, <1>1
<1>6. Len(t) <= MaxPending
  BY <1>1, <1>3, ConfigAssumption
<1> QED BY <1>2, <1>5, <1>6 DEF PendingOK, t

LEMMA EmptyOK == PendingOK(<<>>)
  BY ConfigAssumption DEF PendingOK, Distinct

LEMMA NextSeqOK == \A s \in 0..SeqMax : NextSeq(s) \in 1..SeqMax
  BY ConfigAssumption DEF NextSeq

(***************************************************************************)
(* The handlers keep the locked state sound, and what they do to the proof *)
(* of the connection.                                                      *)
(***************************************************************************)
\* r is sound, has the slot of l or none, and is proven only if l was.
NoProof(l, r) ==
  /\ LinkOK(r)
  /\ r.bidirectional => l.bidirectional
  /\ r.slot \in {l.slot, NoSlot} /\ r.port_open = l.port_open
  /\ l.last_uptime # NoUptime => r.last_uptime # NoUptime

LEMMA RebootOK ==
  ASSUME NEW l, LinkOK(l) PROVE NoProof(l, Reboot(l)) /\ ~Reboot(l).bidirectional
<1> DEFINE r == Reboot(l)
<1>1. l \in LinkTypes
  BY DEF LinkOK
<1>2. <<>> \in Seq(Entries) /\ 0 \in 0..SeqMax /\ NoSlot \in SlotTypes
  BY ConfigAssumption DEF SlotTypes
<1>3. r \in LinkTypes
  BY <1>1, <1>2 DEF LinkTypes, Reboot
<1>4. /\ r.pending = <<>> /\ r.slot = NoSlot /\ ~r.bidirectional /\ r.ping_seq = 0
      /\ r.last_uptime = l.last_uptime /\ r.telemetry = l.telemetry
      /\ r.port_open = l.port_open
  BY <1>1 DEF LinkTypes, Reboot
<1> HIDE DEF r
<1>5. Sane(r)
  BY <1>4 DEF Sane, LinkOK
<1> QED BY <1>3, <1>4, <1>5, EmptyOK DEF LinkOK, NoProof, r

LEMMA ResetOK ==
  ASSUME NEW l, LinkOK(l)
  PROVE  NoProof(l, ResetConnection(l)) /\ ~ResetConnection(l).bidirectional
<1> DEFINE r == ResetConnection(l)
<1>1. l \in LinkTypes
  BY DEF LinkOK
<1>2. <<>> \in Seq(Entries) /\ 0 \in 0..SeqMax /\ NoSlot \in SlotTypes /\ 0 \in 0..MaxTimeouts
  BY ConfigAssumption DEF SlotTypes
<1>3. r \in LinkTypes
  BY <1>1, <1>2 DEF LinkTypes, ResetConnection
<1>4. /\ r.pending = <<>> /\ r.slot = NoSlot /\ ~r.bidirectional /\ r.ping_seq = 0
      /\ r.last_uptime = l.last_uptime /\ r.telemetry = "none"
      /\ r.port_open = l.port_open
  BY <1>1 DEF LinkTypes, ResetConnection
<1> HIDE DEF r
<1>5. Sane(r)
  BY <1>4 DEF Sane, LinkOK
<1> QED BY <1>3, <1>4, <1>5, EmptyOK DEF LinkOK, NoProof, r

LEMMA RefreshOK ==
  ASSUME NEW l, LinkOK(l)
  PROVE  NoProof(l, Refresh(l)) /\ Refresh(l).bidirectional = l.bidirectional
  BY DEF LinkOK, LinkTypes, SlotTypes, Sane, NoProof, Refresh, Statuses, PendingOK

LEMMA NoteProtoOK ==
  ASSUME NEW l, NEW boot, LinkOK(l)
  PROVE  /\ NoProof(l, NoteProto(l, boot))
         /\ boot \in BadProto => NoteProto(l, boot).proto_problem
<1> DEFINE r == NoteProto(l, boot)
<1>1. l \in LinkTypes
  BY DEF LinkOK
<1>2. CASE boot \notin BadProto
  BY <1>1, <1>2 DEF NoteProto, NoProof
<1>3. CASE boot \in BadProto
  <2>1. /\ r \in LinkTypes
        /\ r.pending = l.pending /\ r.slot = l.slot /\ ~r.bidirectional /\ r.proto_problem
        /\ r.ping_seq = l.ping_seq /\ r.last_uptime = l.last_uptime
        /\ r.telemetry = l.telemetry /\ r.port_open = l.port_open
        /\ r.reboot_latched = l.reboot_latched
    BY <1>1, <1>3 DEF LinkTypes, NoteProto
  <2> HIDE DEF r
  <2>2. Sane(r)
    BY <2>1 DEF Sane, LinkOK
  <2> QED BY <2>1, <2>2 DEF LinkOK, NoProof, r
<1> QED BY <1>2, <1>3

LEMMA NoProofTransitive ==
  ASSUME NEW l, NEW q, NEW r, NoProof(l, q), NoProof(q, r)
  PROVE  NoProof(l, r)
  BY DEF NoProof

LEMMA TelemetryOK ==
  ASSUME NEW l, LinkOK(l), NEW line \in Lines, line.type = "TELEMETRY"
  PROVE  NoProof(l, OnTelemetry(l, line))
<1> DEFINE m == IF line.uptime < l.last_uptime THEN Reboot(l) ELSE l
           r == [m EXCEPT !.last_uptime = line.uptime, !.telemetry = "fresh",
                          !.drive = line.drive,
                          !.seq = IF m.seq_synced THEN @ ELSE line.last_seq,
                          !.seq_synced = TRUE]
<1>1. OnTelemetry(l, line) = r
  BY DEF OnTelemetry
<1>2. NoProof(l, m)
  BY RebootOK DEF NoProof
<1>3. line.uptime \in 0..MaxUptime /\ line.last_seq \in 0..SeqMax /\ line.drive \in BOOLEAN
  BY DEF Lines
<1>4. line.uptime \in NoUptime..MaxUptime /\ line.uptime # NoUptime
  BY <1>3, ConfigAssumption DEF NoUptime
<1> HIDE DEF m
<1>5. m \in LinkTypes
  BY <1>2 DEF NoProof, LinkOK
<1>6. /\ r \in LinkTypes
      /\ r.pending = m.pending /\ r.slot = m.slot /\ r.bidirectional = m.bidirectional
      /\ r.ping_seq = m.ping_seq /\ r.last_uptime # NoUptime
      /\ r.port_open = m.port_open /\ r.reboot_latched = m.reboot_latched
  BY <1>3, <1>4, <1>5 DEF LinkTypes
<1> HIDE DEF r
<1>7. Sane(r)
  BY <1>2, <1>6 DEF Sane, LinkOK, NoProof
<1>8. NoProof(m, r)
  BY <1>2, <1>6, <1>7 DEF NoProof, LinkOK
<1> QED BY <1>1, <1>2, <1>8, NoProofTransitive

LEMMA ReadyOK ==
  ASSUME NEW l, LinkOK(l), NEW line \in Lines, line.type = "READY"
  PROVE  NoProof(l, OnReady(l, line)) /\ ~OnReady(l, line).bidirectional
<1> DEFINE n == NoteProto(l, line.boot)
           m == IF l.last_uptime # NoUptime THEN Reboot(n) ELSE n
           r == [m EXCEPT !.last_uptime = line.uptime, !.seq = 0, !.seq_synced = TRUE]
<1>1. OnReady(l, line) = r
  BY DEF OnReady
<1>2. NoProof(l, n)
  BY NoteProtoOK
<1>3. NoProof(l, m) /\ ~m.bidirectional
  <2> HIDE DEF n
  <2>1. LinkOK(n)
    BY <1>2 DEF NoProof
  <2>2. NoProof(n, Reboot(n)) /\ ~Reboot(n).bidirectional
    BY <2>1, RebootOK
  <2>3. CASE l.last_uptime # NoUptime
    BY <1>2, <2>2, <2>3, NoProofTransitive
  <2>4. CASE l.last_uptime = NoUptime
    <3>1. ~l.bidirectional
      BY <2>4 DEF LinkOK, Sane
    <3> QED BY <1>2, <2>4, <3>1 DEF NoProof, LinkOK, LinkTypes
  <2> QED BY <2>3, <2>4
<1>4. line.uptime \in NoUptime..MaxUptime /\ line.uptime # NoUptime /\ 0 \in 0..SeqMax
  BY ConfigAssumption DEF Lines, NoUptime
<1> HIDE DEF m
<1>5. m \in LinkTypes
  BY <1>3 DEF NoProof, LinkOK
<1>6. /\ r \in LinkTypes
      /\ r.pending = m.pending /\ r.slot = m.slot /\ r.bidirectional = m.bidirectional
      /\ r.ping_seq = m.ping_seq /\ r.last_uptime # NoUptime
      /\ r.port_open = m.port_open /\ r.reboot_latched = m.reboot_latched
  BY <1>4, <1>5 DEF LinkTypes
<1> HIDE DEF r
<1>7. Sane(r)
  BY <1>3, <1>6 DEF Sane, LinkOK, NoProof
<1>8. NoProof(m, r)
  BY <1>3, <1>6, <1>7 DEF NoProof, LinkOK
<1> QED BY <1>1, <1>3, <1>6, <1>8, NoProofTransitive

LEMMA ErrorOK ==
  ASSUME NEW l, LinkOK(l), NEW line \in Lines, line.type = "ERROR"
  PROVE  NoProof(l, OnError(l, line))
<1> DEFINE w == Without(l.pending, line.seq)
           r == OnError(l, line)
<1>1. l \in LinkTypes /\ PendingOK(l.pending)
  BY DEF LinkOK
<1>2. PendingOK(w) /\ w \in Seq(Entries)
  <2>1. /\ w \in Seq(Entries) /\ Len(w) <= Len(l.pending) /\ Distinct(w)
    BY <1>1, WithoutOK DEF PendingOK
  <2>2. Len(w) \in Nat /\ Len(l.pending) \in Nat /\ Len(l.pending) <= MaxPending
    BY <1>1, <2>1, LenProperties DEF PendingOK
  <2> HIDE DEF w
  <2> QED BY <2>1, <2>2, ConfigAssumption DEF PendingOK
<1>3. 0 \in 0..MaxTimeouts /\ 0 \in 0..SeqMax
  BY ConfigAssumption
<1>4. /\ r \in LinkTypes
      /\ r.pending = w /\ r.slot = l.slot /\ r.bidirectional = l.bidirectional
      /\ r.ping_seq \in {0, l.ping_seq} /\ r.last_uptime = l.last_uptime
      /\ r.telemetry = l.telemetry
      /\ r.port_open = l.port_open /\ r.reboot_latched = l.reboot_latched
  <2>1. w = Without(l.pending, line.seq)
    OBVIOUS
  <2> HIDE DEF w
  <2> QED BY <1>1, <1>2, <1>3, <2>1 DEF LinkTypes, OnError
<1> HIDE DEF r, w
<1>5. Sane(r)
  BY <1>4 DEF Sane, LinkOK
<1> QED BY <1>2, <1>4, <1>5 DEF NoProof, LinkOK, r

\* The answer that proves the connection (HandleLine).
Proves(l, line) ==
  line.type = "ACK" /\ line.result = "ACCEPTED" /\ AnswersPing(l, line)

\* r follows from l by line: sound, and proven by this line, or as l was and by no READY.
Answered(l, line, r) ==
  /\ LinkOK(r)
  /\ r.bidirectional => IF Proves(l, line) THEN line.boot \notin BadProto
                        ELSE l.bidirectional /\ line.type # "READY"
  /\ r.slot \in {l.slot, NoSlot} /\ r.port_open = l.port_open

LEMMA AckOK ==
  ASSUME NEW l, LinkOK(l), NEW line \in Lines, line.type = "ACK"
  PROVE  Answered(l, line, OnAck(l, line))
<1> DEFINE w == Without(l.pending, line.seq)
           a == [l EXCEPT !.pending = Without(@, line.seq), !.timeouts = 0,
                          !.seq = IF line.result = "STALE" THEN line.last_seq ELSE @]
           q == [a EXCEPT !.ping_seq = 0]
           p == NoteProto(q, line.boot)
           b == [p EXCEPT !.bidirectional = ~p.proto_problem]
           c == [a EXCEPT !.ping_seq = 0, !.ping_due = TRUE]
<1>1. l \in LinkTypes /\ PendingOK(l.pending) /\ Sane(l)
  BY DEF LinkOK
<1>2. line.last_seq \in 0..SeqMax /\ line.seq \in 1..SeqMax
  BY DEF Lines
<1>3. PendingOK(w) /\ w \in Seq(Entries)
  <2>1. /\ w \in Seq(Entries) /\ Len(w) <= Len(l.pending) /\ Distinct(w)
    BY <1>1, WithoutOK DEF PendingOK
  <2>2. Len(w) \in Nat /\ Len(l.pending) \in Nat /\ Len(l.pending) <= MaxPending
    BY <1>1, <2>1, LenProperties DEF PendingOK
  <2> HIDE DEF w
  <2> QED BY <2>1, <2>2, ConfigAssumption DEF PendingOK
<1>4. 0 \in 0..MaxTimeouts /\ 0 \in 0..SeqMax
  BY ConfigAssumption
<1>5. /\ a \in LinkTypes
      /\ a.pending = w /\ a.slot = l.slot /\ a.bidirectional = l.bidirectional
      /\ a.ping_seq = l.ping_seq /\ a.last_uptime = l.last_uptime
      /\ a.telemetry = l.telemetry
      /\ a.port_open = l.port_open /\ a.reboot_latched = l.reboot_latched
  <2>1. w = Without(l.pending, line.seq)
    OBVIOUS
  <2> HIDE DEF w
  <2> QED BY <1>1, <1>2, <1>3, <1>4, <2>1 DEF LinkTypes
<1>6. \/ ~Matches(l, line) /\ OnAck(l, line) = l
      \/ Matches(l, line) /\ ~AnswersPing(l, line) /\ OnAck(l, line) = a
      \/ AnswersPing(l, line) /\ line.result = "ACCEPTED" /\ OnAck(l, line) = b
      \/ AnswersPing(l, line) /\ line.result # "ACCEPTED" /\ OnAck(l, line) = c
  BY DEF OnAck
<1>7. AnswersPing(l, line) => Matches(l, line) /\ l.ping_seq # 0
  BY <1>2 DEF AnswersPing
<1> HIDE DEF a, w
<1>8. LinkOK(a)
  <2>1. Sane(a)
    BY <1>1, <1>5 DEF Sane
  <2> QED BY <1>3, <1>5, <2>1 DEF LinkOK
<1>9. /\ LinkOK(q) /\ q.slot = a.slot /\ q.port_open = a.port_open
      /\ q.last_uptime = a.last_uptime /\ q.reboot_latched = a.reboot_latched
  <2>1. /\ q \in LinkTypes
        /\ q.pending = a.pending /\ q.slot = a.slot /\ q.bidirectional = a.bidirectional
        /\ q.ping_seq = 0 /\ q.last_uptime = a.last_uptime
        /\ q.telemetry = a.telemetry
        /\ q.port_open = a.port_open /\ q.reboot_latched = a.reboot_latched
    BY <1>4, <1>5 DEF LinkTypes
  <2> HIDE DEF q
  <2>2. Sane(q)
    BY <1>8, <2>1 DEF Sane, LinkOK
  <2> QED BY <1>8, <2>1, <2>2 DEF LinkOK
<1>10. LinkOK(c) /\ c.slot = a.slot /\ c.port_open = a.port_open
       /\ c.bidirectional = a.bidirectional
  <2>1. /\ c \in LinkTypes
        /\ c.pending = a.pending /\ c.slot = a.slot /\ c.bidirectional = a.bidirectional
        /\ c.ping_seq = 0 /\ c.last_uptime = a.last_uptime
        /\ c.telemetry = a.telemetry
        /\ c.port_open = a.port_open /\ c.reboot_latched = a.reboot_latched
    BY <1>4, <1>5 DEF LinkTypes
  <2> HIDE DEF c
  <2>2. Sane(c)
    BY <1>8, <2>1 DEF Sane, LinkOK
  <2> QED BY <1>8, <2>1, <2>2 DEF LinkOK
<1> HIDE DEF c
<1>11. CASE ~Matches(l, line) /\ OnAck(l, line) = l
  BY <1>7, <1>11 DEF Answered, Proves
<1>12. CASE Matches(l, line) /\ ~AnswersPing(l, line) /\ OnAck(l, line) = a
  BY <1>5, <1>8, <1>12 DEF Answered, Proves
<1>13. CASE AnswersPing(l, line) /\ line.result # "ACCEPTED" /\ OnAck(l, line) = c
  BY <1>5, <1>10, <1>13 DEF Answered, Proves
<1>14. CASE AnswersPing(l, line) /\ line.result = "ACCEPTED" /\ OnAck(l, line) = b
  <2> HIDE DEF q
  <2>1. /\ NoProof(q, p) /\ (line.boot \in BadProto => p.proto_problem)
    BY <1>9, NoteProtoOK
  <2>2. p.last_uptime # NoUptime /\ ~p.reboot_latched /\ p.ping_seq = 0
    <3>1. /\ p.last_uptime = q.last_uptime /\ p.reboot_latched = q.reboot_latched
          /\ p.ping_seq = q.ping_seq
      BY <1>9 DEF NoteProto, LinkOK, LinkTypes
    <3>2. q.ping_seq = 0
      BY <1>5 DEF q, LinkTypes
    <3>3. l.last_uptime # NoUptime /\ ~l.reboot_latched
      BY <1>1, <1>7, <1>14 DEF Sane
    <3> QED BY <1>5, <1>9, <3>1, <3>2, <3>3
  <2> HIDE DEF p
  <2>3. p \in LinkTypes
    BY <2>1 DEF NoProof, LinkOK
  <2>4. /\ b \in LinkTypes
        /\ b.pending = p.pending /\ b.slot = p.slot /\ b.bidirectional = ~p.proto_problem
        /\ b.ping_seq = p.ping_seq /\ b.last_uptime = p.last_uptime
        /\ b.telemetry = p.telemetry
        /\ b.port_open = p.port_open /\ b.reboot_latched = p.reboot_latched
    BY <2>3 DEF LinkTypes
  <2> HIDE DEF b
  <2>5. Sane(b)
    BY <2>2, <2>4 DEF Sane
  <2>6. LinkOK(b)
    BY <2>1, <2>4, <2>5 DEF NoProof, LinkOK
  <2>7. b.slot \in {l.slot, NoSlot} /\ b.port_open = l.port_open
    BY <1>5, <1>9, <2>1, <2>4 DEF NoProof
  <2>8. b.bidirectional => line.boot \notin BadProto
    BY <2>1, <2>4
  <2>9. Proves(l, line)
    BY <1>14 DEF Proves
  <2> QED BY <1>14, <2>6, <2>7, <2>8, <2>9 DEF Answered
<1> QED BY <1>6, <1>11, <1>12, <1>13, <1>14

LEMMA HandledOK ==
  ASSUME NEW l, LinkOK(l), NEW line \in Lines
  PROVE  Answered(l, line, Handled(l, line))
<1> DEFINE h == CASE line.type = "TELEMETRY" -> OnTelemetry(l, line)
                  [] line.type = "READY"     -> OnReady(l, line)
                  [] line.type = "DIAG"      -> NoteProto(l, line.boot)
                  [] line.type = "ACK"       -> OnAck(l, line)
                  [] OTHER                   -> OnError(l, line)
<1>1. Handled(l, line) = Refresh(h)
  BY DEF Handled
<1>2. line.type \in LineTypes
  BY DEF Lines, LineTypes
<1>3. Answered(l, line, h)
  <2>1. CASE line.type = "TELEMETRY"
    <3>1. h = OnTelemetry(l, line)
      BY <2>1
    <3> QED BY <2>1, <3>1, TelemetryOK DEF Answered, NoProof, Proves
  <2>2. CASE line.type = "READY"
    <3>1. h = OnReady(l, line)
      BY <2>2
    <3> QED BY <2>2, <3>1, ReadyOK DEF Answered, NoProof, Proves
  <2>3. CASE line.type = "DIAG"
    <3>1. h = NoteProto(l, line.boot)
      BY <2>3
    <3> QED BY <2>3, <3>1, NoteProtoOK DEF Answered, NoProof, Proves
  <2>4. CASE line.type = "ACK"
    <3>1. h = OnAck(l, line)
      BY <2>4
    <3> QED BY <2>4, <3>1, AckOK
  <2>5. CASE line.type = "ERROR"
    <3>1. h = OnError(l, line)
      BY <2>5
    <3> QED BY <2>5, <3>1, ErrorOK DEF Answered, NoProof, Proves
  <2> QED BY <1>2, <2>1, <2>2, <2>3, <2>4, <2>5 DEF LineTypes
<1> HIDE DEF h
<1>4. NoProof(h, Refresh(h)) /\ Refresh(h).bidirectional = h.bidirectional
  BY <1>3, RefreshOK DEF Answered
<1> QED BY <1>1, <1>3, <1>4 DEF Answered, NoProof

(***************************************************************************)
(* The types of the whole state.                                           *)
(***************************************************************************)
IOTyped == io \in [pc: Pcs, lines: Seq(Lines), out: Seq(Frames)]
WorldTyped ==
  /\ toEsp \in Seq(Frames) /\ toPi \in Seq(Lines)
  /\ ctl \in [boot: Boots, uptime: 0..MaxUptime, last_seq: 0..SeqMax]
  /\ faults \in 0..MaxFaults
  /\ hist \in HistTypes
PortAgrees == link.port_open <=> io.pc \in OpenPcs
LinesOnlyInLines == io.lines # <<>> => io.pc = "lines"
Typed == LinkOK(link) /\ IOTyped /\ WorldTyped /\ PortAgrees /\ LinesOnlyInLines

LEMMA InitTyped == Init => Typed
<1> SUFFICES ASSUME Init PROVE Typed
  OBVIOUS
<1> USE ConfigAssumption
<1>1. link.pending = <<>> /\ PendingOK(link.pending)
  BY EmptyOK DEF Init
<1>2. /\ 0 \in 0..SeqMax /\ 0 \in 0..MaxTimeouts /\ NoUptime \in NoUptime..MaxUptime
      /\ <<>> \in Seq(Entries) /\ NoSlot \in SlotTypes
  BY DEF NoUptime, SlotTypes
<1>3. link \in LinkTypes
  BY <1>2 DEF Init, LinkTypes, Statuses
<1>4. Sane(link)
  BY DEF Init, Sane
<1>5. IOTyped /\ LinesOnlyInLines /\ PortAgrees
  BY DEF Init, IOTyped, Pcs, LinesOnlyInLines, PortAgrees, OpenPcs
<1>6. hist \in HistTypes
  BY DEF Init, HistTypes, Connections
<1>7. ctl \in [boot: Boots, uptime: 0..MaxUptime, last_seq: 0..SeqMax]
  <2>1. ctl \in [boot: {1}, uptime: {0}, last_seq: {0, SeqMax}]
    BY DEF Init
  <2>2. {1} \subseteq Boots /\ {0} \subseteq 0..MaxUptime /\ {0, SeqMax} \subseteq 0..SeqMax
    BY DEF Boots
  <2> QED BY <2>1, <2>2
<1>8. toEsp \in Seq(Frames) /\ toPi \in Seq(Lines) /\ faults \in 0..MaxFaults
  BY DEF Init
<1> QED BY <1>1, <1>3, <1>4, <1>5, <1>6, <1>7, <1>8 DEF Typed, LinkOK, WorldTyped

\* An update that leaves alone what Sane and PendingOK speak of, or takes freshness away.
LEMMA SoundUpdate ==
  ASSUME NEW l, LinkOK(l), NEW r \in LinkTypes,
         r.pending = l.pending, r.telemetry = l.telemetry \/ r.telemetry # "fresh",
         r.ping_seq = l.ping_seq, r.bidirectional = l.bidirectional,
         r.last_uptime = l.last_uptime, r.reboot_latched = l.reboot_latched
  PROVE  LinkOK(r)
  BY DEF LinkOK, Sane

LEMMA PortOK ==
  ASSUME NEW l, LinkOK(l), NEW open \in BOOLEAN, NEW st \in Statuses
  PROVE  LET r == [l EXCEPT !.port_open = open, !.status = st]
         IN /\ LinkOK(r) /\ r.port_open = open /\ r.bidirectional = l.bidirectional
            /\ r.slot = l.slot
<1> DEFINE r == [l EXCEPT !.port_open = open, !.status = st]
<1>1. /\ r \in LinkTypes
      /\ r.pending = l.pending /\ r.telemetry = l.telemetry
      /\ r.ping_seq = l.ping_seq /\ r.bidirectional = l.bidirectional
      /\ r.last_uptime = l.last_uptime /\ r.reboot_latched = l.reboot_latched
      /\ r.port_open = open /\ r.slot = l.slot
  BY DEF LinkOK, LinkTypes
<1> HIDE DEF r
<1>2. LinkOK(r)
  BY <1>1, SoundUpdate
<1> QED BY <1>1, <1>2 DEF r

\* The agent's and the clock's updates of the locked state.
Undisturbed(l, r) ==
  LinkOK(r) /\ r.port_open = l.port_open /\ r.bidirectional = l.bidirectional

LEMMA QuietOK ==
  ASSUME NEW l, LinkOK(l)
  PROVE  /\ \A st \in Statuses : Undisturbed(l, [l EXCEPT !.status = st])
         /\ \A b \in BOOLEAN, st \in Statuses :
              Undisturbed(l, [l EXCEPT !.stopping = b, !.status = st])
         /\ \A s \in SlotTypes : Undisturbed(l, [l EXCEPT !.slot = s])
         /\ Undisturbed(l, [l EXCEPT !.telemetry = "stale"])
         /\ Undisturbed(l, [l EXCEPT !.ping_due = TRUE])
<1> DEFINE Same(r) ==
      /\ r \in LinkTypes
      /\ r.pending = l.pending /\ r.telemetry \in {l.telemetry, "stale"}
      /\ r.ping_seq = l.ping_seq /\ r.bidirectional = l.bidirectional
      /\ r.last_uptime = l.last_uptime /\ r.reboot_latched = l.reboot_latched
      /\ r.port_open = l.port_open
<1>1. l \in LinkTypes
  BY DEF LinkOK
<1>2. ASSUME NEW st \in Statuses PROVE Same([l EXCEPT !.status = st])
  BY <1>1 DEF LinkTypes
<1>3. ASSUME NEW b \in BOOLEAN, NEW st \in Statuses
      PROVE  Same([l EXCEPT !.stopping = b, !.status = st])
  BY <1>1 DEF LinkTypes
<1>4. ASSUME NEW s \in SlotTypes PROVE Same([l EXCEPT !.slot = s])
  BY <1>1 DEF LinkTypes
<1>5. Same([l EXCEPT !.telemetry = "stale"])
  BY <1>1 DEF LinkTypes
<1>6. Same([l EXCEPT !.ping_due = TRUE])
  BY <1>1 DEF LinkTypes
<1>7. ASSUME NEW r, Same(r) PROVE Undisturbed(l, r)
  BY <1>7, SoundUpdate DEF Undisturbed
<1> HIDE DEF Same
<1> QED BY <1>2, <1>3, <1>4, <1>5, <1>6, <1>7

LEMMA AcknowledgedOK ==
  ASSUME NEW l, LinkOK(l)
  PROVE  LET r == Acknowledged(l)
         IN LinkOK(r) /\ r.port_open = l.port_open /\ ~r.bidirectional
<1> DEFINE r == Acknowledged(l)
<1>1. /\ r \in LinkTypes
      /\ r.pending = l.pending /\ r.telemetry = l.telemetry
      /\ r.ping_seq = 0 /\ ~r.bidirectional
      /\ r.last_uptime = l.last_uptime /\ ~r.reboot_latched
      /\ r.port_open = l.port_open
  <2>1. l \in LinkTypes /\ 0 \in 0..SeqMax
    BY ConfigAssumption DEF LinkOK
  <2> QED BY <2>1 DEF LinkTypes, Acknowledged
<1> HIDE DEF r
<1> QED BY <1>1 DEF LinkOK, Sane, r

LEMMA WithPingOK ==
  ASSUME NEW l, LinkOK(l)
  PROVE  LET r == WithPing(l)
         IN /\ LinkOK(r) /\ r.port_open = l.port_open /\ r.bidirectional = l.bidirectional
            /\ r.slot = l.slot
<1> DEFINE r == WithPing(l)
           n == NextSeq(l.seq)
           p == Put(l.pending, n, "PING")
<1>1. l \in LinkTypes /\ PendingOK(l.pending) /\ Sane(l)
  BY DEF LinkOK
<1>2. CASE ~PingWanted(l)
  BY <1>2 DEF WithPing
<1>3. CASE PingWanted(l)
  <2>1. n \in 1..SeqMax /\ n \in 0..SeqMax
    BY <1>1, NextSeqOK DEF LinkTypes
  <2>2. PendingOK(p) /\ p \in Seq(Entries)
    <3>1. Len(l.pending) < MaxPending /\ "PING" \in Commands
      BY <1>3 DEF PingWanted, Commands
    <3>2. PendingOK(p)
      BY <1>1, <2>1, <3>1, PutOK
    <3> QED BY <3>2 DEF PendingOK
  <2>3. r = [l EXCEPT !.seq = n, !.pending = p, !.ping_seq = n, !.ping_due = FALSE]
    BY <1>3 DEF WithPing
  <2>4. l.telemetry = "fresh" /\ ~l.reboot_latched
    BY <1>3 DEF PingWanted
  <2> HIDE DEF n, p, r
  <2>5. /\ r \in LinkTypes
        /\ r.pending = p /\ r.telemetry = l.telemetry /\ r.bidirectional = l.bidirectional
        /\ r.last_uptime = l.last_uptime /\ r.reboot_latched = l.reboot_latched
        /\ r.port_open = l.port_open /\ r.slot = l.slot
    BY <1>1, <2>1, <2>2, <2>3 DEF LinkTypes
  <2> QED BY <1>1, <2>2, <2>4, <2>5 DEF LinkOK, Sane, r
<1> QED BY <1>2, <1>3

LEMMA WithMotionOK ==
  ASSUME NEW l, LinkOK(l)
  PROVE  LET r == WithMotion(l)
         IN LinkOK(r) /\ r.port_open = l.port_open /\ r.bidirectional = l.bidirectional
<1> DEFINE r == WithMotion(l)
           n == NextSeq(l.seq)
           p == Put(l.pending, n, l.slot.cmd)
<1>1. l \in LinkTypes /\ PendingOK(l.pending) /\ Sane(l) /\ NoSlot \in SlotTypes
  BY DEF LinkOK, SlotTypes
<1>2. CASE ~MotionWanted(l)
  <2>1. r = [l EXCEPT !.slot = NoSlot]
    BY <1>2 DEF WithMotion
  <2> HIDE DEF r
  <2>2. /\ r \in LinkTypes
        /\ r.pending = l.pending /\ r.telemetry = l.telemetry
        /\ r.ping_seq = l.ping_seq /\ r.bidirectional = l.bidirectional
        /\ r.last_uptime = l.last_uptime /\ r.reboot_latched = l.reboot_latched
        /\ r.port_open = l.port_open
    BY <1>1, <2>1 DEF LinkTypes
  <2>3. LinkOK(r)
    BY <2>2, SoundUpdate
  <2> QED BY <2>2, <2>3 DEF r
<1>3. CASE MotionWanted(l)
  <2>1. n \in 1..SeqMax /\ n \in 0..SeqMax
    BY <1>1, NextSeqOK DEF LinkTypes
  <2>2. l.slot \in [cmd: Motion, old: BOOLEAN, conn: Connections]
    BY <1>1, <1>3 DEF MotionWanted, LinkTypes, SlotTypes
  <2>3. PendingOK(p) /\ p \in Seq(Entries)
    <3>1. Len(l.pending) < MaxPending /\ l.slot.cmd \in Commands
      BY <1>3, <2>2 DEF MotionWanted, Commands
    <3>2. PendingOK(p)
      BY <1>1, <2>1, <3>1, PutOK
    <3> QED BY <3>2 DEF PendingOK
  <2>4. r = [l EXCEPT !.seq = n, !.pending = p, !.slot = NoSlot, !.motion_sent = TRUE]
    BY <1>3 DEF WithMotion
  <2> HIDE DEF n, p, r
  <2>5. /\ r \in LinkTypes
        /\ r.pending = p /\ r.telemetry = l.telemetry /\ r.bidirectional = l.bidirectional
        /\ r.ping_seq = l.ping_seq
        /\ r.last_uptime = l.last_uptime /\ r.reboot_latched = l.reboot_latched
        /\ r.port_open = l.port_open
    BY <1>1, <2>1, <2>3, <2>4 DEF LinkTypes
  <2> QED BY <1>1, <2>3, <2>5 DEF LinkOK, Sane, r
<1> QED BY <1>2, <1>3

LEMMA FrameOK ==
  ASSUME hist \in HistTypes, NEW l, l.seq \in 0..SeqMax, NEW c \in Commands, NEW n \in Connections
  PROVE  Frame(l, c, n) \in Frames /\ Frame(l, c, n).conn = n /\ Frame(l, c, n).cmd = c
<1>1. NextSeq(l.seq) \in 1..SeqMax
  BY NextSeqOK
<1> QED BY <1>1 DEF Frame, Frames, HistTypes, Connections

LEMMA OneFrame ==
  ASSUME NEW S, NEW f \in S PROVE <<f>> \in Seq(S)
  OBVIOUS

\* _expire_pending
LEMMA ExpireOK ==
  ASSUME Typed, NEW n \in 0..Len(link.pending), ExpirePending(n)
  PROVE  /\ LinkOK(link') /\ faults' \in 0..MaxFaults
         /\ link'.port_open = link.port_open /\ link'.bidirectional = link.bidirectional
<1> DEFINE gone == {link.pending[i].seq : i \in 1..n}
           count == link.timeouts + n
           p == SubSeq(link.pending, n + 1, Len(link.pending))
           t == IF count > MaxTimeouts THEN MaxTimeouts ELSE count
           q == IF link.ping_seq \in gone THEN 0 ELSE link.ping_seq
           l == [link EXCEPT !.pending = p, !.timeouts = t, !.ping_seq = q]
<1>1. link \in LinkTypes /\ PendingOK(link.pending) /\ Sane(link)
  BY DEF Typed, LinkOK
<1>2. PendingOK(p) /\ p \in Seq(Entries)
  BY <1>1, ShortenOK DEF PendingOK
<1>3. t \in 0..MaxTimeouts
  <2>1. link.timeouts \in 0..MaxTimeouts /\ n \in Nat /\ MaxTimeouts \in Nat
    <3>1. Len(link.pending) \in Nat
      BY <1>1, LenProperties DEF PendingOK
    <3> QED BY <1>1, <3>1, ConfigAssumption DEF LinkTypes
  <2> QED BY <2>1
<1>4. q \in 0..SeqMax /\ q \in {0, link.ping_seq}
  BY <1>1, ConfigAssumption DEF LinkTypes
<1>5. link' = Refresh(l)
  BY DEF ExpirePending
<1>6. faults' \in 0..MaxFaults
  <2>1. Fault \/ UNCHANGED faults
    BY DEF ExpirePending
  <2>2. faults \in 0..MaxFaults
    BY DEF Typed, WorldTyped
  <2>3. CASE Fault
    <3>1. faults < MaxFaults /\ faults' = faults + 1
      BY <2>3 DEF Fault
    <3> QED BY <2>2, <3>1, ConfigAssumption
  <2>4. CASE UNCHANGED faults
    BY <2>2, <2>4
  <2> QED BY <2>1, <2>3, <2>4
<1> HIDE DEF p, t, q
<1>7. /\ l \in LinkTypes
      /\ l.pending = p /\ l.telemetry = link.telemetry
      /\ l.bidirectional = link.bidirectional /\ l.ping_seq = q
      /\ l.last_uptime = link.last_uptime /\ l.reboot_latched = link.reboot_latched
      /\ l.port_open = link.port_open
  BY <1>1, <1>2, <1>3, <1>4 DEF LinkTypes
<1> HIDE DEF l
<1>8. LinkOK(l)
  BY <1>1, <1>2, <1>4, <1>7 DEF LinkOK, Sane
<1> QED BY <1>5, <1>6, <1>7, <1>8, RefreshOK DEF NoProof

(***************************************************************************)
(* Every step keeps the types.                                             *)
(***************************************************************************)
LEMMA FaultCounted == ASSUME Typed, Fault PROVE faults' \in 0..MaxFaults
  BY ConfigAssumption DEF Typed, WorldTyped, Fault

LEMMA OpenTyped == ASSUME Typed, Open PROVE Typed' /\ ~link'.bidirectional
<1> DEFINE l == ResetConnection(link)
<1>1. LinkOK(l) /\ ~l.bidirectional
  BY ResetOK DEF Typed, NoProof
<1>2. link' = [l EXCEPT !.port_open = TRUE, !.status = "CONNECTING"]
  BY DEF Open
<1> HIDE DEF l
<1>3. LinkOK(link') /\ link'.port_open /\ ~link'.bidirectional
  <2>1. "CONNECTING" \in Statuses
    BY DEF Statuses
  <2> QED BY <1>1, <1>2, <2>1, PortOK
<1>4. IOTyped' /\ io'.pc = "read" /\ io'.lines = io.lines
  BY DEF Open, Typed, IOTyped, Pcs
<1>5. hist' \in HistTypes
  <2>1. hist \in HistTypes /\ hist.conn < MaxConnections
    BY DEF Open, Typed, WorldTyped
  <2>2. hist.conn + 1 \in Connections
    BY <2>1, ConfigAssumption DEF HistTypes, Connections
  <2>3. hist' = [hist EXCEPT !.conn = hist.conn + 1]
    BY DEF Open
  <2> QED BY <2>1, <2>2, <2>3 DEF HistTypes
<1>6. WorldTyped'
  BY <1>5 DEF Open, SameWorld, Typed, WorldTyped
<1>7. io'.lines = <<>>
  BY <1>4 DEF Open, Typed, LinesOnlyInLines
<1> QED BY <1>3, <1>4, <1>6, <1>7 DEF Typed, PortAgrees, OpenPcs, LinesOnlyInLines

LEMMA LostTyped == ASSUME Typed, Lost PROVE Typed' /\ ~link'.bidirectional
<1> DEFINE l == ResetConnection(link)
<1>1. LinkOK(l) /\ ~l.bidirectional
  BY ResetOK DEF Typed, NoProof
<1>2. link' = [l EXCEPT !.port_open = FALSE, !.status = "DISCONNECTED"]
  BY DEF Lost
<1> HIDE DEF l
<1>3. LinkOK(link') /\ ~link'.port_open /\ ~link'.bidirectional
  <2>1. "DISCONNECTED" \in Statuses
    BY DEF Statuses
  <2> QED BY <1>1, <1>2, <2>1, PortOK
<1>4. IOTyped' /\ io'.pc = "closed" /\ io'.lines = io.lines
  <2>1. io' = [io EXCEPT !.pc = "closed", !.out = <<>>] /\ <<>> \in Seq(Frames)
    BY DEF Lost
  <2> QED BY <2>1 DEF Typed, IOTyped, Pcs
<1>5. io.lines = <<>>
  BY DEF Lost, AtLoopTop, Typed, LinesOnlyInLines
<1>6. WorldTyped'
  BY FaultCounted DEF Lost, Typed, WorldTyped
<1> QED BY <1>3, <1>4, <1>5, <1>6 DEF Typed, PortAgrees, OpenPcs, LinesOnlyInLines

\* port.read takes a prefix of what has arrived.
LEMMA ReadSplits ==
  ASSUME NEW S, NEW s \in Seq(S), NEW n \in 0..Len(s)
  PROVE  /\ SubSeq(s, 1, n) \in Seq(S) /\ Len(SubSeq(s, 1, n)) = n
         /\ \A i \in 1..n : SubSeq(s, 1, n)[i] = s[i]
         /\ SubSeq(s, n + 1, Len(s)) \in Seq(S) /\ Len(SubSeq(s, n + 1, Len(s))) = Len(s) - n
         /\ \A i \in 1..Len(s) - n : SubSeq(s, n + 1, Len(s))[i] = s[n + i]
<1>1. Len(s) \in Nat /\ n \in Int /\ n <= Len(s) /\ n >= 0 /\ \A i \in 1..Len(s) : s[i] \in S
  BY LenProperties
<1> DEFINE u == SubSeq(s, 1, n)
           t == SubSeq(s, n + 1, Len(s))
<1>2. u \in Seq(S) /\ Len(u) = n /\ \A i \in 1..n : u[i] = s[i]
  BY <1>1, SubSeqProperties
<1>3. /\ t \in Seq(S)
      /\ Len(t) = IF n + 1 <= Len(s) THEN Len(s) - (n + 1) + 1 ELSE 0
      /\ \A i \in 1..(Len(s) - (n + 1) + 1) : t[i] = s[(n + 1) + i - 1]
  <2>1. n + 1 \in Int /\ Len(s) \in Int /\ \A i \in (n + 1)..Len(s) : s[i] \in S
    BY <1>1
  <2> QED BY <2>1, SubSeqProperties
<1> HIDE DEF t, u
<1>4. Len(t) = Len(s) - n
  BY <1>1, <1>3
<1>5. ASSUME NEW i \in 1..Len(s) - n PROVE t[i] = s[n + i]
  <2>1. i \in 1..(Len(s) - (n + 1) + 1) /\ (n + 1) + i - 1 = n + i
    BY <1>1
  <2> QED BY <1>3, <2>1
<1> QED BY <1>2, <1>3, <1>4, <1>5 DEF t, u

LEMMA ReadTyped == ASSUME Typed, Read PROVE Typed'
<1>1. toPi \in Seq(Lines)
  BY DEF Typed, WorldTyped
<1>2. PICK n \in 0..Len(toPi) :
        /\ io' = [io EXCEPT !.pc = "lines", !.lines = SubSeq(toPi, 1, n)]
        /\ toPi' = SubSeq(toPi, n + 1, Len(toPi))
  BY DEF Read
<1>3. SubSeq(toPi, 1, n) \in Seq(Lines) /\ toPi' \in Seq(Lines)
  BY <1>1, <1>2, ReadSplits
<1>4. IOTyped' /\ io'.pc = "lines"
  BY <1>2, <1>3 DEF Typed, IOTyped, Pcs
<1>5. WorldTyped'
  BY <1>3 DEF Read, SameWorld, Typed, WorldTyped
<1>6. io.pc \in OpenPcs /\ link' = link
  BY DEF Read, AtLoopTop, OpenPcs
<1> QED BY <1>4, <1>5, <1>6 DEF Typed, PortAgrees, OpenPcs, LinesOnlyInLines

LEMMA HandleLineTyped ==
  ASSUME Typed, HandleLine
  PROVE  Typed' /\ Head(io.lines) \in Lines /\ Answered(link, Head(io.lines), link')
<1> DEFINE line == Head(io.lines)
<1>1. io.lines \in Seq(Lines) /\ io.lines # <<>>
  BY DEF HandleLine, Typed, IOTyped
<1>2. line \in Lines /\ Tail(io.lines) \in Seq(Lines)
  BY <1>1, HeadTailProperties
<1>3. link' = Handled(link, line)
  BY DEF HandleLine
<1> HIDE DEF line
<1>4. Answered(link, line, link')
  BY <1>2, <1>3, HandledOK DEF Typed
<1>5. hist' \in HistTypes
  <2>1. /\ line.boot \in Boots /\ (line.type = "ACK" => line.conn \in Connections)
    BY <1>2 DEF Lines
  <2>2. PICK pr \in {[conn |-> line.conn, boot |-> line.boot], hist.proof} :
          /\ hist' = [hist EXCEPT !.heard = line.boot, !.proof = pr]
          /\ pr # hist.proof => line.type = "ACK"
    BY DEF HandleLine, line
  <2>3. line.boot \in 0..MaxBoots
    BY <2>1 DEF Boots
  <2>4. pr \in [conn: Connections, boot: 0..MaxBoots]
    BY <2>1, <2>2, <2>3 DEF Typed, WorldTyped, HistTypes
  <2> QED BY <2>2, <2>3, <2>4 DEF Typed, WorldTyped, HistTypes
<1>6. WorldTyped'
  BY <1>5 DEF HandleLine, SameWorld, Typed, WorldTyped
<1>7. IOTyped' /\ io'.pc = "lines"
  BY <1>2 DEF HandleLine, Typed, IOTyped
<1>8. link'.port_open = link.port_open /\ io.pc = "lines"
  BY <1>4 DEF HandleLine, Answered
<1> QED BY <1>2, <1>4, <1>6, <1>7, <1>8 DEF Typed, PortAgrees, OpenPcs, LinesOnlyInLines,
                                              Answered, line

LEMMA TickTyped ==
  ASSUME Typed, Tick
  PROVE  Typed' /\ link'.bidirectional = link.bidirectional /\ io.lines = <<>> /\ io'.lines = <<>>
<1>1. PICK n \in 0..Len(link.pending) : TickExpiring(n)
  BY DEF Tick
<1>2. /\ io.pc = "lines" /\ io.lines = <<>> /\ ExpirePending(n)
      /\ io' = [io EXCEPT !.pc = IF TransmitEnabled THEN "transmit" ELSE "poll"]
      /\ UNCHANGED <<toEsp, toPi, ctl, hist>>
  BY <1>1 DEF TickExpiring
<1>3. /\ LinkOK(link') /\ faults' \in 0..MaxFaults
      /\ link'.port_open = link.port_open /\ link'.bidirectional = link.bidirectional
  BY <1>2, ExpireOK
<1>4. IOTyped' /\ io'.pc \in {"transmit", "poll"} /\ io'.lines = <<>>
  BY <1>2 DEF Typed, IOTyped, Pcs
<1>5. WorldTyped'
  BY <1>2, <1>3 DEF Typed, WorldTyped
<1> QED BY <1>2, <1>3, <1>4, <1>5 DEF Typed, PortAgrees, OpenPcs, LinesOnlyInLines

LEMMA TransmitTyped ==
  ASSUME IInv, Typed, Transmit
  PROVE  /\ Typed' /\ link'.bidirectional = link.bidirectional
         /\ \A i \in DOMAIN io'.out : io'.out[i].conn = hist.conn
<1> DEFINE pinged == WithPing(link)
           ping == IF PingWanted(link) THEN <<Frame(link, "PING", hist.conn)>> ELSE <<>>
           motion == IF MotionWanted(pinged)
                     THEN <<Frame(pinged, link.slot.cmd, link.slot.conn)>> ELSE <<>>
           Here == {f \in Frames : f.conn = hist.conn}
<1>1. LinkOK(link) /\ hist \in HistTypes /\ hist.conn \in Connections
  BY DEF Typed, WorldTyped, HistTypes
<1>2. LinkOK(pinged) /\ pinged.slot = link.slot /\ pinged.port_open = link.port_open
      /\ pinged.bidirectional = link.bidirectional
  BY <1>1, WithPingOK
<1>3. link' = WithMotion(pinged)
      /\ io' = [io EXCEPT !.pc = IF ping \o motion = <<>> THEN "poll" ELSE "write",
                          !.out = ping \o motion]
      /\ hist' = [hist EXCEPT !.unsent = IF motion # <<>> THEN "none" ELSE @]
      /\ io.pc = "transmit"
  BY DEF Transmit
<1>4. ping \in Seq(Here)
  <2>1. CASE PingWanted(link)
    <3>1. "PING" \in Commands /\ link.seq \in 0..SeqMax
      BY <1>1 DEF Commands, LinkOK, LinkTypes
    <3>2. Frame(link, "PING", hist.conn) \in Here
      BY <1>1, <3>1, FrameOK
    <3> QED BY <2>1, <3>2, OneFrame
  <2>2. CASE ~PingWanted(link)
    BY <2>2
  <2> QED BY <2>1, <2>2
<1>5. motion \in Seq(Here)
  <2> HIDE DEF pinged
  <2>1. CASE MotionWanted(pinged)
    <3>1. link.slot # NoSlot /\ link.port_open
      BY <1>2, <2>1 DEF MotionWanted, MotionReady
    <3>2. link.slot.conn = hist.conn
      BY <3>1 DEF IInv, LinkInv, SlotIsNewest
    <3>3. link.slot.cmd \in Commands
      BY <1>1, <3>1 DEF LinkOK, LinkTypes, SlotTypes, Commands
    <3>4. pinged.seq \in 0..SeqMax
      BY <1>2 DEF LinkOK, LinkTypes
    <3>5. Frame(pinged, link.slot.cmd, link.slot.conn) \in Here
      BY <1>1, <3>2, <3>3, <3>4, FrameOK
    <3> QED BY <2>1, <3>5, OneFrame
  <2>2. CASE ~MotionWanted(pinged)
    BY <2>2
  <2> QED BY <2>1, <2>2
<1> HIDE DEF ping, motion, pinged
<1>6. ping \o motion \in Seq(Here)
  BY <1>4, <1>5, ConcatProperties
<1>7. io'.out = ping \o motion /\ IOTyped' /\ io'.pc \in {"poll", "write"} /\ io'.lines = io.lines
  <2>1. ping \o motion \in Seq(Frames)
    BY <1>6, SeqMonotonic
  <2> DEFINE o == ping \o motion
  <2>2. io' = [io EXCEPT !.pc = IF o = <<>> THEN "poll" ELSE "write", !.out = o]
        /\ o \in Seq(Frames)
    BY <1>3, <2>1
  <2> HIDE DEF o
  <2>3. io'.out = o /\ IOTyped' /\ io'.pc \in {"poll", "write"} /\ io'.lines = io.lines
    BY <2>2 DEF Typed, IOTyped, Pcs
  <2> QED BY <2>3 DEF o
<1>8. \A i \in DOMAIN io'.out : io'.out[i].conn = hist.conn
  <2>1. io'.out \in Seq(Here)
    BY <1>6, <1>7
  <2> QED BY <2>1, LenProperties, ElementOfSeq
<1>9. LinkOK(link') /\ link'.port_open = link.port_open
      /\ link'.bidirectional = link.bidirectional
  BY <1>2, <1>3, WithMotionOK
<1>10. WorldTyped'
  <2>1. hist' \in HistTypes
    BY <1>1, <1>3 DEF HistTypes
  <2> QED BY <2>1 DEF Transmit, SameWorld, Typed, WorldTyped
<1>11. io'.lines = <<>>
  BY <1>3, <1>7 DEF Typed, LinesOnlyInLines
<1> QED BY <1>3, <1>7, <1>8, <1>9, <1>10, <1>11 DEF Typed, PortAgrees, OpenPcs,
                                                    LinesOnlyInLines

LEMMA WriteTyped ==
  ASSUME IInv, Typed, Write
  PROVE  /\ Typed' /\ Head(io.out) \in Frames /\ io.out # <<>> /\ io.out \in Seq(Frames)
         /\ io'.out = Tail(io.out) /\ io.lines = <<>> /\ io'.lines = <<>>
<1>1. io.out \in Seq(Frames) /\ io.out # <<>> /\ io.pc = "write" /\ io.lines = <<>>
  BY DEF Write, IInv, IOInv, Typed, IOTyped, LinesOnlyInLines
<1>2. Head(io.out) \in Frames /\ Tail(io.out) \in Seq(Frames)
  BY <1>1, HeadTailProperties
<1>3. toEsp' \in Seq(Frames)
  BY <1>2, AppendProperties DEF Write, Typed, WorldTyped
<1>4. IOTyped' /\ io'.pc \in {"poll", "write"} /\ io'.lines = <<>> /\ io'.out = Tail(io.out)
  BY <1>1, <1>2 DEF Write, Typed, IOTyped, Pcs
<1>5. WorldTyped'
  BY <1>3 DEF Write, SameWorld, Typed, WorldTyped
<1>6. link' = link
  BY DEF Write
<1> QED BY <1>1, <1>2, <1>4, <1>5, <1>6 DEF Typed, PortAgrees, OpenPcs, LinesOnlyInLines

LEMMA ShutdownTyped ==
  ASSUME Typed, Shutdown
  PROVE  Typed' /\ link'.bidirectional = link.bidirectional /\ io'.pc = "final"
<1> DEFINE n == IF FinalStopWanted THEN NextSeq(link.seq) ELSE link.seq
           out == IF FinalStopWanted THEN <<Frame(link, "STOP", hist.conn)>> ELSE <<>>
<1>1. /\ link' = [link EXCEPT !.port_open = FALSE, !.seq = n]
      /\ io' = [io EXCEPT !.pc = "final", !.out = out]
      /\ io.pc = "poll"
  BY DEF Shutdown
<1>2. link \in LinkTypes /\ hist \in HistTypes /\ hist.conn \in Connections
  BY DEF Typed, LinkOK, WorldTyped, HistTypes
<1>3. n \in 0..SeqMax
  BY <1>2, NextSeqOK DEF LinkTypes
<1>4. out \in Seq(Frames)
  <2>1. Frame(link, "STOP", hist.conn) \in Frames
    BY <1>2, FrameOK DEF LinkTypes, Commands, Motion
  <2> QED BY <2>1, OneFrame
<1> HIDE DEF n, out
<1>5. /\ link' \in LinkTypes
      /\ link'.pending = link.pending /\ link'.telemetry = link.telemetry
      /\ link'.ping_seq = link.ping_seq /\ link'.bidirectional = link.bidirectional
      /\ link'.last_uptime = link.last_uptime /\ link'.reboot_latched = link.reboot_latched
      /\ ~link'.port_open
  BY <1>1, <1>2, <1>3 DEF LinkTypes
<1>6. LinkOK(link')
  BY <1>5, SoundUpdate DEF Typed
<1>7. IOTyped' /\ io'.pc = "final" /\ io'.lines = io.lines
  BY <1>1, <1>4 DEF Typed, IOTyped, Pcs
<1>8. WorldTyped'
  BY DEF Shutdown, SameWorld, Typed, WorldTyped
<1>9. io.lines = <<>>
  BY <1>1 DEF Typed, LinesOnlyInLines
<1> QED BY <1>5, <1>6, <1>7, <1>8, <1>9 DEF Typed, PortAgrees, OpenPcs, LinesOnlyInLines

LEMMA ExitTyped ==
  ASSUME Typed, ExitClosed \/ Close
  PROVE  Typed' /\ link' = link /\ ~link.port_open /\ hist' = hist
         /\ (Close => toPi' = <<>>) /\ (ExitClosed => toPi' = toPi /\ io.pc = "closed")
<1>1. link' = link /\ hist' = hist /\ io.pc \in {"closed", "final"}
  BY DEF ExitClosed, Close
<1>2. IOTyped' /\ io'.pc = "exited" /\ io'.lines = io.lines
  <2>1. CASE ExitClosed
    BY <2>1 DEF ExitClosed, Typed, IOTyped, Pcs
  <2>2. CASE Close
    <3>1. io' = [io EXCEPT !.pc = "exited", !.out = <<>>] /\ <<>> \in Seq(Frames)
      BY <2>2 DEF Close
    <3> QED BY <3>1 DEF Typed, IOTyped, Pcs
  <2> QED BY <2>1, <2>2
<1>3. WorldTyped'
  <2>1. CASE ExitClosed
    BY <2>1 DEF ExitClosed, SameWorld, Typed, WorldTyped
  <2>2. CASE Close
    <3>1. toEsp' \in Seq(Frames)
      <4>1. io.out \in Seq(Frames) /\ toEsp \in Seq(Frames)
        BY DEF Typed, IOTyped, WorldTyped
      <4>2. toEsp \o io.out \in Seq(Frames)
        BY <4>1, ConcatProperties
      <4> QED BY <2>2, <4>1, <4>2 DEF Close
    <3>2. faults' \in 0..MaxFaults
      BY <2>2, FaultCounted DEF Close, Typed, WorldTyped
    <3>3. toPi' \in Seq(Lines) /\ ctl' = ctl
      BY <2>2 DEF Close
    <3> QED BY <1>1, <3>1, <3>2, <3>3 DEF Typed, WorldTyped
  <2> QED BY <2>1, <2>2
<1>4. io.lines = <<>> /\ ~link.port_open
  BY <1>1 DEF Typed, LinesOnlyInLines, PortAgrees, OpenPcs
<1>5. (Close => toPi' = <<>>) /\ (ExitClosed => toPi' = toPi /\ io.pc = "closed")
  BY DEF Close, ExitClosed
<1> QED BY <1>1, <1>2, <1>3, <1>4, <1>5 DEF Typed, PortAgrees, OpenPcs, LinesOnlyInLines

\* What the agent and the clock do: no line and no frame moves.
Quiet ==
  \/ OpenFails \/ Start \/ Stop \/ Joined \/ ReadStatus \/ AcknowledgeReboot
  \/ (\E wish \in Motion : Submit(wish)) \/ TelemetryAges \/ SlotAges \/ PingFallsDue

LEMMA QuietTyped ==
  ASSUME Typed, Quiet
  PROVE  /\ Typed' /\ toEsp' = toEsp /\ toPi' = toPi /\ ctl' = ctl
         /\ io'.lines = io.lines /\ io'.out = io.out
         /\ link'.port_open = link.port_open
         /\ link'.bidirectional => link.bidirectional
         /\ hist'.conn = hist.conn /\ hist'.heard = hist.heard /\ hist'.proof = hist.proof
         /\ io'.pc # io.pc => io.pc \in {"idle", "exited"} /\ io'.pc \in {"idle", "closed"}
<1> DEFINE After == /\ LinkOK(link') /\ link'.port_open = link.port_open
                    /\ link'.bidirectional => link.bidirectional
<1>1. link \in LinkTypes /\ LinkOK(link)
  BY DEF Typed, LinkOK
<1>2. ASSUME OpenFails \/ Joined PROVE After
  <2>1. "DISCONNECTED" \in Statuses
    BY DEF Statuses
  <2>2. link' = [link EXCEPT !.status = "DISCONNECTED"]
    BY <1>2 DEF OpenFails, Joined
  <2>3. Undisturbed(link, link')
    BY <1>1, <2>1, <2>2, QuietOK
  <2> QED BY <2>3 DEF Undisturbed
<1>3. ASSUME Start \/ Stop PROVE After
  <2>1. {"CONNECTING", "STOPPING"} \subseteq Statuses
    BY DEF Statuses
  <2>2. PICK st \in Statuses, b \in BOOLEAN : link' = [link EXCEPT !.stopping = b, !.status = st]
    BY <1>3, <2>1 DEF Start, Stop
  <2>3. Undisturbed(link, link')
    BY <1>1, <2>2, QuietOK
  <2> QED BY <2>3 DEF Undisturbed
<1>4. ASSUME ReadStatus PROVE After
  BY <1>1, <1>4, RefreshOK DEF ReadStatus, NoProof
<1>5. ASSUME AcknowledgeReboot PROVE After
  BY <1>1, <1>5, AcknowledgedOK DEF AcknowledgeReboot
<1>6. ASSUME (\E wish \in Motion : Submit(wish)) \/ SlotAges PROVE After
  <2>1. PICK s \in SlotTypes : link' = [link EXCEPT !.slot = s]
    <3>1. CASE \E wish \in Motion : Submit(wish)
      <4>1. PICK wish \in Motion : Submit(wish)
        BY <3>1
      <4> DEFINE cmd == IF wish = "DRIVE" /\ ~MotionReady(link, "DRIVE") THEN "STOP" ELSE wish
                 s == [cmd |-> cmd, old |-> FALSE,
                       conn |-> IF link.port_open THEN hist.conn ELSE 0]
      <4>2. link' = [link EXCEPT !.slot = s]
        BY <4>1 DEF Submit
      <4>3. cmd \in Motion
        BY DEF Motion
      <4>4. (IF link.port_open THEN hist.conn ELSE 0) \in Connections
        BY ConfigAssumption DEF Typed, WorldTyped, HistTypes, Connections
      <4> HIDE DEF cmd
      <4>5. s \in SlotTypes
        BY <4>3, <4>4 DEF SlotTypes
      <4> QED BY <4>2, <4>5
    <3>2. CASE SlotAges
      <4>1. link.slot \in [cmd: Motion, old: BOOLEAN, conn: Connections]
        BY <1>1, <3>2 DEF SlotAges, LinkTypes, SlotTypes
      <4>2. [link.slot EXCEPT !.old = TRUE] \in SlotTypes
        BY <4>1 DEF SlotTypes
      <4>3. link' = [link EXCEPT !.slot = [link.slot EXCEPT !.old = TRUE]]
        BY <3>2 DEF SlotAges
      <4> QED BY <4>2, <4>3
    <3> QED BY <1>6, <3>1, <3>2
  <2>2. Undisturbed(link, link')
    BY <1>1, <2>1, QuietOK
  <2> QED BY <2>2 DEF Undisturbed
<1>7. ASSUME TelemetryAges \/ PingFallsDue PROVE After
  <2>1. link' \in {[link EXCEPT !.telemetry = "stale"], [link EXCEPT !.ping_due = TRUE]}
    BY <1>7 DEF TelemetryAges, PingFallsDue
  <2>2. Undisturbed(link, link')
    BY <1>1, <2>1, QuietOK
  <2> QED BY <2>2 DEF Undisturbed
<1>8. After
  BY <1>2, <1>3, <1>4, <1>5, <1>6, <1>7 DEF Quiet
<1>9. toEsp' = toEsp /\ toPi' = toPi /\ ctl' = ctl
  BY DEF Quiet, OpenFails, Start, Stop, Joined, ReadStatus, AcknowledgeReboot, Submit,
         TelemetryAges, SlotAges, PingFallsDue, SameWorld
<1>10. faults' \in 0..MaxFaults
  <2>1. faults' = faults \/ Fault
    BY DEF Quiet, OpenFails, Start, Stop, Joined, ReadStatus, AcknowledgeReboot, Submit,
           TelemetryAges, SlotAges, PingFallsDue, SameWorld
  <2> QED BY <2>1, FaultCounted DEF Typed, WorldTyped
<1>11. /\ hist' \in HistTypes
       /\ hist'.conn = hist.conn /\ hist'.heard = hist.heard /\ hist'.proof = hist.proof
  <2>1. hist' = hist \/ \E c \in Motion : hist' = [hist EXCEPT !.unsent = c]
    <3>1. CASE \E wish \in Motion : Submit(wish)
      BY <3>1 DEF Submit, Motion
    <3>2. CASE ~\E wish \in Motion : Submit(wish)
      BY <3>2 DEF Quiet, OpenFails, Start, Stop, Joined, ReadStatus, AcknowledgeReboot,
                  TelemetryAges, SlotAges, PingFallsDue
    <3> QED BY <3>1, <3>2
  <2>2. hist \in HistTypes
    BY DEF Typed, WorldTyped
  <2> QED BY <2>1, <2>2 DEF HistTypes
<1>12. /\ IOTyped' /\ io'.lines = io.lines /\ io'.out = io.out
       /\ io'.pc # io.pc => io.pc \in {"idle", "exited"} /\ io'.pc \in {"idle", "closed"}
  <2>1. \/ io' = io
        \/ \E pc \in {"idle", "closed"} :
             io' = [io EXCEPT !.pc = pc] /\ io.pc \in {"idle", "exited"}
    BY DEF Quiet, OpenFails, Start, Stop, Joined, ReadStatus, AcknowledgeReboot, Submit,
           TelemetryAges, SlotAges, PingFallsDue, SameWorld
  <2>2. IOTyped
    BY DEF Typed
  <2> QED BY <2>1, <2>2 DEF IOTyped, Pcs
<1>13. PortAgrees' /\ LinesOnlyInLines'
  BY <1>8, <1>12 DEF Typed, PortAgrees, LinesOnlyInLines, OpenPcs
<1>14. WorldTyped'
  BY <1>9, <1>10, <1>11 DEF Typed, WorldTyped
<1> QED BY <1>8, <1>9, <1>11, <1>12, <1>13, <1>14 DEF Typed

LEMMA SentTyped ==
  ASSUME Typed, NEW line \in Lines, Send(line) PROVE toPi' \in Seq(Lines)
  BY AppendProperties DEF Typed, WorldTyped, Send

LEMMA EnvironmentTyped ==
  ASSUME Typed, Environment
  PROVE  Typed' /\ link' = link /\ io' = io /\ hist' = hist
<1> USE ConfigAssumption
<1>1. link' = link /\ io' = io /\ hist' = hist
  BY DEF Environment, Telemeter, Diagnose, Receive, RebootEsp, LoseFrame, LoseLine
<1>2. /\ ctl \in [boot: Boots, uptime: 0..MaxUptime, last_seq: 0..SeqMax]
      /\ toEsp \in Seq(Frames) /\ toPi \in Seq(Lines) /\ faults \in 0..MaxFaults
      /\ hist \in HistTypes
  BY DEF Typed, WorldTyped
<1>3. WorldTyped'
  <2>1. CASE Telemeter
    <3>1. PICK u \in {ctl.uptime, ctl.uptime + 1}, d \in DriveOutcomes :
            /\ u <= MaxUptime
            /\ ctl' = [ctl EXCEPT !.uptime = u]
            /\ Send([type |-> "TELEMETRY", boot |-> ctl.boot, uptime |-> u,
                     last_seq |-> ctl.last_seq, drive |-> d])
      BY <2>1 DEF Telemeter
    <3>2. u \in 0..MaxUptime /\ d \in BOOLEAN
      BY <1>2, <3>1
    <3>3. ctl' \in [boot: Boots, uptime: 0..MaxUptime, last_seq: 0..SeqMax]
      BY <1>2, <3>1, <3>2
    <3>4. [type |-> "TELEMETRY", boot |-> ctl.boot, uptime |-> u,
           last_seq |-> ctl.last_seq, drive |-> d] \in Lines
      BY <1>2, <3>2 DEF Lines
    <3>5. toPi' \in Seq(Lines)
      BY <3>1, <3>4, SentTyped
    <3> QED BY <1>1, <1>2, <2>1, <3>3, <3>5 DEF WorldTyped, Telemeter
  <2>2. CASE Diagnose
    <3>1. [type |-> "DIAG", boot |-> ctl.boot] \in Lines
      BY <1>2 DEF Lines
    <3>2. toPi' \in Seq(Lines)
      BY <2>2, <3>1, SentTyped DEF Diagnose
    <3> QED BY <1>1, <1>2, <2>2, <3>2 DEF WorldTyped, Diagnose
  <2>3. CASE Receive
    <3> DEFINE f == Head(toEsp)
               v == Verdict(f.seq)
               ack == [type |-> "ACK", boot |-> ctl.boot, seq |-> f.seq, result |-> v,
                       last_seq |-> ctl.last_seq, conn |-> f.conn]
               err == [type |-> "ERROR", boot |-> ctl.boot, seq |-> f.seq]
    <3>1. f \in Frames /\ toEsp' \in Seq(Frames)
      BY <1>2, <2>3, HeadTailProperties DEF Receive
    <3>2. v \in {"ACCEPTED", "DUPLICATE", "STALE"}
      BY DEF Verdict
    <3>3. /\ ctl' = [ctl EXCEPT !.last_seq = IF v = "ACCEPTED" THEN f.seq ELSE @]
          /\ \/ Send(ack) /\ UNCHANGED faults
             \/ Fault /\ Send(err)
      BY <2>3 DEF Receive
    <3> HIDE DEF f, v
    <3>4. f.seq \in 1..SeqMax /\ f.seq \in 0..SeqMax /\ f.conn \in Connections
      BY <3>1 DEF Frames, Connections
    <3>5. ctl' \in [boot: Boots, uptime: 0..MaxUptime, last_seq: 0..SeqMax]
      BY <1>2, <3>3, <3>4
    <3>6. ack \in Lines /\ err \in Lines
      <4>1. ack \in Lines
        BY <1>2, <3>2, <3>4 DEF Lines
      <4>2. err \in Lines
        BY <1>2, <3>4 DEF Lines
      <4> QED BY <4>1, <4>2
    <3> HIDE DEF ack, err
    <3>7. toPi' \in Seq(Lines)
      BY <3>3, <3>6, SentTyped
    <3>8. faults' \in 0..MaxFaults
      BY <1>2, <3>3, FaultCounted
    <3> QED BY <1>1, <1>2, <3>1, <3>5, <3>7, <3>8 DEF WorldTyped
  <2>4. CASE RebootEsp
    <3>1. ctl' \in [boot: Boots, uptime: 0..MaxUptime, last_seq: 0..SeqMax]
      BY <1>2, <2>4 DEF RebootEsp, Boots
    <3>2. [type |-> "READY", boot |-> ctl'.boot, uptime |-> 0] \in Lines
      BY <3>1 DEF Lines
    <3>3. toPi' \in Seq(Lines)
      BY <2>4, <3>2, SentTyped DEF RebootEsp
    <3>4. toEsp' \in Seq(Frames)
      <4>1. toEsp' = toEsp \/ toEsp' = <<>>
        BY <2>4 DEF RebootEsp
      <4>2. toEsp \in Seq(Frames) /\ <<>> \in Seq(Frames)
        BY <1>2
      <4> QED BY <4>1, <4>2
    <3> QED BY <1>1, <1>2, <2>4, <3>1, <3>3, <3>4 DEF WorldTyped, RebootEsp
  <2>5. CASE LoseFrame \/ LoseLine
    <3>1. toEsp' \in Seq(Frames) /\ toPi' \in Seq(Lines) /\ ctl' = ctl
      <4>1. CASE LoseFrame
        BY <1>2, <4>1, HeadTailProperties DEF LoseFrame
      <4>2. CASE LoseLine
        BY <1>2, <4>2, HeadTailProperties DEF LoseLine
      <4> QED BY <2>5, <4>1, <4>2
    <3>2. faults' \in 0..MaxFaults
      BY <2>5, FaultCounted DEF LoseFrame, LoseLine
    <3> QED BY <1>1, <1>2, <3>1, <3>2 DEF WorldTyped
  <2> QED BY <2>1, <2>2, <2>3, <2>4, <2>5 DEF Environment
<1> QED BY <1>1, <1>3 DEF Typed, IOTyped, PortAgrees, LinesOnlyInLines

LEMMA NextTyped == IInv /\ Typed /\ [Next]_vars => Typed'
<1> SUFFICES ASSUME IInv, Typed, [Next]_vars PROVE Typed'
  OBVIOUS
<1>1. CASE IOThread
  BY <1>1, OpenTyped, QuietTyped, ReadTyped, LostTyped, HandleLineTyped, TickTyped,
     TransmitTyped, WriteTyped, ShutdownTyped, ExitTyped DEF IOThread, Quiet
<1>2. CASE Agent \/ Time
  BY <1>2, QuietTyped DEF Agent, Time, Quiet
<1>3. CASE Environment
  BY <1>3, EnvironmentTyped
<1>4. CASE UNCHANGED vars
  BY <1>4 DEF vars, Typed, IOTyped, WorldTyped, PortAgrees, LinesOnlyInLines
<1> QED BY <1>1, <1>2, <1>3, <1>4 DEF Next

LEMMA AlwaysTyped == Spec => []Typed
  BY InitTyped, NextTyped, AlwaysIInv, PTL DEF Spec

LEMMA NumbersCounted ==
  ASSUME NEW p, PendingOK(p) PROVE Cardinality(PendingSeqs(p)) = Len(p)
<1> DEFINE n == Len(p)
           f == [i \in 1..n |-> p[i].seq]
           S == PendingSeqs(p)
<1>1. n \in Nat /\ DOMAIN p = 1..n
  BY LenProperties DEF PendingOK
<1>2. S = {p[i].seq : i \in 1..n}
  BY <1>1 DEF PendingSeqs
<1>3. \A i, j \in 1..n : p[i].seq = p[j].seq => i = j
  BY <1>1 DEF PendingOK, Distinct
<1> HIDE DEF n
<1>4. f \in Bijection(1..n, S)
  <2>1. f \in [1..n -> S]
    BY <1>2
  <2>2. \A a, b \in 1..n : f[a] = f[b] => a = b
    BY <1>3
  <2>3. \A t \in S : \E a \in 1..n : f[a] = t
    BY <1>2
  <2> HIDE DEF f, S
  <2>4. f \in Injection(1..n, S)
    BY <2>1, <2>2 DEF Injection, IsInjective
  <2>5. f \in Surjection(1..n, S)
    BY <2>1, <2>3, Zenon DEF Surjection
  <2> QED BY <2>4, <2>5, Zenon DEF Bijection
<1>5. ExistsBijection(1..n, S)
  BY <1>4 DEF ExistsBijection
<1>6. Cardinality(S) = n
  BY <1>1, <1>5, FS_CountingElements
<1> QED BY <1>6 DEF n

(***************************************************************************)
(* The types and the bounds the code means to keep (_pending under         *)
(* max_pending and under numbers of its own, a proof only while the port   *)
(* is open), whatever the sizes of the run.                                *)
(***************************************************************************)
THEOREM TypeCorrect == Spec => []TypeOK
<1>1. Typed => TypeOK
  <2> SUFFICES ASSUME Typed PROVE TypeOK
    OBVIOUS
  <2>1. link \in LinkTypes /\ PendingOK(link.pending)
    BY DEF Typed, LinkOK
  <2>2. /\ link.status \in Statuses
        /\ link.telemetry \in {"none", "fresh", "stale"}
        /\ link.last_uptime \in NoUptime..MaxUptime
        /\ {link.seq, link.ping_seq} \subseteq 0..SeqMax
        /\ link.timeouts \in 0..MaxTimeouts
    BY <2>1 DEF LinkTypes
  <2>3. link.slot \in [cmd: Motion \cup {"none"}, old: BOOLEAN, conn: 0..MaxConnections]
    <3>1. link.slot \in SlotTypes
      BY <2>1 DEF LinkTypes
    <3>2. CASE link.slot = NoSlot
      BY <3>2, ConfigAssumption DEF NoSlot
    <3>3. CASE link.slot \in [cmd: Motion, old: BOOLEAN, conn: Connections]
      BY <3>3 DEF Connections
    <3> QED BY <3>1, <3>2, <3>3 DEF SlotTypes
  <2>4. /\ Len(link.pending) <= MaxPending
        /\ Cardinality(PendingSeqs(link.pending)) = Len(link.pending)
        /\ \A i \in DOMAIN link.pending : link.pending[i] \in [seq: 1..SeqMax, cmd: Commands]
    BY <2>1, NumbersCounted, LenProperties, ElementOfSeq DEF PendingOK, Entries
  <2>5. /\ io.pc \in Pcs /\ io.out \in Seq(Frames) /\ io.lines \in Seq(Lines)
        /\ toEsp \in Seq(Frames) /\ toPi \in Seq(Lines)
    BY DEF Typed, IOTyped, WorldTyped
  <2>6. \A s \in {io.out, toEsp} : \A i \in DOMAIN s : s[i] \in Frames
    BY <2>5, LenProperties, ElementOfSeq
  <2>7. \A s \in {io.lines, toPi} : \A i \in DOMAIN s : s[i].type \in LineTypes
    <3>1. \A x \in Lines : x.type \in LineTypes
      BY DEF Lines, LineTypes
    <3> QED BY <2>5, <3>1, LenProperties, ElementOfSeq
  <2>8. /\ ctl \in [boot: 1..MaxBoots, uptime: 0..MaxUptime, last_seq: 0..SeqMax]
        /\ faults \in 0..MaxFaults
    BY DEF Typed, WorldTyped, Boots
  <2>9. link.port_open <=> io.pc \in {"poll", "read", "lines", "transmit", "write"}
    BY DEF Typed, PortAgrees, OpenPcs
  <2> QED BY <2>2, <2>3, <2>4, <2>5, <2>6, <2>7, <2>8, <2>9 DEF TypeOK, Pcs
<1> QED BY <1>1, AlwaysTyped, PTL

(***************************************************************************)
(* The boots of the lines under way.  READY is the first line of a boot:   *)
(* s follows boot b when each of its lines is READY or comes from the boot *)
(* of the line before it, the first one from b.                            *)
(***************************************************************************)
LastBoot(s, b) == IF s = <<>> THEN b ELSE Last(s).boot
Continues(line, b) == line.type = "READY" \/ line.boot = b
Follows(s, b) ==
  \A i \in DOMAIN s : Continues(s[i], IF i = 1 THEN b ELSE s[i - 1].boot)

LEMMA FollowsNothing == \A b : Follows(<<>>, b) /\ LastBoot(<<>>, b) = b
  BY DEF Follows, LastBoot

LEMMA FollowsTail ==
  ASSUME NEW s \in Seq(Lines), s # <<>>, NEW b, Follows(s, b)
  PROVE  /\ Continues(Head(s), b)
         /\ Follows(Tail(s), Head(s).boot)
         /\ LastBoot(Tail(s), Head(s).boot) = LastBoot(s, b)
<1> DEFINE t == Tail(s)
<1>1. /\ Len(s) \in Nat /\ Len(s) >= 1 /\ DOMAIN s = 1..Len(s) /\ Head(s) = s[1]
  BY LenProperties, EmptySeq
<1>2. /\ t \in Seq(Lines) /\ Len(t) = Len(s) - 1
      /\ \A i \in 1..Len(t) : t[i] = s[i + 1]
  BY HeadTailProperties
<1>3. DOMAIN t = 1..Len(s) - 1
  BY <1>2, LenProperties
<1> HIDE DEF t
<1>4. Continues(Head(s), b)
  BY <1>1 DEF Follows
<1>5. Follows(t, Head(s).boot)
  <2> SUFFICES ASSUME NEW i \in 1..Len(s) - 1
               PROVE  Continues(t[i], IF i = 1 THEN Head(s).boot ELSE t[i - 1].boot)
    BY <1>3 DEF Follows
  <2>1. Continues(s[i + 1], s[i].boot)
    <3>1. i + 1 \in DOMAIN s /\ i + 1 # 1 /\ (i + 1) - 1 = i
      BY <1>1
    <3> QED BY <3>1 DEF Follows
  <2>2. t[i] = s[i + 1]
    BY <1>1, <1>2
  <2>3. CASE i = 1
    BY <1>1, <2>1, <2>2, <2>3
  <2>4. CASE i # 1
    <3>1. i - 1 \in 1..Len(t) /\ (i - 1) + 1 = i
      BY <1>1, <1>2, <2>4
    <3>2. t[i - 1] = s[i]
      BY <1>2, <3>1
    <3> QED BY <2>1, <2>2, <2>4, <3>2
  <2> QED BY <2>3, <2>4
<1>6. LastBoot(t, Head(s).boot) = LastBoot(s, b)
  <2>1. CASE t = <<>>
    <3>1. Len(s) = 1
      <4>1. Len(t) = 0 /\ Len(t) = Len(s) - 1 /\ Len(s) \in Nat
        BY <1>1, <1>2, <2>1
      <4> QED BY <4>1
    <3> QED BY <1>1, <2>1, <3>1 DEF LastBoot, Last
  <2>2. CASE t # <<>>
    <3>1. Len(t) \in 1..Len(t)
      BY <1>2, <2>2, EmptySeq, LenProperties
    <3>2. t[Len(t)] = s[Len(s)]
      BY <1>1, <1>2, <3>1
    <3> QED BY <2>2, <3>2 DEF LastBoot, Last
  <2> QED BY <2>1, <2>2
<1> QED BY <1>4, <1>5, <1>6 DEF t

LEMMA FollowsAppend ==
  ASSUME NEW s \in Seq(Lines), NEW b, Follows(s, b),
         NEW x \in Lines, Continues(x, LastBoot(s, b))
  PROVE  Follows(Append(s, x), b) /\ LastBoot(Append(s, x), b) = x.boot
<1> DEFINE t == Append(s, x)
<1>1. /\ t \in Seq(Lines) /\ t # <<>> /\ Len(t) = Len(s) + 1
      /\ \A i \in 1..Len(s) : t[i] = s[i]
      /\ t[Len(s) + 1] = x
  BY AppendProperties
<1> HIDE DEF t
<1>2. Len(s) \in Nat /\ DOMAIN s = 1..Len(s) /\ DOMAIN t = 1..Len(s) + 1
  BY <1>1, LenProperties
<1>3. ASSUME NEW i \in 1..Len(s) + 1
      PROVE  Continues(t[i], IF i = 1 THEN b ELSE t[i - 1].boot)
  <2>1. CASE i \in 1..Len(s)
    <3>1. Continues(s[i], IF i = 1 THEN b ELSE s[i - 1].boot)
      BY <1>2, <2>1 DEF Follows
    <3>2. i # 1 => i - 1 \in 1..Len(s)
      BY <1>2, <2>1
    <3> QED BY <1>1, <2>1, <3>1, <3>2
  <2>2. CASE i = Len(s) + 1
    <3>1. CASE s = <<>>
      BY <1>1, <2>2, <3>1 DEF LastBoot
    <3>2. CASE s # <<>>
      <4>1. Len(s) \in 1..Len(s) /\ i # 1 /\ i - 1 = Len(s)
        BY <1>2, <2>2, <3>2, EmptySeq
      <4> QED BY <1>1, <2>2, <3>2, <4>1 DEF LastBoot, Last
    <3> QED BY <3>1, <3>2
  <2> QED BY <1>2, <2>1, <2>2
<1>4. LastBoot(t, b) = x.boot
  BY <1>1 DEF LastBoot, Last
<1> QED BY <1>2, <1>3, <1>4 DEF Follows, t

LEMMA FollowsSplit ==
  ASSUME NEW s \in Seq(Lines), NEW b, Follows(s, b), NEW n \in 0..Len(s)
  PROVE  LET u == SubSeq(s, 1, n)
             t == SubSeq(s, n + 1, Len(s))
         IN /\ Follows(u, b) /\ Follows(t, LastBoot(u, b))
            /\ LastBoot(t, LastBoot(u, b)) = LastBoot(s, b)
<1> DEFINE u == SubSeq(s, 1, n)
           t == SubSeq(s, n + 1, Len(s))
<1>1. /\ u \in Seq(Lines) /\ Len(u) = n /\ \A i \in 1..n : u[i] = s[i]
      /\ t \in Seq(Lines) /\ Len(t) = Len(s) - n
      /\ \A i \in 1..Len(s) - n : t[i] = s[n + i]
  BY ReadSplits
<1>2. Len(s) \in Nat /\ n \in Nat /\ n <= Len(s) /\ DOMAIN s = 1..Len(s)
  BY LenProperties
<1> HIDE DEF u, t
<1>3. DOMAIN u = 1..n /\ DOMAIN t = 1..Len(s) - n
  BY <1>1, LenProperties
<1>4. /\ n = 0 => u = <<>> /\ LastBoot(u, b) = b
      /\ n > 0 => u # <<>> /\ LastBoot(u, b) = s[n].boot
  <2>1. CASE n = 0
    BY <1>1, <2>1, EmptySeq DEF LastBoot
  <2>2. CASE n > 0
    <3>1. n \in 1..n /\ u # <<>>
      BY <1>1, <1>2, <2>2
    <3> QED BY <1>1, <2>2, <3>1 DEF LastBoot, Last
  <2> QED BY <1>2, <2>1, <2>2
<1>5. Follows(u, b)
  <2> SUFFICES ASSUME NEW i \in 1..n
               PROVE  Continues(u[i], IF i = 1 THEN b ELSE u[i - 1].boot)
    BY <1>3 DEF Follows
  <2>1. Continues(s[i], IF i = 1 THEN b ELSE s[i - 1].boot)
    <3>1. i \in DOMAIN s
      BY <1>2
    <3> QED BY <3>1 DEF Follows
  <2>2. i # 1 => i - 1 \in 1..n
    BY <1>2
  <2> QED BY <1>1, <2>1, <2>2
<1>6. Follows(t, LastBoot(u, b))
  <2> SUFFICES ASSUME NEW i \in 1..Len(s) - n
               PROVE  Continues(t[i], IF i = 1 THEN LastBoot(u, b) ELSE t[i - 1].boot)
    BY <1>3 DEF Follows
  <2>1. n + i \in DOMAIN s
    BY <1>2
  <2>2. Continues(s[n + i], IF n + i = 1 THEN b ELSE s[(n + i) - 1].boot)
    BY <2>1 DEF Follows
  <2>3. t[i] = s[n + i]
    BY <1>1
  <2>4. CASE i # 1
    <3>1. i - 1 \in 1..Len(s) - n /\ n + (i - 1) = (n + i) - 1 /\ n + i # 1
      BY <1>2, <2>4
    <3>2. t[i - 1] = s[(n + i) - 1]
      BY <1>1, <3>1
    <3> QED BY <2>2, <2>3, <2>4, <3>1, <3>2
  <2>5. CASE i = 1 /\ n = 0
    BY <1>4, <2>2, <2>3, <2>5
  <2>6. CASE i = 1 /\ n > 0
    <3>1. n + i # 1 /\ (n + i) - 1 = n
      BY <1>2, <2>6
    <3> QED BY <1>4, <2>2, <2>3, <2>6, <3>1
  <2> QED BY <1>2, <2>4, <2>5, <2>6
<1>7. LastBoot(t, LastBoot(u, b)) = LastBoot(s, b)
  <2>1. CASE n = Len(s)
    <3>1. t = <<>>
      BY <1>1, <1>2, <2>1, EmptySeq
    <3>2. LastBoot(u, b) = LastBoot(s, b)
      <4>1. n = 0 => s = <<>>
        BY <1>2, <2>1, EmptySeq
      <4>2. n > 0 => s # <<>>
        BY <1>2, <2>1
      <4> QED BY <1>2, <1>4, <2>1, <4>1, <4>2 DEF LastBoot, Last
    <3> QED BY <3>1, <3>2 DEF LastBoot
  <2>2. CASE n # Len(s)
    <3>1. Len(t) \in 1..Len(s) - n /\ n + Len(t) = Len(s) /\ t # <<>> /\ s # <<>>
      BY <1>1, <1>2, <2>2
    <3>2. t[Len(t)] = s[Len(s)]
      BY <1>1, <3>1
    <3> QED BY <3>1, <3>2 DEF LastBoot, Last
  <2> QED BY <2>1, <2>2
<1> QED BY <1>5, <1>6, <1>7 DEF u, t

(***************************************************************************)
(* The proof of the connection.  While the port is open, what is under way *)
(* belongs to this connection, and the lines carry on from the boot that   *)
(* is heard, if the connection is proven, to the boot the ESP32 is in.     *)
(***************************************************************************)
HereFrames == {f \in Frames : f.conn = hist.conn}
HereLines == {x \in Lines : x.type = "ACK" => x.conn = hist.conn}
OfThisConnection ==
  /\ toEsp \in Seq(HereFrames) /\ io.out \in Seq(HereFrames)
  /\ toPi \in Seq(HereLines) /\ io.lines \in Seq(HereLines)
Piped(b) ==
  /\ link.bidirectional => b = hist.heard
  /\ Follows(io.lines, b)
  /\ Follows(toPi, LastBoot(io.lines, b))
  /\ LastBoot(toPi, LastBoot(io.lines, b)) = ctl.boot
Connected ==
  /\ ~link.port_open /\ io.pc # "final" => toPi = <<>>
  /\ link.port_open => OfThisConnection /\ \E b : Piped(b)
  /\ ProvenByFreshPing

LEMMA OpenConnects == ASSUME IInv, Typed, Connected, Open PROVE Connected'
<1>1. Typed' /\ ~link'.bidirectional
  BY OpenTyped
<1>2. /\ toPi' = <<>> /\ toEsp' = <<>> /\ ctl' = ctl
      /\ io'.out = <<>> /\ io'.lines = <<>> /\ io'.pc = "read"
  <2>1. io.pc = "closed" /\ ~link.port_open /\ io.lines = <<>> /\ io.out = <<>>
    BY DEF Open, Typed, PortAgrees, OpenPcs, LinesOnlyInLines, IInv, IOInv
  <2>2. toPi = <<>> /\ toEsp = <<>>
    BY <2>1 DEF Connected, Open
  <2> QED BY <2>1, <2>2 DEF Open, SameWorld, Typed, IOTyped
<1>3. OfThisConnection'
  BY <1>2 DEF OfThisConnection
<1>4. Piped(ctl.boot)'
  BY <1>1, <1>2, FollowsNothing DEF Piped
<1>5. link'.port_open
  BY <1>1, <1>2 DEF Typed, PortAgrees, OpenPcs
<1> QED BY <1>1, <1>3, <1>4, <1>5 DEF Connected, ProvenByFreshPing

LEMMA LostConnects == ASSUME Typed, Lost PROVE Connected'
<1>1. Typed' /\ ~link'.bidirectional /\ io'.pc = "closed" /\ toPi' = <<>>
  BY LostTyped DEF Lost, Typed, IOTyped
<1>2. ~link'.port_open
  BY <1>1 DEF Typed, PortAgrees, OpenPcs
<1> QED BY <1>1, <1>2 DEF Connected, ProvenByFreshPing

LEMMA ReadConnects == ASSUME Typed, Connected, Read PROVE Connected'
<1>1. PICK n \in 0..Len(toPi) :
        /\ io' = [io EXCEPT !.pc = "lines", !.lines = SubSeq(toPi, 1, n)]
        /\ toPi' = SubSeq(toPi, n + 1, Len(toPi))
  BY DEF Read
<1>2. /\ link' = link /\ toEsp' = toEsp /\ hist' = hist /\ ctl' = ctl
      /\ io.pc \in OpenPcs /\ io.pc # "lines"
  BY DEF Read, AtLoopTop, SameWorld, OpenPcs
<1>3. io'.lines = SubSeq(toPi, 1, n) /\ io'.out = io.out
  BY <1>1 DEF Typed, IOTyped
<1>4. link.port_open /\ io.lines = <<>> /\ toPi \in Seq(Lines)
  BY <1>2 DEF Typed, PortAgrees, LinesOnlyInLines, WorldTyped
<1>5. OfThisConnection'
  <2>1. OfThisConnection
    BY <1>4 DEF Connected
  <2>2. toPi' \in Seq(HereLines) /\ io'.lines \in Seq(HereLines)
    BY <1>1, <1>3, <2>1, ReadSplits DEF OfThisConnection
  <2> QED BY <1>2, <1>3, <2>1, <2>2 DEF OfThisConnection, HereFrames, HereLines
<1>6. PICK b : Piped(b)
  BY <1>4 DEF Connected
<1>7. Follows(toPi, b) /\ LastBoot(toPi, b) = ctl.boot
  BY <1>4, <1>6, FollowsNothing DEF Piped
<1>8. Piped(b)'
  BY <1>1, <1>2, <1>3, <1>4, <1>6, <1>7, FollowsSplit DEF Piped
<1> QED BY <1>2, <1>4, <1>5, <1>8 DEF Connected, ProvenByFreshPing

\* The step that proves the connection, and the one that takes the proof away.
LEMMA HandleLineConnects == ASSUME Typed, Connected, HandleLine PROVE Connected'
<1> DEFINE line == Head(io.lines)
<1>1. Typed' /\ line \in Lines /\ Answered(link, line, link')
  BY HandleLineTyped
<1>2. /\ io.pc = "lines" /\ io.lines # <<>> /\ io.lines \in Seq(Lines)
      /\ toEsp' = toEsp /\ toPi' = toPi /\ ctl' = ctl
      /\ io'.lines = Tail(io.lines) /\ io'.out = io.out
  BY DEF HandleLine, SameWorld, Typed, IOTyped
<1>3. hist' = [hist EXCEPT !.heard = line.boot,
                 !.proof = IF Proves(link, line) THEN [conn |-> line.conn, boot |-> line.boot]
                           ELSE @]
  BY DEF HandleLine, Proves
<1>4. link.port_open /\ link'.port_open
  BY <1>1, <1>2 DEF Typed, PortAgrees, OpenPcs, Answered
<1>5. OfThisConnection /\ \E b : Piped(b)
  BY <1>4 DEF Connected
<1>6. PICK b : Piped(b)
  BY <1>5
<1>7. line \in HereLines /\ Tail(io.lines) \in Seq(HereLines)
  BY <1>2, <1>5, HeadTailProperties DEF OfThisConnection
<1>8. /\ Continues(line, b) /\ Follows(io'.lines, line.boot)
      /\ LastBoot(io'.lines, line.boot) = LastBoot(io.lines, b)
  BY <1>2, <1>6, FollowsTail DEF Piped
<1> HIDE DEF line
<1>9. /\ hist'.conn = hist.conn /\ hist'.heard = line.boot
      /\ hist'.proof = IF Proves(link, line) THEN [conn |-> line.conn, boot |-> line.boot]
                        ELSE hist.proof
  BY <1>3 DEF Typed, WorldTyped, HistTypes
<1>10. OfThisConnection'
  BY <1>2, <1>5, <1>7, <1>9 DEF OfThisConnection, HereFrames, HereLines
<1>11. \E c : Piped(c)'
  <2>1. PICK c : c = line.boot
    OBVIOUS
  <2>2. Piped(c)'
    BY <1>2, <1>6, <1>8, <1>9, <2>1 DEF Piped
  <2> QED BY <2>2
<1>12. ProvenByFreshPing'
  <2> SUFFICES ASSUME link'.bidirectional
               PROVE  /\ hist'.proof.conn = hist'.conn
                      /\ hist'.proof.boot = hist'.heard
                      /\ hist'.proof.boot \notin BadProto
                      /\ ~link'.reboot_latched
    BY DEF ProvenByFreshPing
  <2>1. ~link'.reboot_latched
    BY <1>1 DEF Typed, LinkOK, Sane
  <2>2. CASE Proves(link, line)
    <3>1. line.type = "ACK" /\ line.conn = hist.conn
      BY <1>7, <2>2 DEF Proves, HereLines
    <3>2. line.boot \notin BadProto
      BY <1>1, <2>2 DEF Answered
    <3> QED BY <1>9, <2>1, <2>2, <3>1, <3>2
  <2>3. CASE ~Proves(link, line)
    <3>1. link.bidirectional /\ line.type # "READY"
      BY <1>1, <2>3 DEF Answered
    <3>2. line.boot = hist.heard
      BY <1>6, <1>8, <3>1 DEF Piped, Continues
    <3> QED BY <1>9, <2>1, <2>3, <3>1, <3>2 DEF Connected, ProvenByFreshPing
  <2> QED BY <2>2, <2>3
<1> QED BY <1>4, <1>10, <1>11, <1>12 DEF Connected

LEMMA TickConnects == ASSUME Typed, Connected, Tick PROVE Connected'
<1>1. Typed' /\ link'.bidirectional = link.bidirectional /\ io.lines = <<>> /\ io'.lines = <<>>
  BY TickTyped
<1>2. /\ io.pc = "lines" /\ io'.pc \in {"transmit", "poll"} /\ io'.out = io.out
      /\ UNCHANGED <<toEsp, toPi, ctl, hist>>
  BY DEF Tick, TickExpiring, Typed, IOTyped
<1>3. link.port_open /\ link'.port_open
  BY <1>1, <1>2 DEF Typed, PortAgrees, OpenPcs
<1>4. OfThisConnection'
  BY <1>1, <1>2, <1>3 DEF Connected, OfThisConnection, HereFrames, HereLines
<1>5. PICK b : Piped(b)
  BY <1>3 DEF Connected
<1>6. Piped(b)'
  BY <1>1, <1>2, <1>5 DEF Piped
<1>7. ProvenByFreshPing'
  BY <1>1, <1>2 DEF Connected, ProvenByFreshPing, Typed, LinkOK, Sane
<1> QED BY <1>3, <1>4, <1>6, <1>7 DEF Connected

LEMMA TransmitConnects == ASSUME IInv, Typed, Connected, Transmit PROVE Connected'
<1>1. /\ Typed' /\ link'.bidirectional = link.bidirectional
      /\ \A i \in DOMAIN io'.out : io'.out[i].conn = hist.conn
  BY TransmitTyped
<1>2. /\ io.pc = "transmit" /\ io'.pc \in {"write", "poll"} /\ io'.lines = io.lines
      /\ UNCHANGED <<toEsp, toPi, ctl>>
      /\ hist'.conn = hist.conn /\ hist'.heard = hist.heard /\ hist'.proof = hist.proof
  BY DEF Transmit, SameWorld, Typed, IOTyped, WorldTyped, HistTypes
<1>3. link.port_open /\ link'.port_open
  BY <1>1, <1>2 DEF Typed, PortAgrees, OpenPcs
<1>4. io'.out \in Seq(HereFrames)
  <2>1. io'.out \in Seq(Frames)
    BY <1>1 DEF Typed, IOTyped
  <2>2. \A i \in 1..Len(io'.out) : io'.out[i] \in HereFrames
    BY <1>1, <2>1, LenProperties, ElementOfSeq DEF HereFrames
  <2> QED BY <2>1, <2>2, LenProperties
<1>5. OfThisConnection'
  BY <1>2, <1>3, <1>4 DEF Connected, OfThisConnection, HereFrames, HereLines
<1>6. PICK b : Piped(b)
  BY <1>3 DEF Connected
<1>7. Piped(b)'
  BY <1>1, <1>2, <1>6 DEF Piped
<1>8. ProvenByFreshPing'
  BY <1>1, <1>2 DEF Connected, ProvenByFreshPing, Typed, LinkOK, Sane
<1> QED BY <1>3, <1>5, <1>7, <1>8 DEF Connected

LEMMA WriteConnects == ASSUME IInv, Typed, Connected, Write PROVE Connected'
<1>1. /\ io.out # <<>> /\ io'.out = Tail(io.out) /\ io.lines = <<>> /\ io'.lines = <<>>
      /\ io.pc = "write" /\ UNCHANGED <<link, toPi, hist, ctl>>
      /\ toEsp' = Append(toEsp, Head(io.out))
  BY WriteTyped DEF Write, SameWorld
<1>2. link.port_open
  BY <1>1 DEF Typed, PortAgrees, OpenPcs
<1>3. OfThisConnection'
  <2>1. OfThisConnection
    BY <1>2 DEF Connected
  <2>2. Head(io.out) \in HereFrames /\ io'.out \in Seq(HereFrames)
    BY <1>1, <2>1, HeadTailProperties DEF OfThisConnection
  <2>3. toEsp' \in Seq(HereFrames)
    BY <1>1, <2>1, <2>2, AppendProperties DEF OfThisConnection
  <2> QED BY <1>1, <2>1, <2>2, <2>3 DEF OfThisConnection, HereFrames, HereLines
<1>4. PICK b : Piped(b)
  BY <1>2 DEF Connected
<1>5. Piped(b)'
  BY <1>1, <1>4 DEF Piped
<1> QED BY <1>1, <1>2, <1>3, <1>5 DEF Connected, ProvenByFreshPing

LEMMA ClosedConnects ==
  ASSUME Typed, Connected, Shutdown \/ ExitClosed \/ Close PROVE Connected'
<1>1. CASE Shutdown
  <2>1. Typed' /\ link'.bidirectional = link.bidirectional /\ io'.pc = "final"
    BY <1>1, ShutdownTyped
  <2>2. ~link'.port_open
    BY <2>1 DEF Typed, PortAgrees, OpenPcs
  <2>3. hist' = hist
    BY <1>1 DEF Shutdown
  <2> QED BY <2>1, <2>2, <2>3 DEF Connected, ProvenByFreshPing, Typed, LinkOK, Sane
<1>2. CASE ExitClosed \/ Close
  <2>1. link' = link /\ ~link.port_open /\ hist' = hist /\ toPi' = <<>>
    <3>1. ExitClosed => toPi = <<>>
      BY ExitTyped DEF Connected
    <3> QED BY <1>2, <3>1, ExitTyped
  <2> QED BY <2>1 DEF Connected, ProvenByFreshPing
<1> QED BY <1>1, <1>2

LEMMA QuietConnects == ASSUME Typed, Connected, Quiet PROVE Connected'
<1>1. /\ Typed' /\ toEsp' = toEsp /\ toPi' = toPi /\ ctl' = ctl
      /\ io'.lines = io.lines /\ io'.out = io.out
      /\ link'.port_open = link.port_open
      /\ link'.bidirectional => link.bidirectional
      /\ hist'.conn = hist.conn /\ hist'.heard = hist.heard /\ hist'.proof = hist.proof
      /\ io'.pc # io.pc => io.pc \in {"idle", "exited"} /\ io'.pc \in {"idle", "closed"}
  BY QuietTyped
<1>2. ~link'.port_open /\ io'.pc # "final" => toPi' = <<>>
  BY <1>1 DEF Connected
<1>3. link'.port_open => OfThisConnection'
  BY <1>1 DEF Connected, OfThisConnection, HereFrames, HereLines
<1>4. link'.port_open => \E b : Piped(b)'
  <2> SUFFICES ASSUME link'.port_open PROVE \E b : Piped(b)'
    OBVIOUS
  <2>1. PICK b : Piped(b)
    BY <1>1 DEF Connected
  <2> QED BY <1>1, <2>1 DEF Piped
<1>5. ProvenByFreshPing'
  BY <1>1 DEF Connected, ProvenByFreshPing, Typed, LinkOK, Sane
<1> QED BY <1>2, <1>3, <1>4, <1>5 DEF Connected

\* A line the ESP32 sends on carries on from the boot of the one before.
LEMMA SentConnects ==
  ASSUME Typed, Connected, NEW line \in HereLines, Send(line), line.boot = ctl'.boot,
         line.type = "READY" \/ ctl'.boot = ctl.boot,
         link' = link, io' = io, hist' = hist, toEsp' \in Seq(HereFrames) \/ ~link.port_open
  PROVE  Connected'
<1>1. CASE ~link.port_open
  BY <1>1 DEF Connected, Send, ProvenByFreshPing
<1>2. CASE link.port_open
  <2>1. toPi' = Append(toPi, line) /\ OfThisConnection /\ toPi \in Seq(Lines) /\ line \in Lines
    BY <1>2 DEF Send, Connected, Typed, WorldTyped, HereLines
  <2>2. toPi' \in Seq(HereLines)
    BY <2>1, AppendProperties DEF OfThisConnection
  <2>3. OfThisConnection'
    BY <1>2, <2>1, <2>2 DEF OfThisConnection, HereFrames, HereLines
  <2>4. PICK b : Piped(b)
    BY <1>2 DEF Connected
  <2>5. Continues(line, LastBoot(toPi, LastBoot(io.lines, b)))
    BY <2>4 DEF Piped, Continues
  <2>6. Piped(b)'
    BY <2>1, <2>4, <2>5, FollowsAppend DEF Piped
  <2> QED BY <1>2, <2>3, <2>6 DEF Connected, ProvenByFreshPing
<1> QED BY <1>1, <1>2

LEMMA EnvironmentConnects == ASSUME Typed, Connected, Environment PROVE Connected'
<1>1. Typed' /\ link' = link /\ io' = io /\ hist' = hist
  BY EnvironmentTyped
<1>2. link.port_open => OfThisConnection
  BY DEF Connected
<1>3. CASE Telemeter \/ Diagnose
  <2>1. PICK line : /\ Send(line) /\ line.boot = ctl.boot /\ line \in Lines
                    /\ line.type \in {"TELEMETRY", "DIAG"}
    <3>1. CASE Telemeter
      <4>1. PICK u \in {ctl.uptime, ctl.uptime + 1}, d \in DriveOutcomes :
              /\ u <= MaxUptime
              /\ Send([type |-> "TELEMETRY", boot |-> ctl.boot, uptime |-> u,
                       last_seq |-> ctl.last_seq, drive |-> d])
        BY <3>1 DEF Telemeter
      <4>2. /\ u \in 0..MaxUptime /\ d \in BOOLEAN
            /\ ctl \in [boot: Boots, uptime: 0..MaxUptime, last_seq: 0..SeqMax]
        BY <4>1, ConfigAssumption DEF Typed, WorldTyped
      <4>3. [type |-> "TELEMETRY", boot |-> ctl.boot, uptime |-> u,
             last_seq |-> ctl.last_seq, drive |-> d] \in Lines
        BY <4>2 DEF Lines
      <4> QED BY <4>1, <4>3
    <3>2. CASE Diagnose
      <4>1. [type |-> "DIAG", boot |-> ctl.boot] \in Lines
        BY DEF Lines, Typed, WorldTyped
      <4> QED BY <3>2, <4>1 DEF Diagnose
    <3> QED BY <1>3, <3>1, <3>2
  <2>2. line \in HereLines
    BY <2>1 DEF HereLines
  <2>3. ctl'.boot = ctl.boot /\ toEsp' = toEsp
    BY <1>3 DEF Telemeter, Diagnose, Typed, WorldTyped
  <2>4. toEsp' \in Seq(HereFrames) \/ ~link.port_open
    BY <1>2, <2>3 DEF OfThisConnection
  <2> QED BY <1>1, <2>1, <2>2, <2>3, <2>4, SentConnects
<1>4. CASE Receive
  <2> DEFINE f == Head(toEsp)
             v == Verdict(f.seq)
             ack == [type |-> "ACK", boot |-> ctl.boot, seq |-> f.seq, result |-> v,
                     last_seq |-> ctl.last_seq, conn |-> f.conn]
             err == [type |-> "ERROR", boot |-> ctl.boot, seq |-> f.seq]
  <2>1. toEsp # <<>> /\ toEsp \in Seq(Frames) /\ toEsp' = Tail(toEsp)
        /\ ctl \in [boot: Boots, uptime: 0..MaxUptime, last_seq: 0..SeqMax]
    BY <1>4 DEF Receive, Typed, WorldTyped
  <2>2. Send(ack) \/ Send(err)
    BY <1>4 DEF Receive
  <2>3. f \in Frames /\ v \in {"ACCEPTED", "DUPLICATE", "STALE"} /\ ctl'.boot = ctl.boot
    BY <1>4, <2>1, HeadTailProperties DEF Receive, Verdict
  <2>4. CASE ~link.port_open
    BY <1>1, <2>2, <2>4 DEF Connected, Send, ProvenByFreshPing
  <2>5. CASE link.port_open
    <3>1. f \in HereFrames /\ toEsp' \in Seq(HereFrames)
      BY <1>2, <2>1, <2>5, HeadTailProperties DEF OfThisConnection
    <3> HIDE DEF f, v
    <3>2. f.seq \in 1..SeqMax /\ f.conn = hist.conn /\ f.conn \in Connections
      BY <2>3, <3>1 DEF Frames, HereFrames, Connections
    <3>3. ack \in Lines /\ ack.conn = hist.conn
      BY <2>1, <2>3, <3>2 DEF Lines
    <3>4. err \in Lines /\ err.type = "ERROR"
      BY <2>1, <3>2 DEF Lines
    <3>5. ack \in HereLines /\ err \in HereLines /\ ack.boot = ctl.boot /\ err.boot = ctl.boot
      BY <3>3, <3>4 DEF HereLines
    <3> HIDE DEF ack, err
    <3> QED BY <1>1, <2>2, <2>3, <3>1, <3>5, SentConnects
  <2> QED BY <2>4, <2>5
<1>5. CASE RebootEsp
  <2> DEFINE line == [type |-> "READY", boot |-> ctl'.boot, uptime |-> 0]
  <2>1. line \in Lines
    BY <1>1 DEF Lines, Typed, WorldTyped
  <2>2. line \in HereLines /\ line.boot = ctl'.boot /\ line.type = "READY"
    BY <2>1 DEF HereLines
  <2>3. Send(line) /\ (toEsp' = toEsp \/ toEsp' = <<>>)
    BY <1>5 DEF RebootEsp
  <2>4. toEsp' \in Seq(HereFrames) \/ ~link.port_open
    <3>1. <<>> \in Seq(HereFrames)
      OBVIOUS
    <3> QED BY <1>2, <2>3, <3>1 DEF OfThisConnection
  <2> HIDE DEF line
  <2> QED BY <1>1, <2>2, <2>3, <2>4, SentConnects
<1>6. CASE LoseFrame
  <2>1. toPi' = toPi /\ ctl' = ctl /\ toEsp' = Tail(toEsp) /\ toEsp # <<>>
    BY <1>6 DEF LoseFrame
  <2>2. link.port_open => OfThisConnection'
    <3> SUFFICES ASSUME link.port_open PROVE OfThisConnection'
      OBVIOUS
    <3>1. toEsp' \in Seq(HereFrames)
      BY <1>2, <2>1, HeadTailProperties DEF OfThisConnection
    <3> QED BY <1>1, <1>2, <2>1, <3>1 DEF OfThisConnection, HereFrames, HereLines
  <2>3. \A b : Piped(b)' <=> Piped(b)
    BY <1>1, <2>1 DEF Piped
  <2> QED BY <1>1, <2>1, <2>2, <2>3 DEF Connected, ProvenByFreshPing
<1>7. CASE LoseLine
  <2>1. /\ toPi # <<>> /\ Head(toPi).type # "READY" /\ toPi' = Tail(toPi)
        /\ toEsp' = toEsp /\ ctl' = ctl /\ toPi \in Seq(Lines)
    BY <1>7 DEF LoseLine, Typed, WorldTyped
  <2>2. CASE ~link.port_open
    BY <1>1, <2>1, <2>2 DEF Connected, ProvenByFreshPing
  <2>3. CASE link.port_open
    <3>1. toPi' \in Seq(HereLines)
      BY <1>2, <2>1, <2>3, HeadTailProperties DEF OfThisConnection
    <3>2. OfThisConnection'
      BY <1>1, <1>2, <2>1, <2>3, <3>1 DEF OfThisConnection, HereFrames, HereLines
    <3>3. PICK b : Piped(b)
      BY <2>3 DEF Connected
    <3> DEFINE c == LastBoot(io.lines, b)
    <3>4. Follows(toPi, c) /\ LastBoot(toPi, c) = ctl.boot
      BY <3>3 DEF Piped
    <3> HIDE DEF c
    <3>5. Head(toPi).boot = c /\ Follows(toPi', c) /\ LastBoot(toPi', c) = ctl.boot
      BY <2>1, <3>4, FollowsTail DEF Continues
    <3>6. Piped(b)'
      BY <1>1, <2>1, <3>3, <3>5 DEF Piped, c
    <3> QED BY <1>1, <2>3, <3>2, <3>6 DEF Connected, ProvenByFreshPing
  <2> QED BY <2>2, <2>3
<1> QED BY <1>3, <1>4, <1>5, <1>6, <1>7 DEF Environment

LEMMA InitConnected == Init => Connected
  BY DEF Init, Connected, ProvenByFreshPing

LEMMA NextConnects == IInv /\ Typed /\ Connected /\ [Next]_vars => Connected'
<1> SUFFICES ASSUME IInv, Typed, Connected, [Next]_vars PROVE Connected'
  OBVIOUS
<1>1. CASE IOThread
  BY <1>1, OpenConnects, QuietConnects, ReadConnects, LostConnects, HandleLineConnects,
     TickConnects, TransmitConnects, WriteConnects, ClosedConnects DEF IOThread, Quiet
<1>2. CASE Agent \/ Time
  BY <1>2, QuietConnects DEF Agent, Time, Quiet
<1>3. CASE Environment
  BY <1>3, EnvironmentConnects
<1>4. CASE UNCHANGED vars
  <2>1. \A b : Piped(b)' <=> Piped(b)
    BY <1>4 DEF vars, Piped
  <2> QED BY <1>4, <2>1 DEF vars, Connected, OfThisConnection, HereFrames, HereLines,
                            ProvenByFreshPing
<1> QED BY <1>1, <1>2, <1>3, <1>4 DEF Next

(***************************************************************************)
(* The link counts as bidirectional only on a PING written on this         *)
(* connection and answered by the boot of the ESP32 that is heard now, one *)
(* that speaks the Pi's protocol, with no reboot waiting for the operator  *)
(* (_on_ack, _reboot, _reset_connection).                                  *)
(***************************************************************************)
THEOREM ProvenByFreshPingHolds == Spec => []ProvenByFreshPing
<1>1. Connected => ProvenByFreshPing
  BY DEF Connected
<1> QED BY <1>1, InitConnected, NextConnects, AlwaysIInv, AlwaysTyped, PTL DEF Spec

(***************************************************************************)
(* Numbers.  How far number s is ahead of number x, around the ring of     *)
(* 1..SeqMax; a link that has no number yet (0) is as far ahead as SeqMax. *)
(***************************************************************************)
Ahead(s, x) == IF s >= x THEN s - x ELSE (s - x) + SeqMax
Limit == SeqMax \div 2

LEMMA SmallRemainder ==
  ASSUME NEW a \in Int, 0 <= a, a < SeqMax PROVE a % SeqMax = a
<1>1. SeqMax \in Nat /\ SeqMax > 0
  BY ConfigAssumption
<1> QED BY <1>1

LEMMA NegativeRemainder ==
  ASSUME NEW a \in Int, a < 0, -SeqMax < a PROVE a % SeqMax = a + SeqMax
<1>1. SeqMax \in Nat /\ SeqMax > 0
  BY ConfigAssumption
<1> QED BY <1>1

LEMMA LimitIsHalf == Limit \in Nat /\ Limit < SeqMax
<1>1. SeqMax \in Nat /\ SeqMax > 0
  BY ConfigAssumption
<1> QED BY <1>1 DEF Limit

LEMMA StepsIsAhead ==
  ASSUME NEW s \in 1..SeqMax, NEW x \in 1..SeqMax PROVE Steps(s, x) = Ahead(s, x)
<1>1. SeqMax \in Nat /\ SeqMax > 0
  BY ConfigAssumption
<1>2. CASE s >= x
  BY <1>1, <1>2, SmallRemainder DEF Steps, Ahead
<1>3. CASE ~(s >= x)
  BY <1>1, <1>3, NegativeRemainder DEF Steps, Ahead
<1> QED BY <1>2, <1>3

LEMMA AheadRange ==
  ASSUME NEW s \in 0..SeqMax, NEW x \in 1..SeqMax
  PROVE  /\ Ahead(s, x) \in 0..SeqMax - 1
         /\ Ahead(s, x) = 0 /\ s # 0 => s = x
         /\ s = x => Ahead(s, x) = 0
  BY ConfigAssumption DEF Ahead

LEMMA AheadOfNext ==
  ASSUME NEW s \in 0..SeqMax, NEW x \in 1..SeqMax
  PROVE  /\ Ahead(s, x) # SeqMax - 1 => Ahead(NextSeq(s), x) = Ahead(s, x) + 1
         /\ Ahead(s, x) = SeqMax - 1 <=> NextSeq(s) = x
  BY ConfigAssumption DEF Ahead, NextSeq

LEMMA AheadInjective ==
  ASSUME NEW s \in 0..SeqMax, NEW x \in 1..SeqMax, NEW y \in 1..SeqMax,
         Ahead(s, x) = Ahead(s, y)
  PROVE  x = y
  BY ConfigAssumption DEF Ahead

LEMMA AheadBetween ==
  ASSUME NEW s \in 0..SeqMax, NEW x \in 1..SeqMax, NEW y \in 1..SeqMax,
         Ahead(y, x) <= Ahead(s, x)
  PROVE  Ahead(s, y) = Ahead(s, x) - Ahead(y, x)
  BY ConfigAssumption DEF Ahead

(***************************************************************************)
(* Seen from number x, sent by l: the commands sent after x are the last   *)
(* entries of what is pending, in their order, as far as they have not     *)
(* been given up; and those given up are counted.                          *)
(***************************************************************************)
Window(l, x) ==
  /\ Ahead(l.seq, x) < MaxTimeouts + MaxPending
  /\ l.timeouts < MaxTimeouts => Ahead(l.seq, x) <= l.timeouts + Len(l.pending)
  /\ \A i \in 1..Len(l.pending) :
       Len(l.pending) - i < Ahead(l.seq, x)
         => Ahead(l.seq, l.pending[i].seq) = Len(l.pending) - i

SameNumbers(l, r) == r.seq = l.seq /\ r.pending = l.pending /\ r.timeouts = l.timeouts

LEMMA WindowSame ==
  ASSUME NEW l, NEW r, SameNumbers(l, r), NEW x, Window(l, x) PROVE Window(r, x)
  BY DEF SameNumbers, Window

\* A later number sees less.
LEMMA WindowLater ==
  ASSUME NEW l, LinkOK(l), NEW x \in 1..SeqMax, NEW y \in 1..SeqMax,
         Window(l, x), Ahead(l.seq, y) <= Ahead(l.seq, x)
  PROVE  Window(l, y)
<1>1. /\ Len(l.pending) \in Nat /\ l.timeouts \in Nat /\ l.seq \in 0..SeqMax
      /\ MaxTimeouts \in Nat /\ MaxPending \in Nat
  BY LenProperties, ConfigAssumption DEF LinkOK, PendingOK, LinkTypes
<1>2. Ahead(l.seq, x) \in Int /\ Ahead(l.seq, y) \in Int
  BY <1>1, AheadRange
<1> DEFINE a == Ahead(l.seq, x)
           b == Ahead(l.seq, y)
           n == Len(l.pending)
<1>3. a < MaxTimeouts + MaxPending /\ (l.timeouts < MaxTimeouts => a <= l.timeouts + n)
      /\ \A i \in 1..n : n - i < a => Ahead(l.seq, l.pending[i].seq) = n - i
  BY DEF Window
<1>4. a \in Int /\ b \in Int /\ n \in Nat /\ b <= a
  BY <1>1, <1>2
<1> HIDE DEF a, b, n
<1>5. /\ b < MaxTimeouts + MaxPending /\ (l.timeouts < MaxTimeouts => b <= l.timeouts + n)
      /\ \A i \in 1..n : n - i < b => Ahead(l.seq, l.pending[i].seq) = n - i
  BY <1>1, <1>3, <1>4
<1> QED BY <1>5 DEF Window, a, b, n

\* Where an entry is taken out of what is pending.
LEMMA WithoutAt ==
  ASSUME NEW p, PendingOK(p), NEW q
  PROVE  /\ q \notin PendingSeqs(p) => Without(p, q) = p
         /\ q \in PendingSeqs(p) =>
              \E n \in 1..Len(p) :
                /\ p[n].seq = q
                /\ Len(Without(p, q)) = Len(p) - 1
                /\ \A i \in 1..Len(p) - 1 : Without(p, q)[i] = p[IF i < n THEN i ELSE i + 1]
<1> DEFINE places == {i \in DOMAIN p : p[i].seq = q}
           n == CHOOSE i \in places : TRUE
           t == SubSeq(p, 1, n - 1) \o SubSeq(p, n + 1, Len(p))
<1>0. p \in Seq(Entries) /\ Len(p) \in Nat /\ DOMAIN p = 1..Len(p)
  BY LenProperties DEF PendingOK
<1>1. CASE q \notin PendingSeqs(p)
  <2>1. places = {}
    BY <1>1 DEF PendingSeqs
  <2> QED BY <1>1, <2>1 DEF Without
<1>2. CASE q \in PendingSeqs(p)
  <2>1. places # {}
    BY <1>2 DEF PendingSeqs
  <2>2. Without(p, q) = t
    BY <2>1 DEF Without
  <2>3. n \in DOMAIN p /\ p[n].seq = q
    BY <2>1
  <2>4. /\ Len(t) = Len(p) - 1
        /\ \A i \in 1..Len(p) - 1 : t[i] = p[IF i < n THEN i ELSE i + 1]
    BY <1>0, <2>3, SplitProperties
  <2> HIDE DEF t, n
  <2> QED BY <1>0, <1>2, <2>2, <2>3, <2>4
<1> QED BY <1>1, <1>2

\* What becomes of the window when the entry of an older number is taken out.
LEMMA WindowWithout ==
  ASSUME NEW l, LinkOK(l), NEW x \in 1..SeqMax, NEW y \in 1..SeqMax,
         Window(l, x), Ahead(l.seq, x) <= Ahead(l.seq, y), y \in PendingSeqs(l.pending)
  PROVE  LET p == Without(l.pending, y)
         IN /\ Len(p) = Len(l.pending) - 1
            /\ Ahead(l.seq, x) <= Len(p)
            /\ \A i \in 1..Len(p) : Len(p) - i < Ahead(l.seq, x)
                 => Ahead(l.seq, p[i].seq) = Len(p) - i
<1> DEFINE p == Without(l.pending, y)
           a == Ahead(l.seq, x)
           b == Ahead(l.seq, y)
           n == Len(l.pending)
<1>1. n \in Nat /\ l.seq \in 0..SeqMax
  BY LenProperties DEF LinkOK, PendingOK, LinkTypes
<1>2. a \in Int /\ b \in Int /\ a <= b
  BY <1>1, AheadRange
<1>3. PICK k \in 1..n : /\ l.pending[k].seq = y /\ Len(p) = n - 1
                        /\ \A i \in 1..n - 1 : p[i] = l.pending[IF i < k THEN i ELSE i + 1]
  BY WithoutAt DEF LinkOK
<1>4. \A i \in 1..n : n - i < a => Ahead(l.seq, l.pending[i].seq) = n - i
  BY DEF Window
<1> HIDE DEF p, a, n
<1>5. a <= n - k
  <2>1. n - k < a => Ahead(l.seq, y) = n - k
    BY <1>3, <1>4
  <2>2. b = Ahead(l.seq, y)
    OBVIOUS
  <2> HIDE DEF b
  <2> QED BY <1>1, <1>2, <1>3, <2>1, <2>2
<1>6. Len(p) = n - 1 /\ a <= Len(p)
  BY <1>1, <1>2, <1>3, <1>5
<1>7. ASSUME NEW i \in 1..Len(p), Len(p) - i < a PROVE Ahead(l.seq, p[i].seq) = Len(p) - i
  <2>1. i \in 1..n - 1 /\ ~(i < k) /\ i + 1 \in 1..n /\ n - (i + 1) < a
    BY <1>1, <1>2, <1>3, <1>5, <1>6, <1>7
  <2>2. p[i] = l.pending[i + 1]
    BY <1>3, <2>1
  <2>3. Ahead(l.seq, l.pending[i + 1].seq) = n - (i + 1)
    BY <1>4, <2>1
  <2> QED BY <1>1, <1>6, <2>1, <2>2, <2>3
<1> QED BY <1>6, <1>7 DEF p, a, n

\* An answer to an older number, which was still pending: nothing later has been given up.
LEMMA WindowAnswered ==
  ASSUME NEW l, LinkOK(l), NEW r, NEW x \in 1..SeqMax, NEW y \in 1..SeqMax,
         Window(l, x), Ahead(l.seq, x) <= Ahead(l.seq, y), y \in PendingSeqs(l.pending),
         r.seq = l.seq, r.pending = Without(l.pending, y), r.timeouts = 0
  PROVE  Window(r, x)
<1>1. /\ Ahead(r.seq, x) <= Len(r.pending)
      /\ \A i \in 1..Len(r.pending) : Len(r.pending) - i < Ahead(r.seq, x)
           => Ahead(r.seq, r.pending[i].seq) = Len(r.pending) - i
      /\ Len(r.pending) = Len(l.pending) - 1
  BY WindowWithout
<1>2. Len(l.pending) \in Nat /\ l.seq \in 0..SeqMax
  BY LenProperties DEF LinkOK, PendingOK, LinkTypes
<1>3. Len(r.pending) \in Int /\ Ahead(r.seq, x) \in Int
  BY <1>1, <1>2, AheadRange
<1>4. Ahead(r.seq, x) <= r.timeouts + Len(r.pending)
  BY <1>1, <1>3
<1> QED BY <1>1, <1>4 DEF Window

\* The oldest entries are given up, and counted.
LEMMA WindowExpired ==
  ASSUME NEW l, LinkOK(l), NEW r, NEW n \in 0..Len(l.pending), NEW x \in 1..SeqMax,
         Window(l, x), r.seq = l.seq, r.pending = SubSeq(l.pending, n + 1, Len(l.pending)),
         r.timeouts = IF l.timeouts + n > MaxTimeouts THEN MaxTimeouts ELSE l.timeouts + n
  PROVE  Window(r, x)
<1> DEFINE a == Ahead(l.seq, x)
           m == Len(l.pending)
           p == r.pending
<1>1. /\ m \in Nat /\ n \in Nat /\ n <= m /\ l.seq \in 0..SeqMax /\ l.timeouts \in Nat
      /\ MaxTimeouts \in Nat /\ l.pending \in Seq(Entries)
  <2>1. l.pending \in Seq(Entries) /\ l.seq \in 0..SeqMax /\ l.timeouts \in 0..MaxTimeouts
    BY DEF LinkOK, LinkTypes
  <2>2. m \in Nat
    BY <2>1, LenProperties
  <2> QED BY <2>1, <2>2, ConfigAssumption
<1>2. a \in Int
  BY <1>1, AheadRange
<1>3. Len(p) = m - n /\ \A i \in 1..m - n : p[i] = l.pending[n + i]
  BY <1>1, ReadSplits
<1>4. /\ a < MaxTimeouts + MaxPending /\ (l.timeouts < MaxTimeouts => a <= l.timeouts + m)
      /\ \A i \in 1..m : m - i < a => Ahead(l.seq, l.pending[i].seq) = m - i
  BY DEF Window
<1>5. r.timeouts < MaxTimeouts => a <= r.timeouts + Len(p)
  <2> HIDE DEF a, m, p
  <2>1. CASE l.timeouts + n > MaxTimeouts
    BY <1>1, <2>1
  <2>2. CASE ~(l.timeouts + n > MaxTimeouts)
    <3>1. r.timeouts = l.timeouts + n
      BY <2>2
    <3> QED BY <1>1, <1>2, <1>3, <1>4, <3>1
  <2> QED BY <2>1, <2>2
<1>6. ASSUME NEW i \in 1..Len(p), Len(p) - i < a PROVE Ahead(l.seq, p[i].seq) = Len(p) - i
  <2> HIDE DEF a, m, p
  <2>1. i \in 1..m - n /\ n + i \in 1..m /\ m - (n + i) < a /\ m - (n + i) = Len(p) - i
    BY <1>1, <1>2, <1>3, <1>6
  <2> QED BY <1>3, <1>4, <2>1
<1> QED BY <1>4, <1>5, <1>6 DEF Window, a, m, p

\* The ring is wide enough for what may be unanswered at once, and for what the faults
\* and the boots may leave under way before the connection is proven.
WideRing ==
  /\ MaxTimeouts + MaxPending <= Limit
  /\ MaxFaults + MaxBoots < SeqMax

LEMMA WindowNarrow ==
  ASSUME WideRing, NEW l, LinkOK(l), NEW x \in 1..SeqMax, Window(l, x)
  PROVE  /\ Ahead(l.seq, x) \in 0..Limit - 1
         /\ Ahead(NextSeq(l.seq), x) = Ahead(l.seq, x) + 1
<1>1. l.seq \in 0..SeqMax /\ Limit \in Nat /\ Limit < SeqMax
      /\ MaxTimeouts \in Nat /\ MaxPending \in Nat /\ SeqMax \in Nat
  BY LimitIsHalf, ConfigAssumption DEF LinkOK, LinkTypes
<1>2. Ahead(l.seq, x) \in 0..SeqMax - 1
  BY <1>1, AheadRange
<1>3. Ahead(l.seq, x) < MaxTimeouts + MaxPending /\ MaxTimeouts + MaxPending <= Limit
  BY DEF Window, WideRing
<1>4. Ahead(l.seq, x) \in 0..Limit - 1 /\ Ahead(l.seq, x) # SeqMax - 1
  BY <1>1, <1>2, <1>3
<1> QED BY <1>1, <1>4, AheadOfNext

\* A command more is sent, and pending.
LEMMA WindowSent ==
  ASSUME WideRing, NEW l, LinkOK(l), NEW r, NEW c, NEW x \in 1..SeqMax, Window(l, x),
         l.timeouts < MaxTimeouts, Len(l.pending) < MaxPending,
         r.seq = NextSeq(l.seq), r.timeouts = l.timeouts,
         r.pending = Put(l.pending, NextSeq(l.seq), c), c \in Commands
  PROVE  Window(r, x)
<1> DEFINE q == NextSeq(l.seq)
           p == l.pending
           w == Without(p, q)
           e == [seq |-> q, cmd |-> c]
           a == Ahead(l.seq, x)
<1>1. /\ p \in Seq(Entries) /\ Distinct(p) /\ PendingOK(p) /\ l.seq \in 0..SeqMax
      /\ l.timeouts \in 0..MaxTimeouts /\ MaxTimeouts \in Nat /\ MaxPending \in Nat
  BY ConfigAssumption DEF LinkOK, PendingOK, LinkTypes
<1>2. q \in 1..SeqMax
  BY <1>1, NextSeqOK
<1>3. /\ w \in Seq(Entries) /\ Len(w) <= Len(p)
      /\ \A i \in DOMAIN w : w[i].seq # q
  BY <1>1, WithoutOK
<1>4. Len(w) \in Nat /\ DOMAIN w = 1..Len(w) /\ Len(p) \in Nat
      /\ \A i \in 1..Len(w) : w[i] \in Entries
  BY <1>1, <1>3, LenProperties, ElementOfSeq
<1>5. e \in Entries /\ e.seq = q
  BY <1>2 DEF Entries
<1>6. a \in 0..Limit - 1 /\ Ahead(q, x) = a + 1
  BY WindowNarrow
<1>7. r.pending = Append(w, e)
  BY DEF Put
<1> HIDE DEF w, e
<1>8. /\ Len(r.pending) = Len(w) + 1
      /\ \A i \in 1..Len(w) : r.pending[i] = w[i]
      /\ r.pending[Len(w) + 1] = e
  BY <1>3, <1>5, <1>7, AppendProperties
<1>9. /\ a <= l.timeouts + Len(w)
      /\ \A i \in 1..Len(w) : Len(w) - i < a => Ahead(l.seq, w[i].seq) = Len(w) - i
  <2>1. CASE q \notin PendingSeqs(p)
    <3>1. w = p
      BY <1>1, <2>1, WithoutAt DEF w
    <3> QED BY <3>1 DEF Window
  <2>2. CASE q \in PendingSeqs(p)
    <3>1. Ahead(l.seq, q) = SeqMax - 1
      BY <1>1, <1>2, AheadOfNext
    <3>2. a <= Ahead(l.seq, q)
      BY <1>1, <1>6, <3>1, AheadRange, ConfigAssumption
    <3>3. /\ a <= Len(w)
          /\ \A i \in 1..Len(w) : Len(w) - i < a => Ahead(l.seq, w[i].seq) = Len(w) - i
      BY <1>2, <2>2, <3>2, WindowWithout DEF w
    <3>4. a <= l.timeouts + Len(w)
      <4>1. a \in Int /\ l.timeouts \in Nat
        BY <1>1, <1>6
      <4> HIDE DEF a
      <4> QED BY <1>4, <3>3, <4>1
    <3> QED BY <3>3, <3>4
  <2> QED BY <2>1, <2>2
<1>10. \A i \in 1..Len(w) : Ahead(q, w[i].seq) = Ahead(l.seq, w[i].seq) + 1
  <2> TAKE i \in 1..Len(w)
  <2>1. w[i].seq \in 1..SeqMax /\ w[i].seq # q
    BY <1>3, <1>4 DEF Entries
  <2> QED BY <1>1, <2>1, AheadOfNext
<1>11. Ahead(q, q) = 0
  BY <1>2, AheadRange
<1>12. Ahead(q, x) < MaxTimeouts + MaxPending
  <2>1. a <= l.timeouts + Len(p) /\ Len(p) < MaxPending /\ l.timeouts < MaxTimeouts
    BY DEF Window
  <2>2. a \in Int /\ l.timeouts \in Int
    BY <1>1, <1>6
  <2> HIDE DEF a, p, q
  <2> QED BY <1>1, <1>4, <1>6, <2>1, <2>2
<1> HIDE DEF a, p, q
<1>13. r.timeouts < MaxTimeouts => Ahead(q, x) <= r.timeouts + Len(r.pending)
  <2>1. a \in Int /\ l.timeouts \in Int
    BY <1>1, <1>6
  <2> QED BY <1>4, <1>6, <1>8, <1>9, <2>1
<1>14. ASSUME NEW i \in 1..Len(r.pending), Len(r.pending) - i < Ahead(q, x)
       PROVE  Ahead(q, r.pending[i].seq) = Len(r.pending) - i
  <2>1. CASE i = Len(w) + 1
    BY <1>4, <1>5, <1>8, <1>11, <2>1
  <2>2. CASE i # Len(w) + 1
    <3>1. i \in 1..Len(w) /\ Len(w) - i < a
      BY <1>4, <1>6, <1>8, <1>14, <2>2
    <3>2. Ahead(q, w[i].seq) = Len(w) - i + 1
      BY <1>9, <1>10, <3>1
    <3> QED BY <1>4, <1>8, <3>1, <3>2
  <2> QED BY <2>1, <2>2
<1>15. r.seq = q
  BY DEF q
<1> QED BY <1>12, <1>13, <1>14, <1>15 DEF Window

(***************************************************************************)
(* Sequences of what is under way.  t is s with some elements left out.    *)
(***************************************************************************)
Thins(t, s) ==
  \E e \in [1..Len(t) -> 1..Len(s)] :
    /\ \A i, j \in 1..Len(t) : i < j => e[i] < e[j]
    /\ \A i \in 1..Len(t) : t[i] = s[e[i]]

LEMMA ThinsSame == ASSUME NEW S, NEW s \in Seq(S) PROVE Thins(s, s)
<1>1. Len(s) \in Nat
  BY LenProperties
<1> DEFINE e == [i \in 1..Len(s) |-> i]
<1>2. e \in [1..Len(s) -> 1..Len(s)]
  OBVIOUS
<1> QED BY <1>1, <1>2 DEF Thins

LEMMA ThinsTail == ASSUME NEW S, NEW s \in Seq(S), s # <<>> PROVE Thins(Tail(s), s)
<1>1. /\ Len(s) \in Nat /\ Len(Tail(s)) = Len(s) - 1
      /\ \A i \in 1..Len(s) - 1 : Tail(s)[i] = s[i + 1]
  BY LenProperties, HeadTailProperties
<1> DEFINE t == Tail(s)
           e == [i \in 1..Len(t) |-> i + 1]
<1> HIDE DEF t
<1>2. /\ Len(t) = Len(s) - 1 /\ \A i \in 1..Len(s) - 1 : t[i] = s[i + 1]
  BY <1>1 DEF t
<1>3. e \in [1..Len(t) -> 1..Len(s)]
  BY <1>1, <1>2
<1>4. /\ \A i, j \in 1..Len(t) : i < j => e[i] < e[j]
      /\ \A i \in 1..Len(t) : t[i] = s[e[i]]
  BY <1>1, <1>2
<1> HIDE DEF e
<1>5. Thins(t, s)
  BY <1>3, <1>4 DEF Thins
<1> QED BY <1>5 DEF t

\* What is left when the first or the second part is lost.
LEMMA ThinsParts ==
  ASSUME NEW S, NEW s \in Seq(S), NEW t \in Seq(S)
  PROVE  Thins(s, s \o t) /\ Thins(t, s \o t)
<1> DEFINE c == s \o t
<1>1. /\ Len(s) \in Nat /\ Len(t) \in Nat /\ Len(c) = Len(s) + Len(t)
      /\ \A i \in 1..Len(s) + Len(t) : c[i] = IF i <= Len(s) THEN s[i] ELSE t[i - Len(s)]
  BY LenProperties, ConcatProperties
<1> HIDE DEF c
<1>2. Thins(s, c)
  <2> DEFINE e == [i \in 1..Len(s) |-> i]
  <2>1. e \in [1..Len(s) -> 1..Len(c)]
    BY <1>1
  <2>2. \A i \in 1..Len(s) : s[i] = c[i]
    BY <1>1
  <2> QED BY <1>1, <2>1, <2>2 DEF Thins
<1>3. Thins(t, c)
  <2> DEFINE e == [i \in 1..Len(t) |-> i + Len(s)]
  <2>1. e \in [1..Len(t) -> 1..Len(c)]
    BY <1>1
  <2>2. \A i \in 1..Len(t) : t[i] = c[i + Len(s)]
    <3> TAKE i \in 1..Len(t)
    <3>1. i + Len(s) \in 1..Len(s) + Len(t) /\ ~(i + Len(s) <= Len(s)) /\ (i + Len(s)) - Len(s) = i
      BY <1>1
    <3> QED BY <1>1, <3>1
  <2>3. \A i, j \in 1..Len(t) : i < j => e[i] < e[j]
    BY <1>1
  <2>4. \A i \in 1..Len(t) : t[i] = c[e[i]]
    BY <2>2
  <2> HIDE DEF e
  <2> QED BY <2>1, <2>3, <2>4 DEF Thins
<1> QED BY <1>2, <1>3 DEF c

\* The first element of the second part is lost.
LEMMA ThinsMiddle ==
  ASSUME NEW S, NEW s \in Seq(S), NEW t \in Seq(S), t # <<>>
  PROVE  Thins(s \o Tail(t), s \o t)
<1> DEFINE u == Tail(t)
           c == s \o t
           d == s \o u
<1>1. /\ u \in Seq(S) /\ Len(u) = Len(t) - 1 /\ \A i \in 1..Len(u) : u[i] = t[i + 1]
  BY HeadTailProperties
<1>2. Len(s) \in Nat /\ Len(t) \in Nat
  BY LenProperties
<1> HIDE DEF u
<1>3. /\ Len(c) = Len(s) + Len(t)
      /\ \A i \in 1..Len(s) + Len(t) : c[i] = IF i <= Len(s) THEN s[i] ELSE t[i - Len(s)]
      /\ Len(d) = Len(s) + Len(u)
      /\ \A i \in 1..Len(s) + Len(u) : d[i] = IF i <= Len(s) THEN s[i] ELSE u[i - Len(s)]
  BY <1>1, ConcatProperties
<1> HIDE DEF c, d
<1> DEFINE e == [i \in 1..Len(d) |-> IF i <= Len(s) THEN i ELSE i + 1]
<1>4. e \in [1..Len(d) -> 1..Len(c)]
  BY <1>1, <1>2, <1>3
<1>5. \A i, j \in 1..Len(d) : i < j => e[i] < e[j]
  BY <1>1, <1>2, <1>3
<1>6. ASSUME NEW i \in 1..Len(d) PROVE d[i] = c[e[i]]
  <2>1. CASE i <= Len(s)
    BY <1>1, <1>2, <1>3, <2>1
  <2>2. CASE ~(i <= Len(s))
    <3>1. e[i] = i + 1 /\ i - Len(s) \in 1..Len(u) /\ i + 1 \in 1..Len(s) + Len(t)
          /\ ~(i + 1 <= Len(s)) /\ (i - Len(s)) + 1 = (i + 1) - Len(s)
      BY <1>1, <1>2, <1>3, <2>2
    <3> QED BY <1>1, <1>3, <2>2, <3>1
  <2> QED BY <2>1, <2>2
<1> HIDE DEF e
<1>7. Thins(d, c)
  BY <1>4, <1>5, <1>6 DEF Thins
<1> QED BY <1>7 DEF c, d, u

\* The same elements, differently divided.
LEMMA JoinedSame ==
  ASSUME NEW S, NEW s \in Seq(S), NEW t \in Seq(S)
  PROVE  /\ s \o <<>> = s /\ <<>> \o t = t
         /\ \A x \in S : s \o Append(t, x) = Append(s \o t, x)
         /\ s # <<>> => Tail(s) \o t = Tail(s \o t) /\ Head(s) = Head(s \o t) /\ s \o t # <<>>
         /\ t # <<>> => Append(s, Head(t)) \o Tail(t) = s \o t
         /\ \A n \in 0..Len(s) : SubSeq(s, 1, n) \o SubSeq(s, n + 1, Len(s)) = s
<1>1. Len(s) \in Nat /\ Len(t) \in Nat
  BY LenProperties
<1>2. s \o <<>> = s /\ <<>> \o t = t
  BY ConcatEmptySeq
<1> DEFINE c == s \o t
<1>3. /\ c \in Seq(S) /\ Len(c) = Len(s) + Len(t)
      /\ \A i \in 1..Len(s) + Len(t) : c[i] = IF i <= Len(s) THEN s[i] ELSE t[i - Len(s)]
  BY ConcatProperties
<1>4. ASSUME NEW x \in S PROVE s \o Append(t, x) = Append(c, x)
  <2> DEFINE u == Append(t, x)
             a == s \o u
             b == Append(c, x)
  <2>1. /\ u \in Seq(S) /\ Len(u) = Len(t) + 1 /\ \A i \in 1..Len(t) : u[i] = t[i]
        /\ u[Len(t) + 1] = x
    BY AppendProperties
  <2> HIDE DEF u, c
  <2>2. /\ a \in Seq(S) /\ Len(a) = Len(s) + Len(u)
        /\ \A i \in 1..Len(s) + Len(u) : a[i] = IF i <= Len(s) THEN s[i] ELSE u[i - Len(s)]
    BY <2>1, ConcatProperties
  <2>3. /\ b \in Seq(S) /\ Len(b) = Len(c) + 1 /\ \A i \in 1..Len(c) : b[i] = c[i]
        /\ b[Len(c) + 1] = x
    BY <1>3, AppendProperties
  <2> HIDE DEF a, b
  <2>4. ASSUME NEW i \in 1..Len(a) PROVE a[i] = b[i]
    <3>1. CASE i <= Len(s)
      <4>1. i \in 1..Len(s) + Len(u) /\ i \in 1..Len(c) /\ i \in 1..Len(s) + Len(t)
        BY <1>1, <1>3, <2>1, <2>2, <3>1
      <4> QED BY <1>3, <2>2, <2>3, <3>1, <4>1
    <3>2. CASE i > Len(s) /\ i <= Len(s) + Len(t)
      <4>1. /\ i \in 1..Len(s) + Len(u) /\ i \in 1..Len(c) /\ i \in 1..Len(s) + Len(t)
            /\ ~(i <= Len(s)) /\ i - Len(s) \in 1..Len(t)
        BY <1>1, <1>3, <2>1, <2>2, <3>2
      <4>2. a[i] = u[i - Len(s)] /\ u[i - Len(s)] = t[i - Len(s)]
        BY <2>1, <2>2, <4>1
      <4>3. b[i] = c[i] /\ c[i] = t[i - Len(s)]
        BY <1>3, <2>3, <4>1
      <4> QED BY <4>2, <4>3
    <3>3. CASE i = Len(s) + Len(t) + 1
      <4>1. /\ i \in 1..Len(s) + Len(u) /\ i = Len(c) + 1
            /\ ~(i <= Len(s)) /\ i - Len(s) = Len(t) + 1
        BY <1>1, <1>3, <2>1, <2>2, <3>3
      <4>2. a[i] = u[i - Len(s)] /\ u[i - Len(s)] = x
        BY <2>1, <2>2, <4>1
      <4>3. b[i] = x
        BY <2>3, <4>1
      <4> QED BY <4>2, <4>3
    <3>4. \/ i <= Len(s)
          \/ i > Len(s) /\ i <= Len(s) + Len(t)
          \/ i = Len(s) + Len(t) + 1
      <4>1. i \in Int /\ i <= Len(s) + Len(u) /\ Len(u) = Len(t) + 1
        BY <1>1, <2>1, <2>2
      <4> QED BY <1>1, <4>1
    <3> QED BY <3>1, <3>2, <3>3, <3>4
  <2>5. Len(a) = Len(b)
    BY <1>1, <1>3, <2>1, <2>2, <2>3
  <2>6. a = b
    BY <2>2, <2>3, <2>4, <2>5, SeqEqual
  <2> QED BY <2>6 DEF a, b, u
<1>5. ASSUME s # <<>> PROVE Tail(s) \o t = Tail(c) /\ Head(s) = Head(c) /\ c # <<>>
  <2> DEFINE u == Tail(s)
             a == u \o t
             b == Tail(c)
  <2>1. /\ u \in Seq(S) /\ Len(u) = Len(s) - 1 /\ \A i \in 1..Len(u) : u[i] = s[i + 1]
        /\ Len(s) >= 1 /\ Head(s) = s[1]
    BY <1>1, <1>5, HeadTailProperties, EmptySeq
  <2> HIDE DEF u, c
  <2>2. Len(c) >= 1 /\ c # <<>> /\ Head(c) = c[1] /\ c[1] = s[1]
    BY <1>1, <1>3, <2>1
  <2>3. /\ a \in Seq(S) /\ Len(a) = Len(u) + Len(t)
        /\ \A i \in 1..Len(u) + Len(t) : a[i] = IF i <= Len(u) THEN u[i] ELSE t[i - Len(u)]
    BY <2>1, ConcatProperties
  <2>4. /\ b \in Seq(S) /\ Len(b) = Len(c) - 1 /\ \A i \in 1..Len(b) : b[i] = c[i + 1]
    BY <1>3, <2>2, HeadTailProperties
  <2> HIDE DEF a, b
  <2>5. ASSUME NEW i \in 1..Len(a) PROVE a[i] = b[i]
    <3>1. i \in 1..Len(u) + Len(t) /\ i \in 1..Len(b) /\ i + 1 \in 1..Len(s) + Len(t)
      BY <1>1, <1>3, <2>1, <2>3, <2>4
    <3>2. (i <= Len(u) <=> i + 1 <= Len(s)) /\ i - Len(u) = (i + 1) - Len(s)
      BY <1>1, <2>1, <3>1
    <3>3. i <= Len(u) => u[i] = s[i + 1]
      BY <1>1, <2>1, <3>1
    <3> QED BY <1>3, <2>3, <2>4, <3>1, <3>2, <3>3
  <2>6. Len(a) = Len(b)
    BY <1>1, <1>3, <2>1, <2>3, <2>4
  <2>7. a = b
    BY <2>3, <2>4, <2>5, <2>6, SeqEqual
  <2> QED BY <2>1, <2>2, <2>7 DEF a, b, u
<1>6. ASSUME t # <<>> PROVE Append(s, Head(t)) \o Tail(t) = c
  <2> DEFINE u == Append(s, Head(t))
             v == Tail(t)
             a == u \o v
  <2>1. /\ v \in Seq(S) /\ Len(v) = Len(t) - 1 /\ \A i \in 1..Len(v) : v[i] = t[i + 1]
        /\ Len(t) >= 1 /\ Head(t) = t[1] /\ Head(t) \in S
    BY <1>1, <1>6, HeadTailProperties, EmptySeq
  <2>2. /\ u \in Seq(S) /\ Len(u) = Len(s) + 1 /\ \A i \in 1..Len(s) : u[i] = s[i]
        /\ u[Len(s) + 1] = t[1]
    BY <2>1, AppendProperties
  <2> HIDE DEF u, v, c
  <2>3. /\ a \in Seq(S) /\ Len(a) = Len(u) + Len(v)
        /\ \A i \in 1..Len(u) + Len(v) : a[i] = IF i <= Len(u) THEN u[i] ELSE v[i - Len(u)]
    BY <2>1, <2>2, ConcatProperties
  <2> HIDE DEF a
  <2>4. Len(a) = Len(c)
    BY <1>1, <1>3, <2>1, <2>2, <2>3
  <2>5. ASSUME NEW i \in 1..Len(a) PROVE a[i] = c[i]
    <3>1. i \in 1..Len(u) + Len(v) /\ i \in 1..Len(s) + Len(t)
      BY <1>1, <1>3, <2>1, <2>2, <2>3
    <3>2. CASE i <= Len(s)
      <4>1. i <= Len(u) /\ i \in 1..Len(s)
        BY <1>1, <2>2, <3>1, <3>2
      <4> QED BY <1>3, <2>2, <2>3, <3>1, <3>2, <4>1
    <3>3. CASE i = Len(s) + 1
      <4>1. i <= Len(u) /\ ~(i <= Len(s)) /\ i - Len(s) = 1
        BY <1>1, <2>2, <3>1, <3>3
      <4> QED BY <1>3, <2>2, <2>3, <3>1, <3>3, <4>1
    <3>4. CASE i > Len(s) + 1
      <4>1. /\ ~(i <= Len(u)) /\ ~(i <= Len(s)) /\ i - Len(u) \in 1..Len(v)
            /\ (i - Len(u)) + 1 = i - Len(s)
        BY <1>1, <2>1, <2>2, <3>1, <3>4
      <4>2. v[i - Len(u)] = t[i - Len(s)]
        BY <2>1, <4>1
      <4> QED BY <1>3, <2>3, <3>1, <4>1, <4>2
    <3> QED BY <1>1, <3>1, <3>2, <3>3, <3>4
  <2>6. a = c
    BY <1>3, <2>3, <2>4, <2>5, SeqEqual
  <2> QED BY <2>6 DEF a, u, v
<1>7. ASSUME NEW n \in 0..Len(s) PROVE SubSeq(s, 1, n) \o SubSeq(s, n + 1, Len(s)) = s
  <2> DEFINE u == SubSeq(s, 1, n)
             v == SubSeq(s, n + 1, Len(s))
             a == u \o v
  <2>1. /\ u \in Seq(S) /\ Len(u) = n /\ \A i \in 1..n : u[i] = s[i]
        /\ v \in Seq(S) /\ Len(v) = Len(s) - n
        /\ \A i \in 1..Len(s) - n : v[i] = s[n + i]
    BY ReadSplits
  <2> HIDE DEF u, v
  <2>2. /\ a \in Seq(S) /\ Len(a) = Len(u) + Len(v)
        /\ \A i \in 1..Len(u) + Len(v) : a[i] = IF i <= Len(u) THEN u[i] ELSE v[i - Len(u)]
    BY <2>1, ConcatProperties
  <2> HIDE DEF a
  <2>3. Len(a) = Len(s)
    BY <1>1, <2>1, <2>2
  <2>4. ASSUME NEW i \in 1..Len(a) PROVE a[i] = s[i]
    <3>1. i \in 1..Len(u) + Len(v)
      BY <2>2
    <3>2. CASE i <= n
      BY <1>1, <2>1, <2>2, <3>1, <3>2
    <3>3. CASE i > n
      <4>1. ~(i <= Len(u)) /\ i - Len(u) \in 1..Len(s) - n /\ n + (i - Len(u)) = i
        BY <1>1, <2>1, <3>1, <3>3
      <4> QED BY <2>1, <2>2, <3>1, <4>1
    <3> QED BY <1>1, <3>1, <3>2, <3>3
  <2>5. a = s
    BY <2>2, <2>3, <2>4, SeqEqual
  <2> QED BY <2>5 DEF a, u, v
<1> QED BY <1>2, <1>4, <1>5, <1>6, <1>7 DEF c

(***************************************************************************)
(* The invariant.  Flow: the lines on their way to the link's handlers;    *)
(* Queue: the frames on their way to the ESP32.                            *)
(***************************************************************************)
Flow == io.lines \o toPi
Queue == toEsp \o io.out
Answer(x) == x.type \in {"ACK", "ERROR"}

\* A motion command in answer to the ping of the boot the ESP32 is in.
Moves(f, c) == f.cmd \in Motion /\ f.boot = c.boot

\* Whatever moves comes after numbers that rise from the last one the ESP32 has accepted.
Lined(q, c) ==
  \A i \in 1..Len(q) : Moves(q[i], c) =>
    /\ c.last_seq # 0
    /\ \A j \in 1..i : Ahead(q[j].seq, c.last_seq) \in 1..Limit
    /\ \A j, k \in 1..i :
         j < k => Ahead(q[j].seq, c.last_seq) < Ahead(q[k].seq, c.last_seq)

\* Nothing comes from a boot that is still to be.
Past(f, q, b, c) ==
  /\ b <= c.boot
  /\ \A i \in 1..Len(q) : q[i].boot <= c.boot
  /\ \A i \in 1..Len(f) : f[i].boot <= c.boot

\* The answers on their way to a proven link: all good, in the order of their numbers,
\* none later than the last one accepted, and nothing it has given up in between.
GoodAnswers(l, f, c) ==
  \A i \in 1..Len(f) : Answer(f[i]) =>
    /\ Window(l, f[i].seq)
    /\ f[i].type = "ACK" => f[i].result = "ACCEPTED"
    /\ Ahead(l.seq, c.last_seq) <= Ahead(l.seq, f[i].seq)
    /\ \A j \in 1..Len(f) :
         i < j /\ Answer(f[j]) => Ahead(l.seq, f[j].seq) <= Ahead(l.seq, f[i].seq)

\* The commands on their way from a proven link: between the last one accepted and the
\* last one sent.
GoodCommands(l, q, c) ==
  \A i \in 1..Len(q) :
    Moves(q[i], c) /\ Ahead(q[i].seq, c.last_seq) <= Ahead(l.seq, c.last_seq)

InStep(l, f, q, c) ==
  /\ c.last_seq # 0 /\ Window(l, c.last_seq)
  /\ GoodAnswers(l, f, c) /\ GoodCommands(l, q, c)

\* Proven by the boot the ESP32 is in.
Proven(l, b, c) == l.port_open /\ l.bidirectional /\ b = c.boot

\* Not proven yet: what is under way are PINGs and their answers, and only the last one
\* may still be waited for.
Seqs(f, q) ==
  {f[i].seq : i \in {k \in 1..Len(f) : Answer(f[k])}} \cup {q[i].seq : i \in 1..Len(q)}
Within(l, f, q, n) == \A x \in Seqs(f, q) : Ahead(l.seq, x) <= n
Awaiting(l) ==
  /\ l.pending = IF l.ping_seq = 0 THEN <<>> ELSE <<[seq |-> l.ping_seq, cmd |-> "PING"]>>
  /\ l.ping_seq # 0 => l.ping_seq = l.seq
Spent(l, f, q, n) ==
  /\ Within(l, f, q, n)
  /\ l.ping_seq \notin Seqs(f, q) => Within(l, f, q, n - 1)
AnswerIsLast(l, f, q, c) ==
  \A i \in 1..Len(f) : Answer(f[i]) /\ f[i].seq = l.ping_seq =>
    /\ q = <<>>
    /\ \A j \in 1..Len(f) : i < j => ~Answer(f[j])
    /\ f[i].type = "ACK" /\ f[i].result = "ACCEPTED" /\ f[i].boot = c.boot
         => c.last_seq = l.ping_seq
PingIsLast(l, q) == \A i \in 1..Len(q) : q[i].seq = l.ping_seq => i = Len(q)
Pinging(l, f, q, c, n) ==
  /\ Awaiting(l)
  /\ ~l.seq_synced => Seqs(f, q) = {} /\ l.ping_seq = 0
  /\ Spent(l, f, q, n) /\ AnswerIsLast(l, f, q, c) /\ PingIsLast(l, q)
Fresh(l) == l.port_open /\ ~l.bidirectional /\ ~l.reboot_latched /\ ~l.proto_problem

Settled(l, out) ==
  /\ l.last_uptime = NoUptime => ~l.seq_synced
  /\ l.bidirectional => l.ping_seq = 0 /\ l.seq_synced
  /\ l.port_open /\ ~l.stopping /\ l.status = "UP" => l.timeouts < MaxTimeouts
  /\ l.reboot_latched => l.pending = <<>>
  /\ l.port_open /\ l.reboot_latched => out = <<>>

Numbered ==
  /\ Lined(Queue, ctl) /\ Past(Flow, Queue, hist.proof.boot, ctl)
  /\ Proven(link, hist.proof.boot, ctl) => InStep(link, Flow, Queue, ctl)
  /\ Fresh(link) => Pinging(link, Flow, Queue, ctl, faults + ctl.boot)
  /\ Settled(link, io.out)

LEMMA UnderWayTyped ==
  ASSUME Typed
  PROVE  /\ Flow \in Seq(Lines) /\ Len(Flow) \in Nat /\ \A i \in 1..Len(Flow) : Flow[i] \in Lines
         /\ Queue \in Seq(Frames) /\ Len(Queue) \in Nat
         /\ \A i \in 1..Len(Queue) : Queue[i] \in Frames
<1>1. Flow \in Seq(Lines)
  BY ConcatProperties DEF Typed, IOTyped, WorldTyped, Flow
<1>2. Queue \in Seq(Frames)
  BY ConcatProperties DEF Typed, IOTyped, WorldTyped, Queue
<1> HIDE DEF Flow, Queue
<1> QED BY <1>1, <1>2, LenProperties, ElementOfSeq

LEMMA SeqOfLines ==
  /\ \A x \in Lines : Answer(x) => x.seq \in 1..SeqMax
  /\ \A x \in Lines : x.boot \in Boots
  /\ \A x \in Frames : x.seq \in 1..SeqMax /\ x.boot \in 0..MaxBoots
  BY DEF Lines, Frames, Answer

\* What the claims say of a sequence they say of it with elements left out.
LEMMA LinedThins ==
  ASSUME NEW q, NEW t, NEW c, Len(q) \in Nat, Len(t) \in Nat, Lined(q, c), Thins(t, q)
  PROVE  Lined(t, c)
<1>1. PICK e \in [1..Len(t) -> 1..Len(q)] :
        /\ \A i, j \in 1..Len(t) : i < j => e[i] < e[j]
        /\ \A i \in 1..Len(t) : t[i] = q[e[i]]
  BY DEF Thins
<1> SUFFICES ASSUME NEW i \in 1..Len(t), Moves(t[i], c)
             PROVE  /\ c.last_seq # 0
                    /\ \A j \in 1..i : Ahead(t[j].seq, c.last_seq) \in 1..Limit
                    /\ \A j, k \in 1..i :
                         j < k => Ahead(t[j].seq, c.last_seq) < Ahead(t[k].seq, c.last_seq)
  BY DEF Lined
<1>2. e[i] \in 1..Len(q) /\ Moves(q[e[i]], c)
  BY <1>1
<1>3. \A j \in 1..i : e[j] \in 1..e[i] /\ t[j] = q[e[j]]
  <2> TAKE j \in 1..i
  <2>1. j \in 1..Len(t) /\ (j < i \/ j = i)
    OBVIOUS
  <2>2. e[j] \in 1..Len(q) /\ t[j] = q[e[j]] /\ (j < i => e[j] < e[i])
    BY <1>1, <2>1
  <2> QED BY <1>2, <2>1, <2>2
<1>4. \A j, k \in 1..i : j < k => e[j] < e[k]
  BY <1>1
<1> QED BY <1>2, <1>3, <1>4 DEF Lined

LEMMA PastThins ==
  ASSUME NEW f, NEW q, NEW g, NEW t, NEW b, NEW c, Past(f, q, b, c), Thins(g, f), Thins(t, q)
  PROVE  Past(g, t, b, c)
  BY DEF Past, Thins

LEMMA InStepThins ==
  ASSUME NEW l, NEW f, NEW q, NEW g, NEW t, NEW c, InStep(l, f, q, c),
         Thins(g, f), Thins(t, q)
  PROVE  InStep(l, g, t, c)
<1>1. GoodCommands(l, t, c)
  BY DEF InStep, GoodCommands, Thins
<1>2. GoodAnswers(l, g, c)
  <2>1. PICK e \in [1..Len(g) -> 1..Len(f)] :
          /\ \A i, j \in 1..Len(g) : i < j => e[i] < e[j]
          /\ \A i \in 1..Len(g) : g[i] = f[e[i]]
    BY DEF Thins
  <2> SUFFICES ASSUME NEW i \in 1..Len(g), Answer(g[i])
               PROVE  /\ Window(l, g[i].seq)
                      /\ g[i].type = "ACK" => g[i].result = "ACCEPTED"
                      /\ Ahead(l.seq, c.last_seq) <= Ahead(l.seq, g[i].seq)
                      /\ \A j \in 1..Len(g) : i < j /\ Answer(g[j])
                           => Ahead(l.seq, g[j].seq) <= Ahead(l.seq, g[i].seq)
    BY DEF GoodAnswers
  <2>2. e[i] \in 1..Len(f) /\ Answer(f[e[i]]) /\ g[i] = f[e[i]]
    BY <2>1
  <2>3. \A j \in 1..Len(g) : i < j => e[j] \in 1..Len(f) /\ e[i] < e[j] /\ g[j] = f[e[j]]
    BY <2>1
  <2> QED BY <2>2, <2>3 DEF InStep, GoodAnswers
<1> QED BY <1>1, <1>2 DEF InStep

LEMMA SeqsThin ==
  ASSUME NEW f, NEW q, NEW g, NEW t, Thins(g, f), Thins(t, q)
  PROVE  Seqs(g, t) \subseteq Seqs(f, q)
<1>1. \A i \in 1..Len(g) : \E j \in 1..Len(f) : g[i] = f[j]
  BY DEF Thins
<1>2. \A i \in 1..Len(t) : \E j \in 1..Len(q) : t[i] = q[j]
  BY DEF Thins
<1>3. \A i \in 1..Len(g) : Answer(g[i]) => g[i].seq \in Seqs(f, q)
  BY <1>1 DEF Seqs
<1>4. \A i \in 1..Len(t) : t[i].seq \in Seqs(f, q)
  BY <1>2 DEF Seqs
<1> QED BY <1>3, <1>4 DEF Seqs

LEMMA PingingThins ==
  ASSUME NEW l, NEW f, NEW q, NEW g, NEW t, NEW c, Len(q) \in Nat, Len(t) \in Nat,
         AnswerIsLast(l, f, q, c), PingIsLast(l, q), Thins(g, f), Thins(t, q), q = <<>> => t = <<>>
  PROVE  AnswerIsLast(l, g, t, c) /\ PingIsLast(l, t)
<1>1. AnswerIsLast(l, g, t, c)
  <2>1. PICK e \in [1..Len(g) -> 1..Len(f)] :
          /\ \A i, j \in 1..Len(g) : i < j => e[i] < e[j]
          /\ \A i \in 1..Len(g) : g[i] = f[e[i]]
    BY DEF Thins
  <2> QED BY <2>1 DEF AnswerIsLast
<1>2. PingIsLast(l, t)
  <2>1. PICK e \in [1..Len(t) -> 1..Len(q)] :
          /\ \A i, j \in 1..Len(t) : i < j => e[i] < e[j]
          /\ \A i \in 1..Len(t) : t[i] = q[e[i]]
    BY DEF Thins
  <2> SUFFICES ASSUME NEW i \in 1..Len(t), t[i].seq = l.ping_seq, i # Len(t) PROVE FALSE
    BY DEF PingIsLast
  <2>2. e[i] = Len(q)
    BY <2>1 DEF PingIsLast
  <2>3. i + 1 \in 1..Len(t) /\ i < i + 1
    OBVIOUS
  <2>4. e[i] < e[i + 1] /\ e[i + 1] \in 1..Len(q)
    BY <2>1, <2>3
  <2> QED BY <2>2, <2>4
<1> QED BY <1>1, <1>2

(***************************************************************************)
(* What the claims speak of.                                               *)
(***************************************************************************)
SameClaims(l, r) ==
  SameNumbers(l, r) /\ r.ping_seq = l.ping_seq /\ r.seq_synced = l.seq_synced
SameEsp(c, d) == d.boot = c.boot /\ d.last_seq = c.last_seq

LEMMA EspSame ==
  ASSUME NEW f, NEW q, NEW b, NEW c, NEW d, SameEsp(c, d), Lined(q, c), Past(f, q, b, c)
  PROVE  Lined(q, d) /\ Past(f, q, b, d)
  BY DEF SameEsp, Lined, Past, Moves

LEMMA InStepSame ==
  ASSUME NEW l, NEW r, NEW f, NEW q, NEW c, NEW d, SameNumbers(l, r), SameEsp(c, d),
         InStep(l, f, q, c)
  PROVE  InStep(r, f, q, d)
<1>1. r.seq = l.seq /\ d.boot = c.boot /\ d.last_seq = c.last_seq
  BY DEF SameNumbers, SameEsp
<1>2. \A x : Window(l, x) => Window(r, x)
  BY WindowSame
<1>3. GoodCommands(r, q, d)
  BY <1>1 DEF InStep, GoodCommands, Moves
<1>4. GoodAnswers(r, f, d)
  BY <1>1, <1>2 DEF InStep, GoodAnswers
<1> QED BY <1>1, <1>2, <1>3, <1>4 DEF InStep

LEMMA PingingSame ==
  ASSUME NEW l, NEW r, NEW f, NEW q, NEW c, NEW d, NEW n, SameClaims(l, r), SameEsp(c, d),
         Pinging(l, f, q, c, n)
  PROVE  Pinging(r, f, q, d, n)
<1>1. /\ r.seq = l.seq /\ r.pending = l.pending /\ r.ping_seq = l.ping_seq
      /\ r.seq_synced = l.seq_synced /\ d.boot = c.boot /\ d.last_seq = c.last_seq
  BY DEF SameClaims, SameNumbers, SameEsp
<1>2. Awaiting(r) /\ Spent(r, f, q, n) /\ PingIsLast(r, q)
  BY <1>1 DEF Pinging, Awaiting, Spent, Within, PingIsLast
<1>3. AnswerIsLast(r, f, q, d)
  BY <1>1 DEF Pinging, AnswerIsLast
<1> QED BY <1>1, <1>2, <1>3 DEF Pinging

LEMMA SeqsTyped ==
  ASSUME NEW f \in Seq(Lines), NEW q \in Seq(Frames) PROVE Seqs(f, q) \subseteq 1..SeqMax
<1>1. (\A i \in 1..Len(f) : f[i] \in Lines) /\ \A i \in 1..Len(q) : q[i] \in Frames
  BY ElementOfSeq
<1> QED BY <1>1, SeqOfLines DEF Seqs

LEMMA SpentThins ==
  ASSUME NEW l \in LinkTypes, NEW W, NEW f \in Seq(Lines), NEW q \in Seq(Frames),
         NEW g \in Seq(Lines), NEW t \in Seq(Frames),
         Seqs(g, t) \subseteq Seqs(f, q), NEW n \in Int, NEW m \in Int, Spent(l, f, q, n),
         \/ n <= m /\ (l.ping_seq \in Seqs(f, q) => l.ping_seq \in Seqs(g, t))
         \/ n + 1 <= m
  PROVE  Spent(l, g, t, m)
<1>1. \A x \in Seqs(f, q) : Ahead(l.seq, x) \in Int
  BY SeqsTyped, AheadRange DEF LinkTypes
<1>2. Within(l, f, q, n)
  BY DEF Spent
<1>3. Within(l, g, t, m)
  BY <1>1, <1>2 DEF Within
<1>4. CASE n + 1 <= m
  <2>1. Within(l, g, t, m - 1)
    BY <1>1, <1>2, <1>4 DEF Within
  <2> QED BY <1>3, <2>1 DEF Spent
<1>5. CASE n <= m /\ (l.ping_seq \in Seqs(f, q) => l.ping_seq \in Seqs(g, t))
  <2>1. l.ping_seq \notin Seqs(g, t) => Within(l, g, t, m - 1)
    BY <1>1, <1>5 DEF Spent, Within
  <2> QED BY <1>3, <2>1 DEF Spent
<1> QED BY <1>4, <1>5

LEMMA PingingLeft ==
  ASSUME NEW l \in LinkTypes, NEW f \in Seq(Lines), NEW q \in Seq(Frames),
         NEW g \in Seq(Lines), NEW t \in Seq(Frames), NEW c, NEW n \in Int, NEW m \in Int,
         Pinging(l, f, q, c, n), Thins(g, f), Thins(t, q), q = <<>> => t = <<>>,
         \/ n <= m /\ (l.ping_seq \in Seqs(f, q) => l.ping_seq \in Seqs(g, t))
         \/ n + 1 <= m
  PROVE  Pinging(l, g, t, c, m)
<1>1. Seqs(g, t) \subseteq Seqs(f, q)
  BY SeqsThin
<1>2. Len(q) \in Nat /\ Len(t) \in Nat
  BY LenProperties
<1>3. Spent(l, g, t, m)
  BY <1>1, SpentThins DEF Pinging
<1>4. AnswerIsLast(l, g, t, c) /\ PingIsLast(l, t)
  BY <1>2, PingingThins DEF Pinging
<1> QED BY <1>1, <1>3, <1>4 DEF Pinging

\* A line more on its way that answers nothing.
LEMMA SaidBesides ==
  ASSUME NEW f \in Seq(Lines), NEW x \in Lines, ~Answer(x), NEW q, NEW l, NEW c, NEW n
  PROVE  LET g == Append(f, x)
         IN /\ \A b : Past(f, q, b, c) /\ x.boot <= c.boot => Past(g, q, b, c)
            /\ InStep(l, f, q, c) => InStep(l, g, q, c)
            /\ Pinging(l, f, q, c, n) => Pinging(l, g, q, c, n)
<1> DEFINE g == Append(f, x)
<1>1. /\ Len(f) \in Nat /\ Len(g) = Len(f) + 1
      /\ \A i \in 1..Len(f) : g[i] = f[i]
      /\ g[Len(f) + 1] = x
  BY LenProperties, AppendProperties
<1> HIDE DEF g
<1>2. \A i \in 1..Len(g) : (i \in 1..Len(f) /\ g[i] = f[i]) \/ g[i] = x
  BY <1>1
<1>3. \A i \in 1..Len(g) : Answer(g[i]) => i \in 1..Len(f) /\ g[i] = f[i]
  BY <1>2
<1>4. ASSUME NEW b, Past(f, q, b, c), x.boot <= c.boot PROVE Past(g, q, b, c)
  BY <1>2, <1>4 DEF Past
<1>5. ASSUME InStep(l, f, q, c) PROVE InStep(l, g, q, c)
  <2>1. GoodAnswers(l, g, c)
    BY <1>3, <1>5 DEF InStep, GoodAnswers
  <2> QED BY <1>5, <2>1 DEF InStep
<1>6. Seqs(g, q) = Seqs(f, q)
  <2>1. {g[i].seq : i \in {k \in 1..Len(g) : Answer(g[k])}}
          = {f[i].seq : i \in {k \in 1..Len(f) : Answer(f[k])}}
    BY <1>1, <1>3
  <2> QED BY <2>1 DEF Seqs
<1>7. ASSUME Pinging(l, f, q, c, n) PROVE Pinging(l, g, q, c, n)
  <2>1. AnswerIsLast(l, g, q, c)
    BY <1>3, <1>7 DEF Pinging, AnswerIsLast
  <2>2. Spent(l, g, q, n)
    BY <1>6, <1>7 DEF Pinging, Spent, Within
  <2> QED BY <1>6, <1>7, <2>1, <2>2 DEF Pinging
<1> QED BY <1>4, <1>5, <1>7 DEF g

(***************************************************************************)
(* The ESP32 takes a command and answers.                                  *)
(***************************************************************************)
Accepts(c, x) == c.last_seq = 0 \/ Ahead(x, c.last_seq) \in 1..Limit
Takes(c, x, d) ==
  d.boot = c.boot /\ d.last_seq = IF Accepts(c, x) THEN x ELSE c.last_seq

LEMMA VerdictAccepts ==
  ASSUME ctl.last_seq \in 0..SeqMax, NEW x \in 1..SeqMax
  PROVE  Verdict(x) = "ACCEPTED" <=> Accepts(ctl, x)
<1>1. CASE ctl.last_seq = 0
  BY <1>1 DEF Verdict, Accepts
<1>2. CASE ctl.last_seq # 0
  <2>1. ctl.last_seq \in 1..SeqMax
    BY <1>2, ConfigAssumption
  <2>2. Steps(x, ctl.last_seq) = Ahead(x, ctl.last_seq) /\ Ahead(x, ctl.last_seq) \in 0..SeqMax - 1
    BY <2>1, StepsIsAhead, AheadRange, ConfigAssumption
  <2>3. Limit \in Nat /\ Limit = SeqMax \div 2
    BY LimitIsHalf DEF Limit
  <2> DEFINE a == Ahead(x, ctl.last_seq)
             st == Steps(x, ctl.last_seq)
             h == SeqMax \div 2
  <2>4. Verdict(x) = IF st = 0 THEN "DUPLICATE" ELSE IF st <= h THEN "ACCEPTED" ELSE "STALE"
    BY <1>2 DEF Verdict
  <2>5. Accepts(ctl, x) <=> a \in 1..Limit
    BY <1>2 DEF Accepts
  <2>6. st = a /\ Limit = h /\ a \in 0..SeqMax - 1 /\ Limit \in Nat
    BY <2>2, <2>3
  <2> HIDE DEF a, st, h
  <2> QED BY <2>4, <2>5, <2>6
<1> QED BY <1>1, <1>2

LEMMA TakenLined ==
  ASSUME NEW q \in Seq(Frames), q # <<>>, NEW c, NEW d, c.last_seq \in 0..SeqMax,
         Lined(q, c), Takes(c, Head(q).seq, d)
  PROVE  Lined(Tail(q), d)
<1> DEFINE t == Tail(q)
           h == Head(q).seq
<1>1. /\ Len(q) \in Nat /\ Len(q) >= 1 /\ Len(t) = Len(q) - 1 /\ Head(q) = q[1]
      /\ \A i \in 1..Len(t) : t[i] = q[i + 1]
      /\ \A i \in 1..Len(q) : q[i] \in Frames
  BY LenProperties, EmptySeq, HeadTailProperties, ElementOfSeq
<1>2. h = q[1].seq /\ h \in 1..SeqMax
  BY <1>1, SeqOfLines
<1>3. d.boot = c.boot /\ d.last_seq = IF Accepts(c, h) THEN h ELSE c.last_seq
  BY DEF Takes
<1> HIDE DEF t, h
<1> SUFFICES ASSUME NEW i \in 1..Len(t), Moves(t[i], d)
             PROVE  /\ d.last_seq # 0
                    /\ \A j \in 1..i : Ahead(t[j].seq, d.last_seq) \in 1..Limit
                    /\ \A j, k \in 1..i :
                         j < k => Ahead(t[j].seq, d.last_seq) < Ahead(t[k].seq, d.last_seq)
  BY DEF Lined, t
<1>4. i + 1 \in 1..Len(q) /\ Moves(q[i + 1], c)
  BY <1>1, <1>3 DEF Moves
<1>5. /\ c.last_seq # 0
      /\ \A j \in 1..i + 1 : Ahead(q[j].seq, c.last_seq) \in 1..Limit
      /\ \A j, k \in 1..i + 1 :
           j < k => Ahead(q[j].seq, c.last_seq) < Ahead(q[k].seq, c.last_seq)
  BY <1>4 DEF Lined
<1>6. c.last_seq \in 1..SeqMax
  BY <1>5, ConfigAssumption
<1>7. Ahead(h, c.last_seq) \in 1..Limit /\ d.last_seq = h
  <2>1. 1 \in 1..i + 1
    BY <1>1
  <2>2. Ahead(h, c.last_seq) \in 1..Limit
    BY <1>2, <1>5, <2>1
  <2> QED BY <1>3, <2>2 DEF Accepts
<1>8. ASSUME NEW j \in 1..i
      PROVE  /\ Ahead(t[j].seq, h) = Ahead(q[j + 1].seq, c.last_seq) - Ahead(h, c.last_seq)
             /\ Ahead(q[j + 1].seq, c.last_seq) \in 1..Limit
             /\ Ahead(h, c.last_seq) < Ahead(q[j + 1].seq, c.last_seq)
  <2>1. j + 1 \in 1..i + 1 /\ 1 \in 1..i + 1 /\ 1 < j + 1 /\ j + 1 \in 1..Len(q)
    BY <1>1
  <2>2. /\ Ahead(q[j + 1].seq, c.last_seq) \in 1..Limit
        /\ Ahead(h, c.last_seq) < Ahead(q[j + 1].seq, c.last_seq)
    BY <1>2, <1>5, <2>1
  <2>3. t[j] = q[j + 1] /\ q[j + 1].seq \in 1..SeqMax /\ q[j + 1].seq \in 0..SeqMax
    <3>1. q[j + 1] \in Frames
      BY <1>1, <2>1
    <3> QED BY <1>1, <3>1, SeqOfLines
  <2>4. Ahead(h, c.last_seq) <= Ahead(q[j + 1].seq, c.last_seq)
    BY <1>7, <2>2, LimitIsHalf
  <2>5. Ahead(q[j + 1].seq, h) = Ahead(q[j + 1].seq, c.last_seq) - Ahead(h, c.last_seq)
    BY <1>2, <1>6, <2>3, <2>4, AheadBetween
  <2> QED BY <2>2, <2>3, <2>5
<1>9. \A j \in 1..i : Ahead(t[j].seq, h) \in 1..Limit
  BY <1>7, <1>8, LimitIsHalf, SMTT(30)
<1>10. ASSUME NEW j \in 1..i, NEW k \in 1..i, j < k PROVE Ahead(t[j].seq, h) < Ahead(t[k].seq, h)
  <2>1. Ahead(q[j + 1].seq, c.last_seq) < Ahead(q[k + 1].seq, c.last_seq)
    BY <1>5, <1>10
  <2> QED BY <1>7, <1>8, <2>1, LimitIsHalf
<1>11. h # 0
  BY <1>2
<1> QED BY <1>7, <1>9, <1>10, <1>11

LEMMA TakenInStep ==
  ASSUME NEW l, LinkOK(l), NEW f \in Seq(Lines), NEW q \in Seq(Frames), q # <<>>, NEW c, NEW d,
         c.last_seq \in 0..SeqMax, Lined(q, c), InStep(l, f, q, c),
         Takes(c, Head(q).seq, d), NEW x \in Lines, Answer(x), x.seq = Head(q).seq,
         x.type = "ACK" /\ Accepts(c, x.seq) => x.result = "ACCEPTED"
  PROVE  InStep(l, Append(f, x), Tail(q), d)
<1> DEFINE t == Tail(q)
           g == Append(f, x)
           h == x.seq
           s == l.seq
<1>1. /\ Len(q) \in Nat /\ Len(q) >= 1 /\ Len(t) = Len(q) - 1 /\ Head(q) = q[1]
      /\ \A i \in 1..Len(t) : t[i] = q[i + 1]
      /\ \A i \in 1..Len(q) : q[i] \in Frames
  BY LenProperties, EmptySeq, HeadTailProperties, ElementOfSeq
<1>2. /\ Len(f) \in Nat /\ Len(g) = Len(f) + 1
      /\ \A i \in 1..Len(f) : g[i] = f[i] /\ f[i] \in Lines
      /\ g[Len(f) + 1] = x
  BY LenProperties, AppendProperties, ElementOfSeq
<1>3. h = q[1].seq /\ h \in 1..SeqMax /\ h # 0 /\ s \in 0..SeqMax
  BY <1>1, SeqOfLines DEF LinkOK, LinkTypes
<1>4. c.last_seq \in 1..SeqMax
  BY ConfigAssumption DEF InStep
<1>5. Moves(q[1], c) /\ Ahead(h, c.last_seq) <= Ahead(s, c.last_seq)
  BY <1>1, <1>3 DEF InStep, GoodCommands
<1>6. Ahead(h, c.last_seq) \in 1..Limit
  BY <1>1, <1>3, <1>5 DEF Lined
<1>7. d.boot = c.boot /\ d.last_seq = h /\ (x.type = "ACK" => x.result = "ACCEPTED")
  BY <1>1, <1>3, <1>6 DEF Takes, Accepts
<1>8. Ahead(s, h) = Ahead(s, c.last_seq) - Ahead(h, c.last_seq) /\ Ahead(s, c.last_seq) \in Int
  BY <1>3, <1>4, <1>5, AheadBetween, AheadRange
<1>9. Ahead(s, h) <= Ahead(s, c.last_seq)
  BY <1>6, <1>8, LimitIsHalf
<1>10. Window(l, h)
  BY <1>3, <1>4, <1>9, WindowLater DEF InStep
<1>11. GoodAnswers(l, g, d)
  <2> SUFFICES ASSUME NEW i \in 1..Len(g), Answer(g[i])
               PROVE  /\ Window(l, g[i].seq)
                      /\ g[i].type = "ACK" => g[i].result = "ACCEPTED"
                      /\ Ahead(s, h) <= Ahead(s, g[i].seq)
                      /\ \A j \in 1..Len(g) : i < j /\ Answer(g[j])
                           => Ahead(s, g[j].seq) <= Ahead(s, g[i].seq)
    BY <1>7 DEF GoodAnswers
  <2> HIDE DEF g
  <2>1. CASE i \in 1..Len(f)
    <3>1. /\ Window(l, f[i].seq) /\ (f[i].type = "ACK" => f[i].result = "ACCEPTED")
          /\ Ahead(s, c.last_seq) <= Ahead(s, f[i].seq)
          /\ \A j \in 1..Len(f) : i < j /\ Answer(f[j]) => Ahead(s, f[j].seq) <= Ahead(s, f[i].seq)
          /\ g[i] = f[i]
      BY <1>2, <2>1 DEF InStep, GoodAnswers
    <3>2. Ahead(s, f[i].seq) \in Int
      BY <1>2, <1>3, <2>1, SeqOfLines, AheadRange
    <3>3. Ahead(s, h) <= Ahead(s, f[i].seq)
      BY <1>8, <1>9, <1>6, <3>1, <3>2, LimitIsHalf
    <3>4. ASSUME NEW j \in 1..Len(g), i < j, Answer(g[j])
          PROVE  Ahead(s, g[j].seq) <= Ahead(s, f[i].seq)
      <4>1. CASE j \in 1..Len(f)
        BY <1>2, <3>1, <3>4, <4>1
      <4>2. CASE j = Len(f) + 1
        BY <1>2, <3>3, <4>2
      <4> QED BY <1>2, <4>1, <4>2
    <3> QED BY <3>1, <3>3, <3>4
  <2>2. CASE i = Len(f) + 1
    <3>1. g[i] = x /\ ~\E j \in 1..Len(g) : i < j
      BY <1>2, <2>2
    <3>2. Ahead(s, h) <= Ahead(s, h)
      BY <1>3, AheadRange
    <3> QED BY <1>7, <1>10, <3>1, <3>2
  <2> QED BY <1>2, <2>1, <2>2
<1>12. GoodCommands(l, t, d)
  <2> SUFFICES ASSUME NEW i \in 1..Len(t)
               PROVE  Moves(t[i], d) /\ Ahead(t[i].seq, h) <= Ahead(s, h)
    BY <1>7 DEF GoodCommands
  <2> HIDE DEF t
  <2>1. i + 1 \in 1..Len(q) /\ t[i] = q[i + 1]
    BY <1>1
  <2>2. Moves(q[i + 1], c) /\ Ahead(q[i + 1].seq, c.last_seq) <= Ahead(s, c.last_seq)
    BY <2>1 DEF InStep, GoodCommands
  <2>3. q[i + 1].seq \in 1..SeqMax /\ q[i + 1].seq \in 0..SeqMax
    <3>1. q[i + 1] \in Frames
      BY <1>1, <2>1
    <3> QED BY <3>1, SeqOfLines
  <2>4. /\ Ahead(q[i + 1].seq, c.last_seq) \in 1..Limit
        /\ Ahead(h, c.last_seq) < Ahead(q[i + 1].seq, c.last_seq)
    <3>1. 1 \in 1..i + 1 /\ i + 1 \in 1..i + 1 /\ 1 < i + 1
      OBVIOUS
    <3> QED BY <1>3, <2>1, <2>2, <3>1 DEF Lined
  <2>5. Ahead(h, c.last_seq) <= Ahead(q[i + 1].seq, c.last_seq)
    BY <1>6, <2>4, LimitIsHalf
  <2>6. Ahead(q[i + 1].seq, h) = Ahead(q[i + 1].seq, c.last_seq) - Ahead(h, c.last_seq)
    BY <1>3, <1>4, <2>3, <2>5, AheadBetween
  <2>7. Ahead(q[i + 1].seq, h) <= Ahead(s, h)
    BY <1>6, <1>8, <2>2, <2>4, <2>6, LimitIsHalf
  <2> QED BY <1>7, <2>1, <2>2, <2>7 DEF Moves
<1> QED BY <1>7, <1>3, <1>10, <1>11, <1>12 DEF InStep

LEMMA TakenPinging ==
  ASSUME NEW l \in LinkTypes, NEW f \in Seq(Lines), NEW q \in Seq(Frames), q # <<>>, NEW c, NEW d,
         NEW n \in Int, NEW m \in Int, n <= m, Pinging(l, f, q, c, n),
         NEW x \in Lines, Answer(x), x.seq = Head(q).seq,
         x.type = "ACK" /\ x.result = "ACCEPTED" => d.last_seq = x.seq
  PROVE  Pinging(l, Append(f, x), Tail(q), d, m)
<1> DEFINE t == Tail(q)
           g == Append(f, x)
<1>1. /\ Len(q) \in Nat /\ Len(q) >= 1 /\ Len(t) = Len(q) - 1 /\ Head(q) = q[1]
      /\ \A i \in 1..Len(t) : t[i] = q[i + 1]
      /\ t \in Seq(Frames)
  BY LenProperties, EmptySeq, HeadTailProperties
<1>2. /\ Len(f) \in Nat /\ Len(g) = Len(f) + 1 /\ g \in Seq(Lines)
      /\ \A i \in 1..Len(f) : g[i] = f[i]
      /\ g[Len(f) + 1] = x
  BY LenProperties, AppendProperties
<1> HIDE DEF t, g
<1>3. Seqs(g, t) = Seqs(f, q)
  <2>1. ASSUME NEW y \in Seqs(g, t) PROVE y \in Seqs(f, q)
    <3>1. CASE \E i \in 1..Len(g) : Answer(g[i]) /\ y = g[i].seq
      <4>1. PICK i \in 1..Len(g) : Answer(g[i]) /\ y = g[i].seq
        BY <3>1
      <4>2. CASE i \in 1..Len(f)
        BY <1>2, <4>1, <4>2 DEF Seqs
      <4>3. CASE i = Len(f) + 1
        BY <1>1, <1>2, <4>1, <4>3 DEF Seqs
      <4> QED BY <1>2, <4>2, <4>3
    <3>2. CASE \E i \in 1..Len(t) : y = t[i].seq
      <4>1. PICK i \in 1..Len(t) : y = t[i].seq
        BY <3>2
      <4>2. i + 1 \in 1..Len(q) /\ y = q[i + 1].seq
        BY <1>1, <4>1
      <4> QED BY <4>2 DEF Seqs
    <3> QED BY <2>1, <3>1, <3>2 DEF Seqs
  <2>2. ASSUME NEW y \in Seqs(f, q) PROVE y \in Seqs(g, t)
    <3>1. CASE \E i \in 1..Len(f) : Answer(f[i]) /\ y = f[i].seq
      <4>1. PICK i \in 1..Len(f) : Answer(f[i]) /\ y = f[i].seq
        BY <3>1
      <4>2. i \in 1..Len(g) /\ g[i] = f[i]
        BY <1>2
      <4> QED BY <4>1, <4>2 DEF Seqs
    <3>2. CASE \E i \in 1..Len(q) : y = q[i].seq
      <4>1. PICK i \in 1..Len(q) : y = q[i].seq
        BY <3>2
      <4>2. CASE i = 1
        <5>1. Len(g) \in 1..Len(g) /\ g[Len(g)] = x
          BY <1>2
        <5> QED BY <1>1, <4>1, <4>2, <5>1 DEF Seqs
      <4>3. CASE i # 1
        <5>1. i - 1 \in 1..Len(t) /\ (i - 1) + 1 = i
          BY <1>1, <4>3
        <5>2. t[i - 1] = q[i]
          BY <1>1, <5>1
        <5> QED BY <4>1, <5>1, <5>2 DEF Seqs
      <4> QED BY <4>2, <4>3
    <3> QED BY <2>2, <3>1, <3>2 DEF Seqs
  <2> QED BY <2>1, <2>2
<1>4. Spent(l, g, t, m)
  BY <1>1, <1>2, <1>3, SpentThins DEF Pinging
<1>5. PingIsLast(l, t)
  <2> SUFFICES ASSUME NEW i \in 1..Len(t), t[i].seq = l.ping_seq PROVE i = Len(t)
    BY DEF PingIsLast
  <2>1. i + 1 \in 1..Len(q) /\ q[i + 1].seq = l.ping_seq
    BY <1>1
  <2>2. i + 1 = Len(q)
    BY <2>1 DEF Pinging, PingIsLast
  <2> QED BY <1>1, <2>2
<1>6. AnswerIsLast(l, g, t, d)
  <2> SUFFICES ASSUME NEW i \in 1..Len(g), Answer(g[i]), g[i].seq = l.ping_seq
               PROVE  /\ t = <<>>
                      /\ \A j \in 1..Len(g) : i < j => ~Answer(g[j])
                      /\ g[i].type = "ACK" /\ g[i].result = "ACCEPTED" /\ g[i].boot = d.boot
                           => d.last_seq = l.ping_seq
    BY DEF AnswerIsLast
  <2>1. i \notin 1..Len(f)
    BY <1>2 DEF Pinging, AnswerIsLast
  <2>2. i = Len(f) + 1 /\ g[i] = x
    BY <1>2, <2>1
  <2>3. 1 \in 1..Len(q) /\ q[1].seq = l.ping_seq
    BY <1>1, <2>2
  <2>4. Len(q) = 1
    BY <2>3 DEF Pinging, PingIsLast
  <2>5. t = <<>>
    BY <1>1, <2>4, EmptySeq
  <2> QED BY <1>2, <2>2, <2>5
<1>7. Seqs(f, q) # {}
  <2>1. 1 \in 1..Len(q)
    BY <1>1
  <2> QED BY <2>1 DEF Seqs
<1> QED BY <1>3, <1>4, <1>5, <1>6, <1>7 DEF Pinging, t, g

(***************************************************************************)
(* A command more is sent.                                                 *)
(***************************************************************************)
LEMMA AppendedFrames ==
  ASSUME NEW q \in Seq(Frames), NEW x \in Frames
  PROVE  LET t == Append(q, x)
         IN /\ Len(q) \in Nat /\ Len(t) = Len(q) + 1
            /\ \A i \in 1..Len(q) : t[i] = q[i] /\ q[i] \in Frames
            /\ t[Len(q) + 1] = x
  BY LenProperties, AppendProperties, ElementOfSeq

LEMMA SentLined ==
  ASSUME WideRing, NEW l, LinkOK(l), NEW f, NEW q \in Seq(Frames), NEW c,
         c.last_seq \in 0..SeqMax, Lined(q, c), NEW x \in Frames,
         Moves(x, c) => InStep(l, f, q, c) /\ x.seq = NextSeq(l.seq)
  PROVE  Lined(Append(q, x), c)
<1> DEFINE t == Append(q, x)
           last == c.last_seq
<1>1. /\ Len(q) \in Nat /\ Len(t) = Len(q) + 1
      /\ \A i \in 1..Len(q) : t[i] = q[i] /\ q[i] \in Frames
      /\ t[Len(q) + 1] = x
  BY AppendedFrames
<1> HIDE DEF t
<1> SUFFICES ASSUME NEW i \in 1..Len(t), Moves(t[i], c)
             PROVE  /\ last # 0
                    /\ \A j \in 1..i : Ahead(t[j].seq, last) \in 1..Limit
                    /\ \A j, k \in 1..i : j < k => Ahead(t[j].seq, last) < Ahead(t[k].seq, last)
  BY DEF Lined, t
<1>2. CASE i \in 1..Len(q)
  <2>1. Moves(q[i], c)
    BY <1>1, <1>2
  <2>2. \A j \in 1..i : t[j] = q[j]
    BY <1>1, <1>2
  <2>3. /\ last # 0
        /\ \A j \in 1..i : Ahead(q[j].seq, last) \in 1..Limit
        /\ \A j, k \in 1..i : j < k => Ahead(q[j].seq, last) < Ahead(q[k].seq, last)
    BY <1>2, <2>1 DEF Lined
  <2> QED BY <2>2, <2>3
<1>3. CASE i = Len(q) + 1
  <2>1. InStep(l, f, q, c) /\ x.seq = NextSeq(l.seq)
    BY <1>1, <1>3
  <2>2. last # 0 /\ last \in 1..SeqMax /\ Window(l, last)
    BY <2>1, ConfigAssumption DEF InStep
  <2>3. /\ Ahead(l.seq, last) \in 0..Limit - 1
        /\ Ahead(x.seq, last) = Ahead(l.seq, last) + 1
    BY <2>1, <2>2, WindowNarrow
  <2>4. Ahead(x.seq, last) \in 1..Limit /\ Ahead(l.seq, last) < Ahead(x.seq, last)
    BY <2>3, LimitIsHalf
  <2>5. ASSUME NEW j \in 1..Len(q)
        PROVE  /\ t[j] = q[j] /\ Ahead(q[j].seq, last) \in 1..Limit
               /\ Ahead(q[j].seq, last) < Ahead(x.seq, last)
    <3>1. Moves(q[j], c) /\ Ahead(q[j].seq, last) <= Ahead(l.seq, last)
      BY <2>1 DEF InStep, GoodCommands
    <3>2. Ahead(q[j].seq, last) \in 1..Limit
      BY <3>1 DEF Lined
    <3>3. Ahead(q[j].seq, last) < Ahead(x.seq, last)
      BY <2>3, <3>1, <3>2, LimitIsHalf
    <3> QED BY <1>1, <3>2, <3>3
  <2>6. \A j, k \in 1..Len(q) : j < k => Ahead(q[j].seq, last) < Ahead(q[k].seq, last)
    <3> TAKE j, k \in 1..Len(q)
    <3>1. Moves(q[k], c)
      BY <2>1 DEF InStep, GoodCommands
    <3>2. j < k => j \in 1..k /\ k \in 1..k
      OBVIOUS
    <3> QED BY <3>1, <3>2 DEF Lined
  <2>7. \A j \in 1..i : j \in 1..Len(q) \/ j = Len(q) + 1
    BY <1>1, <1>3
  <2>8. \A j \in 1..i : Ahead(t[j].seq, last) \in 1..Limit
    BY <1>1, <2>4, <2>5, <2>7
  <2>9. ASSUME NEW j \in 1..i, NEW k \in 1..i, j < k
        PROVE  Ahead(t[j].seq, last) < Ahead(t[k].seq, last)
    <3>1. j \in 1..Len(q)
      BY <1>1, <1>3, <2>9
    <3>2. CASE k \in 1..Len(q)
      BY <2>5, <2>6, <2>9, <3>1, <3>2
    <3>3. CASE k = Len(q) + 1
      BY <1>1, <2>5, <3>1, <3>3
    <3> QED BY <2>7, <3>2, <3>3
  <2> QED BY <2>2, <2>8, <2>9
<1> QED BY <1>1, <1>2, <1>3

LEMMA SentInStep ==
  ASSUME WideRing, NEW l, LinkOK(l), NEW r, NEW k \in Commands, NEW f \in Seq(Lines),
         NEW q \in Seq(Frames), NEW c, c.last_seq \in 0..SeqMax, InStep(l, f, q, c),
         l.timeouts < MaxTimeouts, Len(l.pending) < MaxPending,
         r.seq = NextSeq(l.seq), r.timeouts = l.timeouts,
         r.pending = Put(l.pending, NextSeq(l.seq), k),
         NEW x \in Frames, Moves(x, c), x.seq = NextSeq(l.seq)
  PROVE  InStep(r, f, Append(q, x), c)
<1> DEFINE t == Append(q, x)
           last == c.last_seq
<1>1. /\ Len(q) \in Nat /\ Len(t) = Len(q) + 1
      /\ \A i \in 1..Len(q) : t[i] = q[i] /\ q[i] \in Frames
      /\ t[Len(q) + 1] = x
  BY AppendedFrames
<1> HIDE DEF t
<1>2. /\ last # 0 /\ last \in 1..SeqMax /\ Window(l, last)
      /\ GoodAnswers(l, f, c) /\ GoodCommands(l, q, c)
  BY ConfigAssumption DEF InStep
<1>3. ASSUME NEW y \in 1..SeqMax, Window(l, y)
      PROVE  /\ Window(r, y) /\ Ahead(r.seq, y) = Ahead(l.seq, y) + 1
             /\ Ahead(l.seq, y) \in 0..Limit - 1
  BY <1>3, WindowSent, WindowNarrow
<1>4. /\ Window(r, last) /\ Ahead(r.seq, last) = Ahead(l.seq, last) + 1
      /\ Ahead(l.seq, last) \in 0..Limit - 1
  BY <1>2, <1>3
<1>5. GoodAnswers(r, f, c)
  <2>1. ASSUME NEW i \in 1..Len(f), Answer(f[i])
        PROVE  /\ Window(r, f[i].seq) /\ Ahead(r.seq, f[i].seq) = Ahead(l.seq, f[i].seq) + 1
               /\ Ahead(l.seq, f[i].seq) \in 0..Limit - 1
    <3>1. f[i].seq \in 1..SeqMax
      <4>1. f[i] \in Lines
        BY ElementOfSeq
      <4> QED BY <2>1, <4>1, SeqOfLines
    <3>2. Window(l, f[i].seq)
      BY <1>2, <2>1 DEF GoodAnswers
    <3> QED BY <1>3, <3>1, <3>2
  <2> SUFFICES ASSUME NEW i \in 1..Len(f), Answer(f[i])
               PROVE  /\ Window(r, f[i].seq)
                      /\ f[i].type = "ACK" => f[i].result = "ACCEPTED"
                      /\ Ahead(r.seq, last) <= Ahead(r.seq, f[i].seq)
                      /\ \A j \in 1..Len(f) : i < j /\ Answer(f[j])
                           => Ahead(r.seq, f[j].seq) <= Ahead(r.seq, f[i].seq)
    BY DEF GoodAnswers
  <2>2. /\ f[i].type = "ACK" => f[i].result = "ACCEPTED"
        /\ Ahead(l.seq, last) <= Ahead(l.seq, f[i].seq)
        /\ \A j \in 1..Len(f) : i < j /\ Answer(f[j])
             => Ahead(l.seq, f[j].seq) <= Ahead(l.seq, f[i].seq)
    BY <1>2 DEF GoodAnswers
  <2>3. Ahead(r.seq, last) <= Ahead(r.seq, f[i].seq)
    BY <1>4, <2>1, <2>2, LimitIsHalf
  <2>4. ASSUME NEW j \in 1..Len(f), i < j, Answer(f[j])
        PROVE  Ahead(r.seq, f[j].seq) <= Ahead(r.seq, f[i].seq)
    <3>1. Ahead(l.seq, f[j].seq) <= Ahead(l.seq, f[i].seq)
      BY <2>2, <2>4
    <3>2. /\ Ahead(r.seq, f[i].seq) = Ahead(l.seq, f[i].seq) + 1
          /\ Ahead(r.seq, f[j].seq) = Ahead(l.seq, f[j].seq) + 1
          /\ Ahead(l.seq, f[i].seq) \in Int /\ Ahead(l.seq, f[j].seq) \in Int
      BY <2>1, <2>4, LimitIsHalf
    <3> QED BY <3>1, <3>2
  <2> QED BY <2>1, <2>2, <2>3, <2>4
<1>6. GoodCommands(r, t, c)
  <2> SUFFICES ASSUME NEW i \in 1..Len(t)
               PROVE  Moves(t[i], c) /\ Ahead(t[i].seq, last) <= Ahead(r.seq, last)
    BY DEF GoodCommands
  <2>1. CASE i \in 1..Len(q)
    <3>1. Moves(q[i], c) /\ Ahead(q[i].seq, last) <= Ahead(l.seq, last) /\ t[i] = q[i]
      BY <1>1, <1>2, <2>1 DEF GoodCommands
    <3>2. Ahead(q[i].seq, last) \in Int
      <4>1. q[i].seq \in 1..SeqMax
        <5>1. q[i] \in Frames
          BY <1>1, <2>1
        <5> QED BY <5>1, SeqOfLines
      <4> QED BY <1>2, <4>1, AheadRange
    <3> QED BY <1>4, <3>1, <3>2, LimitIsHalf
  <2>2. CASE i = Len(q) + 1
    <3>1. t[i] = x /\ x.seq = r.seq
      BY <1>1, <2>2
    <3>2. Ahead(r.seq, last) \in Int
      BY <1>4, LimitIsHalf
    <3> QED BY <3>1, <3>2
  <2> QED BY <1>1, <2>1, <2>2
<1> QED BY <1>2, <1>4, <1>5, <1>6 DEF InStep, t

LEMMA SentPing ==
  ASSUME NEW l, LinkOK(l), NEW r, NEW f \in Seq(Lines), NEW q \in Seq(Frames), NEW c,
         NEW n \in Nat, n < SeqMax, Pinging(l, f, q, c, n), l.ping_seq = 0,
         r.seq = NextSeq(l.seq), r.ping_seq = NextSeq(l.seq), r.seq_synced,
         r.pending = Put(l.pending, NextSeq(l.seq), "PING"),
         NEW x \in Frames, x.seq = NextSeq(l.seq)
  PROVE  Pinging(r, f, Append(q, x), c, n)
<1> DEFINE t == Append(q, x)
           p == NextSeq(l.seq)
<1>1. /\ Len(q) \in Nat /\ Len(t) = Len(q) + 1
      /\ \A i \in 1..Len(q) : t[i] = q[i] /\ q[i] \in Frames
      /\ t[Len(q) + 1] = x
  BY AppendedFrames
<1>2. l.seq \in 0..SeqMax /\ p \in 1..SeqMax
  BY NextSeqOK DEF LinkOK, LinkTypes
<1>3. Seqs(f, q) \subseteq 1..SeqMax
  BY SeqsTyped
<1>4. ASSUME NEW y \in Seqs(f, q)
      PROVE  y # p /\ Ahead(p, y) <= n
  <2>1. y \in 1..SeqMax /\ 0 \notin Seqs(f, q)
    BY <1>3
  <2>2. Ahead(l.seq, y) <= n - 1
    BY <2>1 DEF Pinging, Spent, Within
  <2>3. Ahead(l.seq, y) \in 0..SeqMax - 1 /\ Ahead(l.seq, y) # SeqMax - 1
    <3>1. Ahead(l.seq, y) \in 0..SeqMax - 1
      BY <1>2, <2>1, AheadRange
    <3>2. SeqMax \in Nat
      BY ConfigAssumption
    <3> QED BY <2>2, <3>1, <3>2
  <2>4. Ahead(p, y) = Ahead(l.seq, y) + 1 /\ p # y
    BY <1>2, <2>1, <2>3, AheadOfNext
  <2>5. Ahead(l.seq, y) \in Int
    BY <2>3
  <2> HIDE DEF p
  <2> QED BY <2>2, <2>4, <2>5
<1>5. Ahead(p, p) = 0
  BY <1>2, AheadRange
<1>6. r.pending = <<[seq |-> p, cmd |-> "PING"]>>
  <2>1. l.pending = <<>>
    BY DEF Pinging, Awaiting
  <2>2. Without(l.pending, p) = <<>>
    BY <2>1 DEF Without
  <2> QED BY <2>2 DEF Put
<1> HIDE DEF t, p
<1>7. Seqs(f, t) = Seqs(f, q) \cup {p}
  <2>1. {t[i].seq : i \in 1..Len(t)} = {q[i].seq : i \in 1..Len(q)} \cup {x.seq}
    BY <1>1
  <2>2. x.seq = p
    BY DEF p
  <2> QED BY <2>1, <2>2 DEF Seqs
<1>8. r.seq = p /\ r.ping_seq = p /\ r.seq_synced
  BY DEF p
<1>9. Awaiting(r)
  BY <1>2, <1>6, <1>8 DEF Awaiting
<1>10. Spent(r, f, t, n)
  BY <1>4, <1>5, <1>7, <1>8 DEF Spent, Within
<1>11. AnswerIsLast(r, f, t, c)
  <2>1. \A i \in 1..Len(f) : Answer(f[i]) => f[i].seq \in Seqs(f, q)
    BY DEF Seqs
  <2> QED BY <1>4, <1>8, <2>1 DEF AnswerIsLast
<1>12. PingIsLast(r, t)
  <2>1. \A i \in 1..Len(q) : q[i].seq \in Seqs(f, q)
    BY DEF Seqs
  <2> QED BY <1>1, <1>4, <1>8, <2>1 DEF PingIsLast
<1> QED BY <1>8, <1>9, <1>10, <1>11, <1>12 DEF Pinging, t

(***************************************************************************)
(* What the handlers do to the numbers.                                    *)
(***************************************************************************)
Alike(l, r) ==
  /\ r.seq_synced = l.seq_synced /\ r.last_uptime = l.last_uptime
  /\ r.reboot_latched = l.reboot_latched
\* A reboot is latched.
Latched(r) ==
  /\ r.reboot_latched /\ r.pending = <<>> /\ ~r.bidirectional
  /\ r.last_uptime # NoUptime
\* The first line that tells a number to go on from.
Synced(l, r) ==
  /\ ~l.seq_synced /\ r.pending = l.pending /\ r.ping_seq = l.ping_seq
  /\ r.bidirectional => l.bidirectional
  /\ r.last_uptime # NoUptime /\ r.reboot_latched = l.reboot_latched
  /\ l.proto_problem => r.proto_problem
\* A line that changes no number.
Unmoved(l, line, r) ==
  /\ Answer(line) => ~Matches(l, line)
  /\ SameClaims(l, r) /\ r.reboot_latched = l.reboot_latched
  /\ r.last_uptime = NoUptime => l.last_uptime = NoUptime
  /\ l.proto_problem => r.proto_problem
  /\ r.bidirectional => l.bidirectional
  /\ l.bidirectional => r.bidirectional \/ r.proto_problem
\* The answer to a command other than the PING that is waited for.
Over(l, line, r) ==
  /\ Answer(line) /\ Matches(l, line) /\ ~AnswersPing(l, line)
  /\ Alike(l, r) /\ r.proto_problem = l.proto_problem /\ r.bidirectional = l.bidirectional
  /\ r.pending = Without(l.pending, line.seq) /\ r.timeouts = 0
  /\ r.ping_seq = l.ping_seq
  /\ line.type = "ERROR" \/ line.result # "STALE" => r.seq = l.seq
\* The answer to the PING, or an error under its number.
PingOver(l, line, r) ==
  /\ Answer(line) /\ line.seq = l.ping_seq
  /\ Alike(l, r)
  /\ l.proto_problem => r.proto_problem
  /\ r.pending = Without(l.pending, line.seq) /\ r.ping_seq = 0
  /\ r.bidirectional => l.bidirectional \/ (Proves(l, line) /\ ~r.proto_problem /\ r.seq = l.seq)
Turned(l, line, r) ==
  /\ r.port_open = l.port_open
  /\ \/ Latched(r) \/ Synced(l, r) \/ Unmoved(l, line, r) \/ Over(l, line, r)
     \/ PingOver(l, line, r)

LEMMA RefreshNumbers ==
  ASSUME NEW l \in LinkTypes
  PROVE  LET r == Refresh(l)
         IN /\ r \in LinkTypes
            /\ r = [l EXCEPT !.status = r.status]
            /\ r.port_open /\ ~r.stopping /\ r.status = "UP" => r.timeouts < MaxTimeouts
<1> DEFINE r == Refresh(l)
           faulty == Faulty(l)
           unproven == Unproven(l)
           st == IF l.telemetry = "stale" THEN "STALE"
                 ELSE IF faulty THEN "DEGRADED" ELSE IF unproven THEN "CONNECTING" ELSE "UP"
<1>1. CASE ~l.port_open \/ l.stopping
  <2>1. r = l
    BY <1>1 DEF Refresh
  <2> QED BY <1>1, <2>1 DEF LinkTypes
<1>2. CASE ~(~l.port_open \/ l.stopping)
  <2>1. r = [l EXCEPT !.status = st]
    BY <1>2 DEF Refresh
  <2>2. st \in Statuses /\ (st = "UP" => ~faulty)
    BY DEF Statuses
  <2>3. ~faulty => l.timeouts < MaxTimeouts
    BY ConfigAssumption DEF Faulty, LinkTypes
  <2> HIDE DEF r, st, faulty
  <2>4. /\ r \in LinkTypes /\ r.status = st /\ r.timeouts = l.timeouts
        /\ r = [l EXCEPT !.status = r.status]
    BY <2>1, <2>2 DEF LinkTypes
  <2> QED BY <2>2, <2>3, <2>4 DEF r
<1> QED BY <1>1, <1>2

LEMMA TelemetryTurns ==
  ASSUME NEW l, LinkOK(l), NEW line \in Lines, line.type = "TELEMETRY"
  PROVE  Turned(l, line, OnTelemetry(l, line))
<1> DEFINE m == IF line.uptime < l.last_uptime THEN Reboot(l) ELSE l
           r == [m EXCEPT !.last_uptime = line.uptime, !.telemetry = "fresh",
                          !.drive = line.drive,
                          !.seq = IF m.seq_synced THEN @ ELSE line.last_seq,
                          !.seq_synced = TRUE]
<1>1. OnTelemetry(l, line) = r
  BY DEF OnTelemetry
<1>2. l \in LinkTypes /\ line.uptime # NoUptime /\ ~Answer(line)
  BY DEF LinkOK, Lines, NoUptime, Answer
<1>3. m \in LinkTypes
  BY RebootOK DEF NoProof, LinkOK
<1>4. \/ m.reboot_latched /\ m.pending = <<>> /\ ~m.bidirectional /\ m.port_open = l.port_open
      \/ m = l
  BY <1>2 DEF Reboot, LinkTypes
<1> HIDE DEF m
<1>5. /\ r.last_uptime # NoUptime /\ r.reboot_latched = m.reboot_latched
      /\ r.pending = m.pending /\ r.bidirectional = m.bidirectional /\ r.seq_synced
      /\ r.ping_seq = m.ping_seq /\ r.timeouts = m.timeouts /\ r.port_open = m.port_open
      /\ r.proto_problem = m.proto_problem /\ (m.seq_synced => r.seq = m.seq)
  BY <1>2, <1>3 DEF LinkTypes
<1>6. l.seq_synced \in BOOLEAN
  BY <1>2 DEF LinkTypes
<1> HIDE DEF r
<1>7. CASE m.reboot_latched /\ m.pending = <<>> /\ ~m.bidirectional /\ m.port_open = l.port_open
  BY <1>1, <1>5, <1>7 DEF Turned, Latched
<1>8. CASE m = l /\ l.seq_synced
  BY <1>1, <1>2, <1>5, <1>6, <1>8 DEF Turned, Unmoved, SameClaims, SameNumbers
<1>9. CASE m = l /\ ~l.seq_synced
  BY <1>1, <1>5, <1>9 DEF Turned, Synced
<1> QED BY <1>4, <1>7, <1>8, <1>9

LEMMA NoteTurns ==
  ASSUME NEW l, LinkOK(l), NEW line \in Lines, line.type \in {"DIAG", "READY"}
  PROVE  LET r == NoteProto(l, line.boot)
         IN r.port_open = l.port_open /\ Unmoved(l, line, r) /\ r.last_uptime = l.last_uptime
<1>1. l \in LinkTypes /\ ~Answer(line)
  BY DEF LinkOK, Answer
<1>2. CASE line.boot \notin BadProto
  BY <1>1, <1>2 DEF NoteProto, Unmoved, SameClaims, SameNumbers
<1>3. CASE line.boot \in BadProto
  <2> DEFINE r == [l EXCEPT !.proto_problem = TRUE, !.bidirectional = FALSE]
  <2>1. NoteProto(l, line.boot) = r
    BY <1>3 DEF NoteProto
  <2>2. /\ r.proto_problem /\ ~r.bidirectional /\ r.port_open = l.port_open
        /\ r.seq = l.seq /\ r.pending = l.pending /\ r.timeouts = l.timeouts
        /\ r.ping_seq = l.ping_seq /\ r.seq_synced = l.seq_synced
        /\ r.reboot_latched = l.reboot_latched /\ r.last_uptime = l.last_uptime
    BY <1>1 DEF LinkTypes
  <2> HIDE DEF r
  <2> QED BY <1>1, <2>1, <2>2 DEF Unmoved, SameClaims, SameNumbers
<1> QED BY <1>2, <1>3

LEMMA ReadyTurns ==
  ASSUME NEW l, LinkOK(l), l.last_uptime = NoUptime => ~l.seq_synced,
         NEW line \in Lines, line.type = "READY"
  PROVE  Turned(l, line, OnReady(l, line))
<1> DEFINE n == NoteProto(l, line.boot)
           m == IF l.last_uptime # NoUptime THEN Reboot(n) ELSE n
           r == [m EXCEPT !.last_uptime = line.uptime, !.seq = 0, !.seq_synced = TRUE]
<1>1. OnReady(l, line) = r
  BY DEF OnReady
<1>2. n.port_open = l.port_open /\ Unmoved(l, line, n) /\ LinkOK(n) /\ n \in LinkTypes
  BY NoteTurns, NoteProtoOK DEF NoProof, LinkOK
<1>3. line.uptime # NoUptime
  BY DEF Lines, NoUptime
<1> HIDE DEF n
<1>4. m \in LinkTypes
  BY <1>2, RebootOK DEF NoProof, LinkOK
<1>5. \/ m.reboot_latched /\ m.pending = <<>> /\ ~m.bidirectional /\ m.port_open = n.port_open
      \/ m = n /\ ~l.seq_synced
  BY <1>2 DEF Reboot, LinkTypes
<1> HIDE DEF m
<1>6. /\ r.last_uptime # NoUptime /\ r.reboot_latched = m.reboot_latched
      /\ r.pending = m.pending /\ r.bidirectional = m.bidirectional
      /\ r.ping_seq = m.ping_seq /\ r.port_open = m.port_open
      /\ r.proto_problem = m.proto_problem
  BY <1>3, <1>4 DEF LinkTypes
<1> HIDE DEF r
<1>7. CASE m.reboot_latched /\ m.pending = <<>> /\ ~m.bidirectional /\ m.port_open = n.port_open
  BY <1>1, <1>2, <1>6, <1>7 DEF Turned, Latched
<1>8. CASE m = n /\ ~l.seq_synced
  BY <1>1, <1>2, <1>6, <1>8 DEF Turned, Synced, Unmoved, SameClaims, SameNumbers
<1> QED BY <1>5, <1>7, <1>8

LEMMA ErrorTurns ==
  ASSUME NEW l, LinkOK(l), NEW line \in Lines, line.type = "ERROR"
  PROVE  Turned(l, line, OnError(l, line))
<1> DEFINE r == OnError(l, line)
           w == Without(l.pending, line.seq)
           matched == Matches(l, line)
<1>1. l \in LinkTypes /\ Answer(line)
  BY DEF LinkOK, Answer
<1>2. /\ r.pending = w /\ r.timeouts = IF matched THEN 0 ELSE l.timeouts
      /\ r.ping_seq = IF line.seq = l.ping_seq THEN 0 ELSE l.ping_seq
      /\ r.seq = l.seq /\ r.port_open = l.port_open /\ r.proto_problem = l.proto_problem
      /\ r.bidirectional = l.bidirectional /\ r.seq_synced = l.seq_synced
      /\ r.last_uptime = l.last_uptime /\ r.reboot_latched = l.reboot_latched
  <2> HIDE DEF matched
  <2>1. r = [l EXCEPT !.pending = w, !.timeouts = IF matched THEN 0 ELSE @,
                      !.ping_seq = IF line.seq = @ THEN 0 ELSE @]
    BY DEF OnError, matched
  <2> HIDE DEF r, w
  <2> QED BY <1>1, <2>1 DEF LinkTypes
<1> HIDE DEF r
<1>3. CASE line.seq = l.ping_seq
  <2>1. PingOver(l, line, r)
    BY <1>1, <1>2, <1>3 DEF PingOver, Alike
  <2> QED BY <1>2, <2>1 DEF Turned, r
<1>4. CASE line.seq # l.ping_seq /\ matched
  <2>1. Over(l, line, r)
    BY <1>1, <1>2, <1>4 DEF Over, Alike, AnswersPing
  <2> QED BY <1>2, <2>1 DEF Turned, r
<1>5. CASE line.seq # l.ping_seq /\ ~matched
  <2>1. w = l.pending
    <3>1. line.seq \notin PendingSeqs(l.pending)
      BY <1>5 DEF Matches
    <3> QED BY <3>1, WithoutAt DEF LinkOK
  <2>2. Unmoved(l, line, r)
    <3> HIDE DEF w
    <3> QED BY <1>2, <1>5, <2>1 DEF Unmoved, SameClaims, SameNumbers
  <2> QED BY <1>2, <2>2 DEF Turned, r
<1> QED BY <1>3, <1>4, <1>5

LEMMA AckTurns ==
  ASSUME NEW l, LinkOK(l), NEW line \in Lines, line.type = "ACK"
  PROVE  Turned(l, line, OnAck(l, line))
<1> DEFINE w == Without(l.pending, line.seq)
           n == IF line.result = "STALE" THEN line.last_seq ELSE l.seq
           a == [l EXCEPT !.pending = w, !.timeouts = 0, !.seq = n]
           q == [a EXCEPT !.ping_seq = 0]
           p == NoteProto(q, line.boot)
           b == [p EXCEPT !.bidirectional = ~p.proto_problem]
           c == [a EXCEPT !.ping_seq = 0, !.ping_due = TRUE]
<1>1. l \in LinkTypes /\ Answer(line)
  BY DEF LinkOK, Answer
<1>2. \/ ~Matches(l, line) /\ OnAck(l, line) = l
      \/ Matches(l, line) /\ ~AnswersPing(l, line) /\ OnAck(l, line) = a
      \/ AnswersPing(l, line) /\ line.result = "ACCEPTED" /\ OnAck(l, line) = b
      \/ AnswersPing(l, line) /\ line.result # "ACCEPTED" /\ OnAck(l, line) = c
  BY DEF OnAck
<1>3. line.result # "STALE" => n = l.seq
  OBVIOUS
<1>4. /\ line.last_seq \in 0..SeqMax /\ l.seq \in 0..SeqMax /\ 0 \in 0..SeqMax
      /\ 0 \in 0..MaxTimeouts
  BY <1>1, ConfigAssumption DEF Lines, LinkTypes
<1>5. n \in 0..SeqMax /\ w \in Seq(Entries)
  <2>1. w \in Seq(Entries)
    BY WithoutOK DEF LinkOK, PendingOK
  <2> QED BY <1>4, <2>1
<1>6. w = Without(l.pending, line.seq)
  OBVIOUS
<1> HIDE DEF n, w
<1>7. /\ a \in LinkTypes /\ a.pending = w /\ a.timeouts = 0 /\ a.seq = n
      /\ a.ping_seq = l.ping_seq /\ a.port_open = l.port_open
      /\ a.proto_problem = l.proto_problem
      /\ a.bidirectional = l.bidirectional /\ a.seq_synced = l.seq_synced
      /\ a.last_uptime = l.last_uptime /\ a.reboot_latched = l.reboot_latched
  BY <1>1, <1>4, <1>5 DEF LinkTypes
<1> HIDE DEF a
<1>8. /\ c.pending = w /\ c.seq = n
      /\ c.ping_seq = 0 /\ c.port_open = l.port_open
      /\ c.proto_problem = l.proto_problem
      /\ c.bidirectional = l.bidirectional /\ c.seq_synced = l.seq_synced
      /\ c.last_uptime = l.last_uptime /\ c.reboot_latched = l.reboot_latched
  BY <1>7 DEF LinkTypes
<1>9. /\ q \in LinkTypes /\ q.pending = w /\ q.seq = n
      /\ q.ping_seq = 0 /\ q.port_open = l.port_open
      /\ q.proto_problem = l.proto_problem
      /\ q.seq_synced = l.seq_synced
      /\ q.last_uptime = l.last_uptime /\ q.reboot_latched = l.reboot_latched
  BY <1>4, <1>7 DEF LinkTypes
<1> HIDE DEF c, q
<1>10. /\ p \in LinkTypes /\ p.pending = w /\ p.seq = n
       /\ p.ping_seq = 0 /\ p.port_open = l.port_open
       /\ (l.proto_problem => p.proto_problem)
       /\ p.seq_synced = l.seq_synced
       /\ p.last_uptime = l.last_uptime /\ p.reboot_latched = l.reboot_latched
  BY <1>9, ZenonT(40) DEF NoteProto, LinkTypes
<1> HIDE DEF p
<1>11. /\ b.pending = w /\ b.seq = n
       /\ b.ping_seq = 0 /\ b.port_open = l.port_open
       /\ (l.proto_problem => b.proto_problem) /\ b.bidirectional = ~b.proto_problem
       /\ b.seq_synced = l.seq_synced
       /\ b.last_uptime = l.last_uptime /\ b.reboot_latched = l.reboot_latched
  BY <1>10 DEF LinkTypes
<1> HIDE DEF b
<1>12. CASE ~Matches(l, line) /\ OnAck(l, line) = l
  BY <1>12 DEF Turned, Unmoved, SameClaims, SameNumbers
<1>13. CASE Matches(l, line) /\ ~AnswersPing(l, line) /\ OnAck(l, line) = a
  <2>1. Over(l, line, a)
    BY <1>1, <1>3, <1>6, <1>7, <1>13 DEF Over, Alike
  <2> QED BY <1>7, <1>13, <2>1 DEF Turned
<1>14. CASE AnswersPing(l, line) /\ line.result = "ACCEPTED" /\ OnAck(l, line) = b
  <2>1. PingOver(l, line, b)
    BY <1>1, <1>3, <1>6, <1>11, <1>14 DEF PingOver, Alike, AnswersPing, Proves
  <2> QED BY <1>11, <1>14, <2>1 DEF Turned
<1>15. CASE AnswersPing(l, line) /\ line.result # "ACCEPTED" /\ OnAck(l, line) = c
  <2>1. PingOver(l, line, c)
    BY <1>1, <1>6, <1>8, <1>15 DEF PingOver, Alike, AnswersPing
  <2> QED BY <1>8, <1>15, <2>1 DEF Turned
<1> QED BY <1>2, <1>12, <1>13, <1>14, <1>15

\* The status alone changes what Turned says nothing of.
LEMMA TurnedRefreshed ==
  ASSUME NEW l, NEW line, NEW h \in LinkTypes, Turned(l, line, h)
  PROVE  Turned(l, line, Refresh(h))
<1> DEFINE r == Refresh(h)
<1>1. r = [h EXCEPT !.status = r.status]
  BY RefreshNumbers
<1>2. /\ r.pending = h.pending /\ r.timeouts = h.timeouts /\ r.seq = h.seq
      /\ r.ping_seq = h.ping_seq /\ r.port_open = h.port_open
      /\ r.proto_problem = h.proto_problem
      /\ r.bidirectional = h.bidirectional /\ r.seq_synced = h.seq_synced
      /\ r.last_uptime = h.last_uptime /\ r.reboot_latched = h.reboot_latched
  <2>1. PICK st : r = [h EXCEPT !.status = st]
    BY <1>1
  <2> HIDE DEF r
  <2> QED BY <2>1 DEF LinkTypes
<1> HIDE DEF r
<1>3. Turned(l, line, r)
  BY <1>2 DEF Turned, Latched, Synced, Unmoved, Over, PingOver, Alike, SameClaims, SameNumbers
<1> QED BY <1>3 DEF r

LEMMA HandledTurns ==
  ASSUME NEW l, LinkOK(l), l.last_uptime = NoUptime => ~l.seq_synced, NEW line \in Lines
  PROVE  LET r == Handled(l, line)
         IN /\ Turned(l, line, r)
            /\ r.port_open /\ ~r.stopping /\ r.status = "UP" => r.timeouts < MaxTimeouts
<1> DEFINE h == CASE line.type = "TELEMETRY" -> OnTelemetry(l, line)
                  [] line.type = "READY"     -> OnReady(l, line)
                  [] line.type = "DIAG"      -> NoteProto(l, line.boot)
                  [] line.type = "ACK"       -> OnAck(l, line)
                  [] OTHER                   -> OnError(l, line)
<1>1. Handled(l, line) = Refresh(h)
  BY DEF Handled
<1>2. line.type \in LineTypes
  BY DEF Lines, LineTypes
<1>3. h \in LinkTypes /\ Turned(l, line, h)
  <2>1. CASE line.type = "TELEMETRY"
    <3>1. h = OnTelemetry(l, line)
      BY <2>1
    <3> QED BY <2>1, <3>1, TelemetryOK, TelemetryTurns DEF NoProof, LinkOK
  <2>2. CASE line.type = "READY"
    <3>1. h = OnReady(l, line)
      BY <2>2
    <3> QED BY <2>2, <3>1, ReadyOK, ReadyTurns DEF NoProof, LinkOK
  <2>3. CASE line.type = "DIAG"
    <3>1. h = NoteProto(l, line.boot)
      BY <2>3
    <3> QED BY <2>3, <3>1, NoteProtoOK, NoteTurns DEF NoProof, LinkOK, Turned
  <2>4. CASE line.type = "ACK"
    <3>1. h = OnAck(l, line)
      BY <2>4
    <3> QED BY <2>4, <3>1, AckOK, AckTurns DEF Answered, LinkOK
  <2>5. CASE line.type = "ERROR"
    <3>1. h = OnError(l, line)
      BY <2>5
    <3> QED BY <2>5, <3>1, ErrorOK, ErrorTurns DEF NoProof, LinkOK
  <2> QED BY <1>2, <2>1, <2>2, <2>3, <2>4, <2>5 DEF LineTypes
<1> HIDE DEF h
<1> QED BY <1>1, <1>3, TurnedRefreshed, RefreshNumbers

(***************************************************************************)
(* A line is handled: what is claimed of the lines that are left.          *)
(***************************************************************************)
LEMMA LinesLeft ==
  ASSUME NEW f \in Seq(Lines), f # <<>>
  PROVE  LET g == Tail(f)
         IN /\ g \in Seq(Lines) /\ Thins(g, f) /\ Head(f) \in Lines
            /\ 1 \in 1..Len(f) /\ Head(f) = f[1]
            /\ \A i \in 1..Len(g) : i + 1 \in 1..Len(f) /\ 1 < i + 1 /\ g[i] = f[i + 1]
            /\ \A i \in 1..Len(f) : i # 1 => i - 1 \in 1..Len(g) /\ g[i - 1] = f[i]
<1> DEFINE g == Tail(f)
<1>1. /\ g \in Seq(Lines) /\ Len(g) = Len(f) - 1 /\ Head(f) = f[1]
      /\ \A i \in 1..Len(g) : g[i] = f[i + 1]
      /\ Len(f) \in Nat /\ Len(f) >= 1 /\ Head(f) \in Lines
  BY LenProperties, EmptySeq, HeadTailProperties
<1>2. Thins(g, f)
  BY ThinsTail
<1> HIDE DEF g
<1>3. \A i \in 1..Len(f) : i # 1 => i - 1 \in 1..Len(g) /\ g[i - 1] = f[i]
  <2> SUFFICES ASSUME NEW i \in 1..Len(f), i # 1 PROVE i - 1 \in 1..Len(g) /\ g[i - 1] = f[i]
    OBVIOUS
  <2>1. i - 1 \in 1..Len(g) /\ (i - 1) + 1 = i
    BY <1>1
  <2> QED BY <1>1, <2>1
<1>4. \A i \in 1..Len(g) : i + 1 \in 1..Len(f) /\ 1 < i + 1
  BY <1>1
<1> QED BY <1>1, <1>2, <1>3, <1>4 DEF g

LEMMA NothingAwaited ==
  ASSUME NEW r, NEW g, NEW q, NEW c, NEW n, Seqs(g, q) = {}, r.pending = <<>>, r.ping_seq = 0
  PROVE  Pinging(r, g, q, c, n)
<1>1. \A i \in 1..Len(g) : ~Answer(g[i])
  BY DEF Seqs
<1>2. \A i \in 1..Len(q) : FALSE
  BY DEF Seqs
<1> QED BY <1>1, <1>2 DEF Pinging, Awaiting, Spent, Within, AnswerIsLast, PingIsLast

LEMMA OverInStep ==
  ASSUME NEW l, LinkOK(l), NEW f \in Seq(Lines), f # <<>>, NEW q, NEW c,
         c.last_seq \in 0..SeqMax, InStep(l, f, q, c), NEW r, Over(l, Head(f), r)
  PROVE  InStep(r, Tail(f), q, c)
<1> DEFINE g == Tail(f)
           line == Head(f)
<1>1. /\ g \in Seq(Lines) /\ line \in Lines /\ 1 \in 1..Len(f) /\ line = f[1]
      /\ \A i \in 1..Len(g) : i + 1 \in 1..Len(f) /\ 1 < i + 1 /\ g[i] = f[i + 1]
      /\ Thins(g, f)
  BY LinesLeft
<1> HIDE DEF g, line
<1>2. /\ Answer(line) /\ Matches(l, line) /\ r.pending = Without(l.pending, line.seq)
      /\ r.timeouts = 0 /\ (line.type = "ERROR" \/ line.result # "STALE" => r.seq = l.seq)
  BY DEF Over, line
<1>3. line.seq \in 1..SeqMax /\ line.seq \in PendingSeqs(l.pending)
  BY <1>1, <1>2, SeqOfLines DEF Matches
<1>4. /\ line.type = "ACK" => line.result = "ACCEPTED"
      /\ Ahead(l.seq, c.last_seq) <= Ahead(l.seq, line.seq)
      /\ \A j \in 1..Len(f) :
           1 < j /\ Answer(f[j]) => Ahead(l.seq, f[j].seq) <= Ahead(l.seq, line.seq)
  BY <1>1, <1>2 DEF InStep, GoodAnswers
<1>5. r.seq = l.seq
  BY <1>2, <1>4 DEF Answer
<1>6. ASSUME NEW y \in 1..SeqMax, Window(l, y), Ahead(l.seq, y) <= Ahead(l.seq, line.seq)
      PROVE  Window(r, y)
  BY <1>2, <1>3, <1>5, <1>6, WindowAnswered
<1>7. c.last_seq # 0 /\ Window(r, c.last_seq)
  <2>1. c.last_seq # 0 /\ c.last_seq \in 1..SeqMax /\ Window(l, c.last_seq)
    BY ConfigAssumption DEF InStep
  <2> QED BY <1>4, <1>6, <2>1
<1>8. InStep(l, g, q, c)
  <2>2. GoodCommands(l, q, c) /\ c.last_seq # 0 /\ Window(l, c.last_seq)
    BY DEF InStep
  <2>3. GoodAnswers(l, g, c)
    <3> SUFFICES ASSUME NEW i \in 1..Len(g), Answer(g[i])
                 PROVE  /\ Window(l, g[i].seq)
                        /\ g[i].type = "ACK" => g[i].result = "ACCEPTED"
                        /\ Ahead(l.seq, c.last_seq) <= Ahead(l.seq, g[i].seq)
                        /\ \A j \in 1..Len(g) : i < j /\ Answer(g[j])
                             => Ahead(l.seq, g[j].seq) <= Ahead(l.seq, g[i].seq)
      BY DEF GoodAnswers
    <3>1. i + 1 \in 1..Len(f) /\ g[i] = f[i + 1]
      BY <1>1
    <3>2. \A j \in 1..Len(g) : i < j => j + 1 \in 1..Len(f) /\ i + 1 < j + 1 /\ g[j] = f[j + 1]
      BY <1>1
    <3> QED BY <3>1, <3>2 DEF InStep, GoodAnswers
  <2> QED BY <2>2, <2>3 DEF InStep
<1>9. GoodAnswers(r, g, c)
  <2>1. ASSUME NEW i \in 1..Len(g), Answer(g[i]) PROVE Window(r, g[i].seq)
    <3>1. g[i] \in Lines /\ Window(l, g[i].seq) /\ Ahead(l.seq, g[i].seq) <= Ahead(l.seq, line.seq)
      BY <1>1, <1>4, <1>8, <2>1, ElementOfSeq DEF InStep, GoodAnswers
    <3> QED BY <1>6, <2>1, <3>1, SeqOfLines
  <2> QED BY <1>5, <1>8, <2>1 DEF InStep, GoodAnswers
<1>10. GoodCommands(r, q, c)
  BY <1>5 DEF InStep, GoodCommands
<1> QED BY <1>7, <1>9, <1>10 DEF InStep, g

LEMMA UnmovedKeeps ==
  ASSUME NEW l, LinkOK(l), NEW f \in Seq(Lines), f # <<>>, NEW q \in Seq(Frames), NEW c,
         NEW n \in Int, NEW r, Unmoved(l, Head(f), r)
  PROVE  /\ InStep(l, f, q, c) => InStep(r, Tail(f), q, c)
         /\ Pinging(l, f, q, c, n) => Pinging(r, Tail(f), q, c, n)
<1> DEFINE g == Tail(f)
           line == Head(f)
<1>1. /\ g \in Seq(Lines) /\ line \in Lines /\ 1 \in 1..Len(f) /\ line = f[1] /\ Thins(g, f)
      /\ \A i \in 1..Len(f) : i # 1 => i - 1 \in 1..Len(g) /\ g[i - 1] = f[i]
  BY LinesLeft
<1>2. Thins(q, q)
  BY ThinsSame
<1>3. (Answer(line) => ~Matches(l, line)) /\ SameClaims(l, r) /\ SameEsp(c, c)
  BY DEF Unmoved, SameEsp
<1> HIDE DEF g, line
<1>4. ASSUME InStep(l, f, q, c) PROVE InStep(r, g, q, c)
  <2>1. InStep(l, g, q, c)
    BY <1>1, <1>2, <1>4, InStepThins
  <2> QED BY <1>3, <2>1, InStepSame DEF SameClaims
<1>5. ASSUME Pinging(l, f, q, c, n) PROVE Pinging(r, g, q, c, n)
  <2>1. ASSUME l.ping_seq \in Seqs(f, q) PROVE l.ping_seq \in Seqs(g, q)
    <3>1. CASE \E i \in 1..Len(q) : q[i].seq = l.ping_seq
      BY <3>1 DEF Seqs
    <3>2. CASE \E i \in 1..Len(f) : Answer(f[i]) /\ f[i].seq = l.ping_seq
      <4>1. PICK i \in 1..Len(f) : Answer(f[i]) /\ f[i].seq = l.ping_seq
        BY <3>2
      <4>2. i # 1
        <5> SUFFICES ASSUME i = 1 PROVE FALSE
          OBVIOUS
        <5>1. Answer(line) /\ line.seq = l.ping_seq
          BY <1>1, <4>1
        <5>2. l.ping_seq # 0
          BY <1>1, <5>1, SeqOfLines
        <5>3. l.pending = <<[seq |-> l.ping_seq, cmd |-> "PING"]>>
          BY <1>5, <5>2 DEF Pinging, Awaiting
        <5>4. l.ping_seq \in PendingSeqs(l.pending)
          BY <5>3 DEF PendingSeqs
        <5> QED BY <1>3, <5>1, <5>4 DEF Matches
      <4>3. i - 1 \in 1..Len(g) /\ g[i - 1] = f[i]
        BY <1>1, <4>2
      <4> QED BY <4>1, <4>3 DEF Seqs
    <3> QED BY <2>1, <3>1, <3>2 DEF Seqs
  <2>2. Pinging(l, g, q, c, n)
    BY <1>1, <1>2, <1>5, <2>1, PingingLeft DEF LinkOK
  <2> QED BY <1>3, <2>2, PingingSame
<1> QED BY <1>4, <1>5 DEF g

LEMMA PingAnswered ==
  ASSUME NEW l, LinkOK(l), NEW f \in Seq(Lines), f # <<>>, NEW q \in Seq(Frames), NEW c,
         NEW n, NEW r, LinkOK(r), PingOver(l, Head(f), r), Pinging(l, f, q, c, n)
  PROVE  /\ q = <<>> /\ \A i \in 1..Len(Tail(f)) : ~Answer(Tail(f)[i])
         /\ \A m : Pinging(r, Tail(f), q, c, m)
         /\ /\ Proves(l, Head(f)) /\ Head(f).boot = c.boot /\ r.seq = l.seq
            => InStep(r, Tail(f), q, c)
<1> DEFINE g == Tail(f)
           line == Head(f)
<1>1. /\ g \in Seq(Lines) /\ line \in Lines /\ 1 \in 1..Len(f) /\ line = f[1]
      /\ \A i \in 1..Len(g) : i + 1 \in 1..Len(f) /\ 1 < i + 1 /\ g[i] = f[i + 1]
  BY LinesLeft
<1>2. /\ Answer(line) /\ line.seq = l.ping_seq /\ r.ping_seq = 0
      /\ r.pending = Without(l.pending, line.seq)
  BY DEF PingOver
<1> HIDE DEF g, line
<1>3. l.ping_seq \in 1..SeqMax /\ l.ping_seq # 0 /\ l.ping_seq = l.seq
      /\ l.pending = <<[seq |-> l.ping_seq, cmd |-> "PING"]>>
  BY <1>1, <1>2, SeqOfLines DEF Pinging, Awaiting
<1>4. /\ q = <<>> /\ \A j \in 1..Len(f) : 1 < j => ~Answer(f[j])
      /\ line.type = "ACK" /\ line.result = "ACCEPTED" /\ line.boot = c.boot
           => c.last_seq = l.ping_seq
  BY <1>1, <1>2 DEF Pinging, AnswerIsLast
<1>5. \A i \in 1..Len(g) : ~Answer(g[i])
  BY <1>1, <1>4
<1>6. r.pending = <<>>
  <2> DEFINE p == l.pending
             places == {i \in DOMAIN p : p[i].seq = line.seq}
             place == CHOOSE i \in places : TRUE
  <2>1. places = {1} /\ Len(p) = 1
    BY <1>2, <1>3
  <2>2. place = 1
    BY <2>1
  <2>3. Without(p, line.seq) = SubSeq(p, 1, place - 1) \o SubSeq(p, place + 1, Len(p))
    BY <2>1 DEF Without
  <2> HIDE DEF place, p, places
  <2>4. SubSeq(p, 1, 0) = <<>> /\ SubSeq(p, 2, 1) = <<>>
    OBVIOUS
  <2>5. Without(p, line.seq) = <<>>
    BY <2>1, <2>2, <2>3, <2>4, Joining
  <2> QED BY <1>2, <2>5 DEF p
<1>7. Seqs(g, q) = {}
  <2>1. \A i \in 1..Len(q) : FALSE
    BY <1>4
  <2> QED BY <1>5, <2>1 DEF Seqs
<1>8. \A m : Pinging(r, g, q, c, m)
  BY <1>2, <1>6, <1>7, NothingAwaited
<1>9. ASSUME Proves(l, line), line.boot = c.boot, r.seq = l.seq PROVE InStep(r, g, q, c)
  <2>1. c.last_seq = l.ping_seq /\ c.last_seq # 0
    BY <1>3, <1>4, <1>9 DEF Proves
  <2>2. Ahead(r.seq, c.last_seq) = 0
    BY <1>3, <1>9, <2>1, AheadRange
  <2>3. Window(r, c.last_seq)
    <3>1. Len(r.pending) = 0
      BY <1>6
    <3>2. MaxTimeouts \in Nat \ {0} /\ MaxPending \in Nat \ {0}
      BY ConfigAssumption
    <3>3. r.timeouts \in 0..MaxTimeouts
      BY DEF LinkOK, LinkTypes
    <3>4. 0 < MaxTimeouts + MaxPending
      BY <3>2
    <3>5. 0 <= r.timeouts + 0
      BY <3>2, <3>3
    <3> QED BY <2>2, <3>1, <3>4, <3>5 DEF Window
  <2>4. GoodAnswers(r, g, c)
    BY <1>5 DEF GoodAnswers
  <2>5. GoodCommands(r, q, c)
    BY <1>4 DEF GoodCommands
  <2> QED BY <2>1, <2>3, <2>4, <2>5 DEF InStep
<1> QED BY <1>4, <1>5, <1>8, <1>9 DEF g, line

\* One line after the other, whatever the handlers do with it.
LEMMA LineNumbered ==
  ASSUME NEW l, LinkOK(l), NEW r, LinkOK(r), NEW f \in Seq(Lines), f # <<>>,
         NEW q \in Seq(Frames), NEW b, NEW c, c.last_seq \in 0..SeqMax, NEW n \in Int,
         l.port_open, Turned(l, Head(f), r),
         r.port_open /\ ~r.stopping /\ r.status = "UP" => r.timeouts < MaxTimeouts,
         Past(f, q, b, c), Proven(l, b, c) => InStep(l, f, q, c),
         Fresh(l) => Pinging(l, f, q, c, n), Settled(l, <<>>)
  PROVE  LET e == IF Proves(l, Head(f)) THEN Head(f).boot ELSE b
         IN /\ Past(Tail(f), q, e, c)
            /\ Proven(r, e, c) => InStep(r, Tail(f), q, c)
            /\ Fresh(r) => Pinging(r, Tail(f), q, c, n)
            /\ Settled(r, <<>>)
<1> DEFINE g == Tail(f)
           line == Head(f)
           e == IF Proves(l, line) THEN line.boot ELSE b
           Kept == /\ Proven(r, e, c) => InStep(r, g, q, c)
                   /\ Fresh(r) => Pinging(r, g, q, c, n)
                   /\ Settled(r, <<>>)
<1>1. g \in Seq(Lines) /\ line \in Lines /\ Thins(g, f) /\ Thins(q, q) /\ line = f[1]
      /\ 1 \in 1..Len(f)
  BY LinesLeft, ThinsSame
<1>2. Past(g, q, e, c)
  <2>1. Past(g, q, b, c) /\ line.boot <= c.boot
    BY <1>1, PastThins DEF Past
  <2> QED BY <2>1 DEF Past
<1>3. /\ l.last_uptime = NoUptime => ~l.seq_synced
      /\ l.bidirectional => l.ping_seq = 0 /\ l.seq_synced
      /\ l.reboot_latched => l.pending = <<>> /\ l.ping_seq = 0 /\ ~l.bidirectional
      /\ r.port_open = l.port_open
  BY DEF Settled, LinkOK, Sane, Turned
<1>4. Answer(line) => line.seq # 0
  BY <1>1, SeqOfLines
<1>5. ASSUME Latched(r) PROVE Kept
  BY <1>5 DEF Latched, Proven, Fresh, Settled
<1>6. ASSUME Synced(l, r) PROVE Kept
  <2>1. ~l.bidirectional /\ ~r.bidirectional
    BY <1>3, <1>6 DEF Synced
  <2>2. ASSUME Fresh(r) PROVE Pinging(r, g, q, c, n)
    <3>1. Fresh(l)
      BY <1>6, <2>1, <2>2 DEF Synced, Fresh
    <3>2. Seqs(f, q) = {} /\ r.ping_seq = 0 /\ r.pending = <<>>
      BY <1>6, <3>1 DEF Synced, Pinging, Awaiting
    <3>3. Seqs(g, q) = {}
      BY <1>1, <3>2, SeqsThin
    <3> QED BY <3>2, <3>3, NothingAwaited
  <2>3. Settled(r, <<>>)
    BY <1>3, <1>6, <2>1 DEF Synced, Settled
  <2> QED BY <2>1, <2>2, <2>3 DEF Proven
<1>7. ASSUME Unmoved(l, line, r) PROVE Kept
  <2>1. ~Proves(l, line) /\ e = b
    BY <1>7 DEF Unmoved, Proves, AnswersPing, Answer
  <2>2. Proven(r, b, c) => Proven(l, b, c)
    BY <1>3, <1>7 DEF Unmoved, Proven
  <2>3. Fresh(r) => Fresh(l)
    BY <1>3, <1>7 DEF Unmoved, Fresh
  <2>4. /\ InStep(l, f, q, c) => InStep(r, g, q, c)
        /\ Pinging(l, f, q, c, n) => Pinging(r, g, q, c, n)
    BY <1>7, UnmovedKeeps
  <2>5. Settled(r, <<>>)
    BY <1>3, <1>7 DEF Unmoved, SameClaims, SameNumbers, Settled
  <2> QED BY <2>1, <2>2, <2>3, <2>4, <2>5
<1>8. ASSUME Over(l, line, r) PROVE Kept
  <2>1. /\ Answer(line) /\ Matches(l, line) /\ ~AnswersPing(l, line)
        /\ Alike(l, r) /\ r.proto_problem = l.proto_problem /\ r.bidirectional = l.bidirectional
        /\ r.ping_seq = l.ping_seq
    BY <1>8 DEF Over
  <2>2. ~Proves(l, line) /\ e = b
    BY <2>1 DEF Proves
  <2>3. l.pending # <<>>
    BY <2>1 DEF Matches, PendingSeqs
  <2>4. ~Fresh(r)
    <3> SUFFICES ASSUME Fresh(r) PROVE FALSE
      OBVIOUS
    <3>1. Fresh(l)
      BY <1>3, <2>1 DEF Fresh, Alike
    <3>2. l.pending = <<[seq |-> l.ping_seq, cmd |-> "PING"]>>
      BY <2>3, <3>1 DEF Pinging, Awaiting
    <3>3. line.seq = l.ping_seq
      BY <2>1, <3>2 DEF Matches, PendingSeqs
    <3>4. EntryOf(l, line) = [seq |-> l.ping_seq, cmd |-> "PING"]
      <4>1. DOMAIN l.pending = {1} /\ l.pending[1] = [seq |-> l.ping_seq, cmd |-> "PING"]
        BY <3>2
      <4>2. \A i \in DOMAIN l.pending : l.pending[i] = [seq |-> l.ping_seq, cmd |-> "PING"]
        BY <4>1
      <4>3. \E i \in DOMAIN l.pending : l.pending[i].seq = line.seq
        BY <2>1 DEF Matches, PendingSeqs
      <4>4. (CHOOSE i \in DOMAIN l.pending : l.pending[i].seq = line.seq) \in DOMAIN l.pending
        BY <4>3
      <4> QED BY <4>2, <4>4 DEF EntryOf
    <3>5. EntryOf(l, line).cmd = "PING"
      BY <3>4
    <3> QED BY <2>1, <3>3, <3>5 DEF AnswersPing
  <2>5. Proven(r, b, c) => InStep(r, g, q, c)
    <3>1. Proven(r, b, c) => Proven(l, b, c)
      BY <1>3, <2>1 DEF Proven
    <3> QED BY <1>8, <3>1, OverInStep
  <2>6. Settled(r, <<>>)
    BY <1>3, <2>1, <2>3 DEF Settled, Alike
  <2> QED BY <2>2, <2>4, <2>5, <2>6
<1>9. ASSUME PingOver(l, line, r) PROVE Kept
  <2>1. /\ Answer(line) /\ line.seq = l.ping_seq /\ Alike(l, r) /\ r.ping_seq = 0
        /\ l.proto_problem => r.proto_problem
        /\ r.bidirectional => \/ l.bidirectional
                              \/ Proves(l, line) /\ ~r.proto_problem /\ r.seq = l.seq
    BY <1>9 DEF PingOver
  <2>2. l.ping_seq # 0 /\ ~l.bidirectional /\ ~l.reboot_latched /\ ~r.reboot_latched
    BY <1>3, <1>4, <2>1 DEF Alike
  <2>3. ~r.proto_problem => Fresh(l)
    BY <2>1, <2>2 DEF Fresh
  <2>4. Fresh(l) =>
          /\ Pinging(r, g, q, c, n)
          /\ Proves(l, line) /\ line.boot = c.boot /\ r.seq = l.seq => InStep(r, g, q, c)
          /\ l.seq_synced
    <3> SUFFICES ASSUME Fresh(l)
                 PROVE  /\ Pinging(r, g, q, c, n)
                        /\ Proves(l, line) /\ line.boot = c.boot /\ r.seq = l.seq
                             => InStep(r, g, q, c)
                        /\ l.seq_synced
      OBVIOUS
    <3>1. Pinging(l, f, q, c, n)
      OBVIOUS
    <3>2. l.seq_synced
      BY <2>2, <3>1 DEF Pinging
    <3> HIDE DEF g, line
    <3>3. /\ \A m : Pinging(r, g, q, c, m)
          /\ Proves(l, line) /\ line.boot = c.boot /\ r.seq = l.seq => InStep(r, g, q, c)
      BY <1>9, <3>1, PingAnswered DEF g, line
    <3> QED BY <3>2, <3>3
  <2>5. ASSUME Proven(r, e, c) PROVE InStep(r, g, q, c)
    <3>1. Proves(l, line) /\ ~r.proto_problem /\ r.seq = l.seq /\ e = line.boot /\ e = c.boot
      BY <2>1, <2>2, <2>5 DEF Proven
    <3> QED BY <2>3, <2>4, <3>1
  <2>6. ASSUME Fresh(r) PROVE Pinging(r, g, q, c, n)
    BY <2>3, <2>4, <2>6 DEF Fresh
  <2>7. Settled(r, <<>>)
    BY <1>3, <2>1, <2>2, <2>3, <2>4 DEF Settled, Alike
  <2> QED BY <2>5, <2>6, <2>7
<1>10. Kept
  <2> HIDE DEF Kept
  <2> QED BY <1>5, <1>6, <1>7, <1>8, <1>9 DEF Turned, Kept
<1> QED BY <1>2, <1>10

(***************************************************************************)
(* The steps of the I/O thread.                                            *)
(***************************************************************************)
LEMMA NothingOut ==
  ASSUME IInv, io.pc \notin {"write", "final"} PROVE io.out = <<>>
  BY DEF IInv, IOInv

LEMMA HandleLineNumbers == ASSUME IInv, Typed, Numbered, HandleLine PROVE Numbered'
<1> DEFINE line == Head(io.lines)
<1>1. /\ Typed' /\ line \in Lines
  BY HandleLineTyped
<1>2. /\ io.pc = "lines" /\ io.lines # <<>> /\ io.lines \in Seq(Lines) /\ toPi \in Seq(Lines)
      /\ toEsp' = toEsp /\ toPi' = toPi /\ ctl' = ctl /\ faults' = faults
      /\ io'.lines = Tail(io.lines) /\ io'.out = io.out /\ link' = Handled(link, line)
  BY DEF HandleLine, SameWorld, Typed, IOTyped, WorldTyped
<1>3. hist'.proof.boot = IF Proves(link, line) THEN line.boot ELSE hist.proof.boot
  <2>1. hist' = [hist EXCEPT !.heard = line.boot,
                   !.proof = IF Proves(link, line) THEN [conn |-> line.conn, boot |-> line.boot]
                             ELSE @]
    BY DEF HandleLine, Proves
  <2> HIDE DEF line
  <2> QED BY <2>1 DEF Typed, WorldTyped, HistTypes
<1>4. io.out = <<>> /\ link.port_open
  BY <1>2, NothingOut DEF Typed, PortAgrees, OpenPcs
<1>5. Flow' = Tail(Flow) /\ Head(Flow) = line /\ Flow # <<>> /\ Queue' = Queue
  BY <1>2, JoinedSame DEF Flow, Queue
<1>6. Flow \in Seq(Lines) /\ Queue \in Seq(Frames)
  BY UnderWayTyped
<1>7. LinkOK(link) /\ LinkOK(link') /\ ctl.last_seq \in 0..SeqMax /\ faults + ctl.boot \in Int
  BY <1>1 DEF Typed, WorldTyped, Boots
<1>8. Settled(link, <<>>) /\ (link.last_uptime = NoUptime => ~link.seq_synced)
  BY <1>4 DEF Numbered, Settled
<1>9. /\ Turned(link, line, link')
      /\ link'.port_open /\ ~link'.stopping /\ link'.status = "UP" => link'.timeouts < MaxTimeouts
  BY <1>1, <1>2, <1>7, <1>8, HandledTurns
<1> HIDE DEF line
<1> DEFINE f == Flow
           q == Queue
           b == hist.proof.boot
           e == hist'.proof.boot
           n == faults + ctl.boot
<1>10. Past(f, q, b, ctl) /\ (Proven(link, b, ctl) => InStep(link, f, q, ctl))
       /\ (Fresh(link) => Pinging(link, f, q, ctl, n)) /\ Lined(q, ctl)
  BY DEF Numbered
<1> HIDE DEF f, q, b, e, n
<1>11. /\ Past(Tail(f), q, e, ctl)
       /\ Proven(link', e, ctl) => InStep(link', Tail(f), q, ctl)
       /\ Fresh(link') => Pinging(link', Tail(f), q, ctl, n)
       /\ Settled(link', <<>>)
  <2>1. f \in Seq(Lines) /\ f # <<>> /\ q \in Seq(Frames) /\ n \in Int /\ Head(f) = line
    BY <1>5, <1>6, <1>7 DEF f, q, n
  <2>2. e = IF Proves(link, Head(f)) THEN Head(f).boot ELSE b
    BY <1>3, <2>1 DEF e, b
  <2> QED BY <1>4, <1>7, <1>8, <1>9, <1>10, <2>1, <2>2, LineNumbered
<1>12. Flow' = Tail(f) /\ Queue' = q /\ faults' + ctl'.boot = n /\ io'.out = <<>>
  BY <1>2, <1>4, <1>5 DEF f, q, n
<1> QED BY <1>2, <1>10, <1>11, <1>12 DEF Numbered, e

\* A step that moves lines and frames along, and nothing else.
LEMMA MovedOn ==
  ASSUME Numbered, Flow' = Flow, Queue' = Queue, ctl' = ctl, link' = link, faults' = faults,
         hist'.proof = hist.proof, io.out = <<>> => io'.out = <<>>
  PROVE  Numbered'
  BY DEF Numbered, Settled

LEMMA ReadNumbers == ASSUME Typed, IInv, Numbered, Read PROVE Numbered'
<1>1. PICK n \in 0..Len(toPi) :
        /\ io' = [io EXCEPT !.pc = "lines", !.lines = SubSeq(toPi, 1, n)]
        /\ toPi' = SubSeq(toPi, n + 1, Len(toPi))
  BY DEF Read
<1>2. /\ link' = link /\ toEsp' = toEsp /\ hist' = hist /\ ctl' = ctl /\ faults' = faults
      /\ io.pc # "lines"
  BY DEF Read, AtLoopTop, SameWorld
<1>3. io'.lines = SubSeq(toPi, 1, n) /\ io'.out = io.out /\ io.lines = <<>>
      /\ toPi \in Seq(Lines)
  BY <1>1, <1>2 DEF Typed, IOTyped, LinesOnlyInLines, WorldTyped
<1>4. Flow' = Flow
  <2>1. <<>> \o toPi = toPi /\ SubSeq(toPi, 1, n) \o SubSeq(toPi, n + 1, Len(toPi)) = toPi
    BY <1>3, JoinedSame
  <2> QED BY <1>1, <1>3, <2>1 DEF Flow
<1>5. Queue' = Queue
  BY <1>2, <1>3 DEF Queue
<1> QED BY <1>2, <1>3, <1>4, <1>5, MovedOn

LEMMA WriteNumbers == ASSUME Typed, IInv, Numbered, Write PROVE Numbered'
<1>1. /\ io.out # <<>> /\ io.out \in Seq(Frames) /\ io'.out = Tail(io.out)
      /\ io.lines = <<>> /\ io'.lines = <<>> /\ toEsp \in Seq(Frames)
      /\ UNCHANGED <<link, toPi, hist, ctl, faults>>
      /\ toEsp' = Append(toEsp, Head(io.out))
  BY WriteTyped DEF Write, SameWorld, Typed, WorldTyped
<1>2. Queue' = Queue
  <2>1. Append(toEsp, Head(io.out)) \o Tail(io.out) = toEsp \o io.out
    <3>1. \A s, t \in Seq(Frames) : t # <<>> => Append(s, Head(t)) \o Tail(t) = s \o t
      BY JoinedSame
    <3> QED BY <1>1, <3>1
  <2> QED BY <1>1, <2>1 DEF Queue
<1>3. Flow' = Flow
  BY <1>1 DEF Flow
<1> QED BY <1>1, <1>2, <1>3, MovedOn

LEMMA ThinsNothing == ASSUME NEW s PROVE Thins(<<>>, s)
<1> DEFINE e == [i \in {} |-> 1]
<1>1. 1..Len(<<>>) = {} /\ e \in [{} -> 1..Len(s)]
  OBVIOUS
<1> HIDE DEF e
<1> QED BY <1>1 DEF Thins

LEMMA LostNumbers == ASSUME Typed, IInv, Numbered, Lost PROVE Numbered'
<1>1. link' = [ResetConnection(link) EXCEPT !.port_open = FALSE, !.status = "DISCONNECTED"]
      /\ io' = [io EXCEPT !.pc = "closed", !.out = <<>>]
      /\ toPi' = <<>> /\ UNCHANGED <<toEsp, ctl, hist>> /\ io.pc # "lines"
  BY DEF Lost, AtLoopTop
<1>2. /\ link'.pending = <<>> /\ ~link'.bidirectional /\ link'.ping_seq = 0
      /\ ~link'.seq_synced /\ ~link'.port_open
  <2>1. link \in LinkTypes
    BY DEF Typed, LinkOK
  <2> QED BY <1>1, <2>1 DEF ResetConnection, LinkTypes
<1>3. io'.out = <<>> /\ io'.lines = <<>> /\ toEsp \in Seq(Frames) /\ io.out \in Seq(Frames)
  BY <1>1 DEF Typed, IOTyped, WorldTyped, LinesOnlyInLines
<1>4. Queue' = toEsp /\ Flow' = <<>>
  BY <1>1, <1>3, JoinedSame, Joining DEF Queue, Flow
<1>5. Thins(toEsp, Queue) /\ Len(toEsp) \in Nat /\ Len(Queue) \in Nat
  BY <1>3, ThinsParts, LenProperties, UnderWayTyped DEF Queue
<1>6. Thins(<<>>, Flow)
  BY ThinsNothing
<1>7. Lined(toEsp, ctl) /\ Past(<<>>, toEsp, hist.proof.boot, ctl)
  BY <1>5, <1>6, LinedThins, PastThins DEF Numbered
<1>8. Settled(link', io'.out)
  BY <1>2, <1>3 DEF Settled
<1> QED BY <1>1, <1>2, <1>4, <1>7, <1>8 DEF Numbered, Proven, Fresh

LEMMA OpenNumbers == ASSUME Typed, IInv, Connected, Numbered, Open PROVE Numbered'
<1>1. /\ toPi' = <<>> /\ toEsp' = <<>> /\ ctl' = ctl /\ faults' = faults
      /\ io'.out = <<>> /\ io'.lines = <<>> /\ hist'.proof = hist.proof
  <2>1. io.pc = "closed" /\ ~link.port_open /\ io.lines = <<>> /\ io.out = <<>>
    BY NothingOut DEF Open, Typed, PortAgrees, OpenPcs, LinesOnlyInLines
  <2>2. toPi = <<>> /\ toEsp = <<>>
    BY <2>1 DEF Connected, Open
  <2> QED BY <2>1, <2>2 DEF Open, SameWorld, Typed, IOTyped, WorldTyped, HistTypes
<1>2. link' = [ResetConnection(link) EXCEPT !.port_open = TRUE, !.status = "CONNECTING"]
  BY DEF Open
<1>3. /\ link'.pending = <<>> /\ ~link'.bidirectional /\ link'.ping_seq = 0
      /\ ~link'.seq_synced /\ link'.port_open /\ link'.timeouts = 0
  <2>1. link \in LinkTypes
    BY DEF Typed, LinkOK
  <2> QED BY <1>2, <2>1 DEF ResetConnection, LinkTypes
<1>4. Queue' = <<>> /\ Flow' = <<>>
  BY <1>1, Joining DEF Queue, Flow
<1>5. Seqs(<<>>, <<>>) = {}
  BY DEF Seqs
<1>6. \A n : Pinging(link', <<>>, <<>>, ctl, n)
  BY <1>3, <1>5, NothingAwaited
<1>7. Lined(<<>>, ctl) /\ Past(<<>>, <<>>, hist.proof.boot, ctl)
  BY DEF Lined, Past, Numbered
<1>8. Settled(link', <<>>)
  BY <1>3, ConfigAssumption DEF Settled
<1> QED BY <1>1, <1>3, <1>4, <1>6, <1>7, <1>8 DEF Numbered, Proven

(***************************************************************************)
(* The oldest commands are given up.                                       *)
(***************************************************************************)
Expired(l, n, r) ==
  /\ r.seq = l.seq /\ r.pending = SubSeq(l.pending, n + 1, Len(l.pending))
  /\ r.timeouts = IF l.timeouts + n > MaxTimeouts THEN MaxTimeouts ELSE l.timeouts + n
  /\ r.ping_seq = IF l.ping_seq \in {l.pending[i].seq : i \in 1..n} THEN 0 ELSE l.ping_seq
  /\ Alike(l, r) /\ r.bidirectional = l.bidirectional /\ r.proto_problem = l.proto_problem
  /\ r.port_open = l.port_open

LEMMA ExpiredInStep ==
  ASSUME NEW l, LinkOK(l), NEW n \in 0..Len(l.pending), NEW r, Expired(l, n, r),
         NEW f \in Seq(Lines), NEW q, NEW c, c.last_seq \in 0..SeqMax, InStep(l, f, q, c)
  PROVE  InStep(r, f, q, c)
<1>1. ASSUME NEW x \in 1..SeqMax, Window(l, x) PROVE Window(r, x)
  BY <1>1, WindowExpired DEF Expired
<1>2. r.seq = l.seq
  BY DEF Expired
<1>3. c.last_seq # 0 /\ Window(r, c.last_seq)
  <2>1. c.last_seq \in 1..SeqMax /\ Window(l, c.last_seq)
    BY ConfigAssumption DEF InStep
  <2> QED BY <1>1, <2>1
<1>4. GoodAnswers(r, f, c)
  <2>1. \A i \in 1..Len(f) : Answer(f[i]) => Window(r, f[i].seq)
    <3> SUFFICES ASSUME NEW i \in 1..Len(f), Answer(f[i]) PROVE Window(r, f[i].seq)
      OBVIOUS
    <3>1. Window(l, f[i].seq) /\ f[i] \in Lines
      BY ElementOfSeq DEF InStep, GoodAnswers
    <3> QED BY <1>1, <3>1, SeqOfLines
  <2> QED BY <1>2, <2>1 DEF InStep, GoodAnswers
<1>5. GoodCommands(r, q, c)
  BY <1>2 DEF InStep, GoodCommands
<1> QED BY <1>3, <1>4, <1>5 DEF InStep

\* The PING is given up: at the price of a fault, or when nothing more comes of it.
LEMMA ExpiredPinging ==
  ASSUME NEW l, LinkOK(l), NEW n \in 0..Len(l.pending), NEW r, Expired(l, n, r),
         NEW f \in Seq(Lines), NEW q \in Seq(Frames), NEW c, NEW a \in Int, NEW b \in Int,
         Pinging(l, f, q, c, a), b = a \/ b = a + 1,
         \A i \in 1..n : l.pending[i].seq \in Seqs(f, q) => b = a + 1
  PROVE  Pinging(r, f, q, c, b)
<1>0. /\ l \in LinkTypes /\ l.pending \in Seq(Entries) /\ l.timeouts \in 0..MaxTimeouts
      /\ MaxTimeouts \in Nat
  BY ConfigAssumption DEF LinkOK, LinkTypes
<1>1. Awaiting(l) /\ Spent(l, f, q, a)
  BY DEF Pinging
<1>2. \A x \in Seqs(f, q) : x # 0 /\ Ahead(l.seq, x) \in Int
  BY <1>0, SeqsTyped, AheadRange DEF LinkTypes
<1>3. CASE n = 0
  <2>1. SubSeq(l.pending, 1, Len(l.pending)) = l.pending
    BY <1>0, SubSeqFull
  <2>2. SameClaims(l, r) /\ SameEsp(c, c)
    BY <1>0, <1>3, <2>1 DEF Expired, Alike, SameClaims, SameNumbers, SameEsp
  <2>3. Pinging(l, f, q, c, b)
    <3>1. Thins(f, f) /\ Thins(q, q) /\ a <= b
      BY ThinsSame
    <3> QED BY <1>0, <3>1, PingingLeft
  <2> QED BY <2>2, <2>3, PingingSame
<1>4. CASE n # 0
  <2>1. /\ l.ping_seq # 0 /\ l.pending = <<[seq |-> l.ping_seq, cmd |-> "PING"]>>
        /\ n = 1
    <3>1. l.pending # <<>>
      BY <1>4
    <3>2. l.ping_seq # 0 /\ l.pending = <<[seq |-> l.ping_seq, cmd |-> "PING"]>>
      BY <1>1, <3>1 DEF Awaiting
    <3>3. Len(l.pending) = 1
      BY <3>2
    <3> QED BY <1>4, <3>2, <3>3
  <2>2. l.pending[1].seq = l.ping_seq /\ Len(l.pending) = 1
    BY <2>1
  <2>3. r.pending = <<>> /\ r.ping_seq = 0 /\ r.seq = l.seq /\ r.seq_synced = l.seq_synced
    <3>1. SubSeq(l.pending, 2, 1) = <<>>
      OBVIOUS
    <3>2. 1 \in 1..n /\ l.ping_seq \in {l.pending[i].seq : i \in 1..n}
      BY <2>1, <2>2
    <3> QED BY <2>1, <2>2, <3>1, <3>2 DEF Expired, Alike
  <2>4. Within(l, f, q, b) /\ Within(l, f, q, b - 1)
    <3>1. CASE l.ping_seq \in Seqs(f, q)
      <4>1. b = a + 1
        BY <2>1, <2>2, <3>1
      <4> QED BY <1>1, <1>2, <4>1 DEF Spent, Within
    <3>2. CASE l.ping_seq \notin Seqs(f, q)
      BY <1>1, <1>2, <3>2 DEF Spent, Within
    <3> QED BY <3>1, <3>2
  <2>5. Awaiting(r) /\ Spent(r, f, q, b)
    BY <2>3, <2>4 DEF Awaiting, Spent, Within
  <2>6. AnswerIsLast(r, f, q, c) /\ PingIsLast(r, q)
    BY <1>2, <2>3 DEF AnswerIsLast, PingIsLast, Seqs
  <2> QED BY <2>1, <2>3, <2>5, <2>6 DEF Pinging
<1> QED BY <1>3, <1>4

LEMMA TickExpires ==
  ASSUME Typed, NEW n \in 0..Len(link.pending), ExpirePending(n)
  PROVE  /\ Expired(link, n, link')
         /\ link'.port_open /\ ~link'.stopping /\ link'.status = "UP"
              => link'.timeouts < MaxTimeouts
<1> DEFINE gone == {link.pending[i].seq : i \in 1..n}
           p == SubSeq(link.pending, n + 1, Len(link.pending))
           t == IF link.timeouts + n > MaxTimeouts THEN MaxTimeouts ELSE link.timeouts + n
           s == IF link.ping_seq \in gone THEN 0 ELSE link.ping_seq
           l == [link EXCEPT !.pending = p, !.timeouts = t, !.ping_seq = s]
<1>1. link \in LinkTypes /\ PendingOK(link.pending) /\ Len(link.pending) \in Nat
  BY LenProperties DEF Typed, LinkOK, PendingOK
<1>2. p \in Seq(Entries)
  BY <1>1, ShortenOK DEF PendingOK
<1>3. t \in 0..MaxTimeouts /\ s \in 0..SeqMax
  BY <1>1, ConfigAssumption DEF LinkTypes
<1>4. link' = Refresh(l)
  BY DEF ExpirePending
<1> HIDE DEF p, t, s
<1>5. /\ l \in LinkTypes /\ l.pending = p /\ l.timeouts = t /\ l.ping_seq = s
      /\ l.seq = link.seq /\ l.bidirectional = link.bidirectional
      /\ l.proto_problem = link.proto_problem /\ l.port_open = link.port_open /\ Alike(link, l)
  BY <1>1, <1>2, <1>3 DEF LinkTypes, Alike
<1> HIDE DEF l
<1> DEFINE r == Refresh(l)
<1>6. /\ r \in LinkTypes /\ r = [l EXCEPT !.status = r.status]
      /\ r.port_open /\ ~r.stopping /\ r.status = "UP" => r.timeouts < MaxTimeouts
  BY <1>5, RefreshNumbers
<1> HIDE DEF r
<1>7. PICK st : r = [l EXCEPT !.status = st]
  BY <1>6
<1>8. /\ r.pending = p /\ r.timeouts = t /\ r.ping_seq = s
      /\ r.seq = link.seq /\ r.bidirectional = link.bidirectional
      /\ r.proto_problem = link.proto_problem /\ r.port_open = link.port_open /\ Alike(link, r)
  BY <1>5, <1>7 DEF LinkTypes, Alike
<1>9. link' = r
  BY <1>4 DEF r
<1> QED BY <1>6, <1>8, <1>9 DEF Expired, p, t, s

LEMMA TickNumbers == ASSUME Typed, IInv, Numbered, Tick PROVE Numbered'
<1>1. PICK n \in 0..Len(link.pending) : TickExpiring(n)
  BY DEF Tick
<1>2. /\ io.pc = "lines" /\ io.lines = <<>> /\ ExpirePending(n)
      /\ UNCHANGED <<toEsp, toPi, ctl, hist>> /\ io'.out = io.out /\ io'.lines = io.lines
  BY <1>1 DEF TickExpiring, Typed, IOTyped
<1>3. io.out = <<>>
  BY <1>2, NothingOut
<1>4. Flow' = Flow /\ Queue' = Queue
  BY <1>2 DEF Flow, Queue
<1>5. /\ Expired(link, n, link')
      /\ link'.port_open /\ ~link'.stopping /\ link'.status = "UP" => link'.timeouts < MaxTimeouts
  BY <1>2, TickExpires
<1>6. Flow \in Seq(Lines) /\ Queue \in Seq(Frames) /\ LinkOK(link) /\ ctl.last_seq \in 0..SeqMax
      /\ faults \in Int /\ ctl.boot \in Int /\ toPi \in Seq(Lines) /\ toEsp \in Seq(Frames)
  BY UnderWayTyped DEF Typed, WorldTyped, Boots
<1>7. faults' = faults \/ faults' = faults + 1
  BY <1>2 DEF ExpirePending, Fault
<1>8. \A i \in 1..n : link.pending[i].seq \in Seqs(Flow, Queue) => faults' = faults + 1
  <2> SUFFICES ASSUME NEW i \in 1..n, link.pending[i].seq \in Seqs(Flow, Queue)
               PROVE  faults' = faults + 1
    OBVIOUS
  <2>1. Flow = toPi /\ Queue = toEsp
    BY <1>2, <1>3, <1>6, JoinedSame DEF Flow, Queue
  <2>2. DOMAIN toPi = 1..Len(toPi) /\ DOMAIN toEsp = 1..Len(toEsp)
    BY <1>6, LenProperties
  <2>3. UnderWay(link.pending[i].seq)
    BY <2>1, <2>2 DEF Seqs, UnderWay, Answer
  <2> QED BY <1>2, <2>3 DEF ExpirePending, Fault
<1>9. Proven(link', hist.proof.boot, ctl) => InStep(link', Flow, Queue, ctl)
  <2>1. Proven(link', hist.proof.boot, ctl) => Proven(link, hist.proof.boot, ctl)
    BY <1>5 DEF Proven, Expired
  <2> QED BY <1>5, <1>6, <2>1, ExpiredInStep DEF Numbered
<1>10. Fresh(link') => Pinging(link', Flow, Queue, ctl, faults' + ctl.boot)
  <2> SUFFICES ASSUME Fresh(link')
               PROVE  Pinging(link', Flow, Queue, ctl, faults' + ctl.boot)
    OBVIOUS
  <2>1. Fresh(link)
    BY <1>5 DEF Fresh, Expired, Alike
  <2> DEFINE a == faults + ctl.boot
             b == faults' + ctl.boot
  <2>2. a \in Int /\ b \in Int /\ (b = a \/ b = a + 1) /\ (faults' = faults + 1 => b = a + 1)
    BY <1>6, <1>7
  <2>3. Pinging(link, Flow, Queue, ctl, a)
    BY <2>1 DEF Numbered
  <2> HIDE DEF a, b
  <2>4. \A i \in 1..n : link.pending[i].seq \in Seqs(Flow, Queue) => b = a + 1
    BY <1>8, <2>2
  <2>5. Pinging(link', Flow, Queue, ctl, b)
    BY <1>5, <1>6, <2>2, <2>3, <2>4, ExpiredPinging
  <2> QED BY <2>5 DEF b
<1>11. Settled(link', io'.out)
  <2>1. link.pending = <<>> => link'.pending = <<>>
    <3> SUFFICES ASSUME link.pending = <<>> PROVE link'.pending = <<>>
      OBVIOUS
    <3>1. n = 0 /\ SubSeq(<<>>, 1, 0) = <<>>
      OBVIOUS
    <3> QED BY <1>5, <3>1 DEF Expired
  <2> QED BY <1>2, <1>3, <1>5, <2>1 DEF Numbered, Settled, Expired, Alike
<1> QED BY <1>2, <1>4, <1>9, <1>10, <1>11 DEF Numbered

(***************************************************************************)
(* A command is sent.                                                      *)
(***************************************************************************)
LEMMA OneMore ==
  ASSUME NEW s \in Seq(Frames), NEW x \in Frames PROVE s \o <<x>> = Append(s, x)
<1>1. \A y \in Frames : s \o Append(<<>>, y) = Append(s \o <<>>, y)
  BY JoinedSame
<1>2. Append(<<>>, x) = <<x>> /\ s \o <<>> = s
  BY JoinedSame
<1> QED BY <1>1, <1>2

LEMMA PastSent ==
  ASSUME NEW f, NEW q \in Seq(Frames), NEW b, NEW c, Past(f, q, b, c), NEW x \in Frames,
         x.boot = b
  PROVE  Past(f, Append(q, x), b, c)
<1> DEFINE t == Append(q, x)
<1>1. /\ Len(q) \in Nat /\ Len(t) = Len(q) + 1
      /\ \A i \in 1..Len(q) : t[i] = q[i]
      /\ t[Len(q) + 1] = x
  BY AppendedFrames
<1> HIDE DEF t
<1>2. \A i \in 1..Len(t) : (i \in 1..Len(q) /\ t[i] = q[i]) \/ t[i] = x
  BY <1>1
<1> QED BY <1>2 DEF Past, t

\* What Transmit does to the numbers: at most one command of the two is sent.
LEMMA TransmitSends ==
  ASSUME IInv, Typed, Numbered, Transmit
  PROVE  /\ link.port_open /\ io.out = <<>> /\ io.lines = <<>> /\ io'.lines = <<>>
         /\ UNCHANGED <<toEsp, toPi, ctl, faults>> /\ hist'.proof = hist.proof
         /\ LinkOK(link')
         /\ link'.bidirectional = link.bidirectional /\ link'.proto_problem = link.proto_problem
         /\ link'.timeouts = link.timeouts /\ link'.status = link.status
         /\ link'.stopping = link.stopping /\ link'.port_open = link.port_open
         /\ Alike(link, link')
         /\ \/ io'.out = <<>> /\ SameClaims(link, link')
            \/ \E x \in Frames :
                 /\ io'.out = <<x>> /\ x.seq = NextSeq(link.seq) /\ x.boot = hist.proof.boot
                 /\ ~link.reboot_latched /\ Len(link.pending) < MaxPending
                 /\ link'.seq = NextSeq(link.seq)
                 /\ \/ /\ ~link.bidirectional /\ ~link.proto_problem /\ link.seq_synced
                       /\ x.cmd = "PING" /\ link.ping_seq = 0
                       /\ link'.ping_seq = NextSeq(link.seq)
                       /\ link'.pending = Put(link.pending, NextSeq(link.seq), "PING")
                    \/ /\ link.bidirectional /\ link.timeouts < MaxTimeouts
                       /\ x.cmd \in Motion /\ link'.ping_seq = link.ping_seq
                       /\ link'.pending = Put(link.pending, NextSeq(link.seq), x.cmd)
<1> DEFINE pinged == WithPing(link)
           pf == Frame(link, "PING", hist.conn)
           mf == Frame(pinged, link.slot.cmd, link.slot.conn)
           ping == IF PingWanted(link) THEN <<pf>> ELSE <<>>
           motion == IF MotionWanted(pinged) THEN <<mf>> ELSE <<>>
           sq == NextSeq(link.seq)
           pp == Put(link.pending, sq, "PING")
           mp == Put(link.pending, sq, link.slot.cmd)
<1>1. /\ link' = WithMotion(pinged)
      /\ io' = [io EXCEPT !.pc = IF ping \o motion = <<>> THEN "poll" ELSE "write",
                          !.out = ping \o motion]
      /\ hist' = [hist EXCEPT !.unsent = IF motion # <<>> THEN "none" ELSE @]
      /\ io.pc = "transmit" /\ UNCHANGED <<toEsp, toPi, ctl, faults>>
  BY DEF Transmit, SameWorld
<1>2. /\ link.port_open /\ io.out = <<>> /\ io.lines = <<>>
      /\ link \in LinkTypes /\ hist \in HistTypes
      /\ link.slot.cmd \in Motion \/ link.slot = NoSlot
  BY <1>1, NothingOut DEF Typed, PortAgrees, OpenPcs, LinesOnlyInLines, LinkOK, LinkTypes,
                          SlotTypes, WorldTyped
<1>3. io'.out = ping \o motion /\ io'.lines = <<>> /\ hist'.proof = hist.proof
  <2> HIDE DEF ping, motion
  <2>1. io'.out = ping \o motion /\ io'.lines = io.lines
    <3> DEFINE o == ping \o motion
    <3>1. io' = [io EXCEPT !.pc = IF o = <<>> THEN "poll" ELSE "write", !.out = o]
      BY <1>1
    <3> HIDE DEF o
    <3>2. io'.out = o /\ io'.lines = io.lines
      BY <3>1 DEF Typed, IOTyped
    <3> QED BY <3>2 DEF o
  <2> QED BY <1>1, <1>2, <2>1 DEF HistTypes
<1>4. LinkOK(link')
  BY TransmitTyped DEF Typed
<1>5. sq \in 1..SeqMax /\ link.seq \in 0..SeqMax
  BY <1>2, NextSeqOK DEF LinkTypes
<1>6. pp \in Seq(Entries) \/ ~PingWanted(link)
  <2> SUFFICES ASSUME PingWanted(link) PROVE pp \in Seq(Entries)
    OBVIOUS
  <2>1. Len(link.pending) < MaxPending /\ "PING" \in Commands /\ PendingOK(link.pending)
    BY DEF PingWanted, Commands, Typed, LinkOK
  <2>2. PendingOK(pp)
    BY <1>5, <2>1, PutOK
  <2> QED BY <2>2 DEF PendingOK
<1>7. CASE PingWanted(link)
  <2>1. /\ link.seq_synced /\ ~link.bidirectional /\ link.ping_seq = 0 /\ ~link.reboot_latched
        /\ ~link.proto_problem /\ Len(link.pending) < MaxPending
    BY <1>7 DEF PingWanted
  <2>2. pinged = [link EXCEPT !.seq = sq, !.pending = pp, !.ping_seq = sq, !.ping_due = FALSE]
    BY <1>7 DEF WithPing
  <2> HIDE DEF pinged, sq, pp
  <2>3. ~MotionWanted(pinged)
    BY <1>2, <2>1, <2>2 DEF MotionWanted, MotionReady, LinkTypes
  <2>4. link' = [pinged EXCEPT !.slot = NoSlot]
    BY <1>1, <2>3 DEF WithMotion
  <2>5. /\ link'.seq = sq /\ link'.pending = pp /\ link'.ping_seq = sq
        /\ link'.bidirectional = link.bidirectional /\ link'.proto_problem = link.proto_problem
        /\ link'.timeouts = link.timeouts /\ link'.status = link.status
        /\ link'.stopping = link.stopping /\ link'.port_open = link.port_open
        /\ Alike(link, link')
    BY <1>2, <2>2, <2>4 DEF LinkTypes, Alike
  <2>6. io'.out = <<pf>>
    <3>1. ping = <<pf>> /\ motion = <<>>
      BY <1>7, <2>3
    <3> QED BY <1>3, <3>1, Joining
  <2>7. pf \in Frames /\ pf.cmd = "PING" /\ pf.seq = sq /\ pf.boot = hist.proof.boot
    <3>1. hist.conn \in Connections /\ "PING" \in Commands
      BY <1>2 DEF HistTypes, Commands
    <3> QED BY <1>2, <1>5, <3>1, FrameOK DEF Frame, sq
  <2> HIDE DEF pf
  <2> QED BY <1>1, <1>2, <1>3, <1>4, <2>1, <2>5, <2>6, <2>7 DEF sq, pp
<1>8. CASE ~PingWanted(link) /\ MotionWanted(link)
  <2>1. pinged = link
    BY <1>8 DEF WithPing
  <2>2. /\ link.slot # NoSlot /\ Len(link.pending) < MaxPending /\ link.bidirectional
        /\ ~link.reboot_latched /\ link.status = "UP" /\ ~link.stopping /\ link.port_open
    BY <1>8 DEF MotionWanted, MotionReady
  <2>3. link.timeouts < MaxTimeouts
    BY <2>2 DEF Numbered, Settled
  <2>4. link.slot.cmd \in Motion /\ link.slot.cmd \in Commands
    BY <1>2, <2>2 DEF Commands
  <2>5. mp \in Seq(Entries)
    <3>1. PendingOK(link.pending)
      BY DEF Typed, LinkOK
    <3>2. PendingOK(mp)
      BY <1>5, <2>2, <2>4, <3>1, PutOK
    <3> QED BY <3>2 DEF PendingOK
  <2>6. link' = [link EXCEPT !.seq = sq, !.pending = mp, !.slot = NoSlot, !.motion_sent = TRUE]
    BY <1>1, <1>8, <2>1 DEF WithMotion
  <2> HIDE DEF sq, mp
  <2>7. /\ link'.seq = sq /\ link'.pending = mp /\ link'.ping_seq = link.ping_seq
        /\ link'.bidirectional = link.bidirectional /\ link'.proto_problem = link.proto_problem
        /\ link'.timeouts = link.timeouts /\ link'.status = link.status
        /\ link'.stopping = link.stopping /\ link'.port_open = link.port_open
        /\ Alike(link, link')
    BY <1>2, <2>6 DEF LinkTypes, Alike
  <2>8. io'.out = <<mf>>
    <3>1. ping = <<>> /\ motion = <<mf>>
      BY <1>8, <2>1
    <3> QED BY <1>3, <3>1, Joining
  <2>9. mf \in Frames /\ mf.cmd = link.slot.cmd /\ mf.seq = sq /\ mf.boot = hist.proof.boot
    <3>1. link.slot.conn \in Connections
      BY <1>2, <2>2 DEF LinkTypes, SlotTypes
    <3>2. mf = Frame(link, link.slot.cmd, link.slot.conn)
      BY <2>1
    <3> HIDE DEF mf
    <3>3. mf \in Frames /\ mf.cmd = link.slot.cmd
      BY <1>2, <1>5, <2>4, <3>1, <3>2, FrameOK
    <3> QED BY <3>2, <3>3 DEF Frame, sq
  <2> HIDE DEF mf
  <2> QED BY <1>1, <1>2, <1>3, <1>4, <2>2, <2>3, <2>4, <2>7, <2>8, <2>9 DEF sq, mp
<1>9. CASE ~PingWanted(link) /\ ~MotionWanted(link)
  <2>1. pinged = link
    BY <1>9 DEF WithPing
  <2>2. link' = [link EXCEPT !.slot = NoSlot]
    BY <1>1, <1>9, <2>1 DEF WithMotion
  <2>3. /\ SameClaims(link, link')
        /\ link'.bidirectional = link.bidirectional /\ link'.proto_problem = link.proto_problem
        /\ link'.timeouts = link.timeouts /\ link'.status = link.status
        /\ link'.stopping = link.stopping /\ link'.port_open = link.port_open
        /\ Alike(link, link')
    BY <1>2, <2>2 DEF LinkTypes, Alike, SameClaims, SameNumbers
  <2>4. io'.out = <<>>
    <3>1. ping = <<>> /\ motion = <<>>
      BY <1>9, <2>1
    <3> QED BY <1>3, <3>1, Joining
  <2> QED BY <1>1, <1>2, <1>3, <1>4, <2>3, <2>4
<1> QED BY <1>7, <1>8, <1>9

LEMMA TransmitNumbers ==
  ASSUME WideRing, IInv, Typed, Numbered, Transmit PROVE Numbered'
<1> DEFINE b == hist.proof.boot
           n == faults + ctl.boot
           sq == NextSeq(link.seq)
<1>1. /\ link.port_open /\ io.out = <<>> /\ io.lines = <<>> /\ io'.lines = <<>>
      /\ toEsp' = toEsp /\ toPi' = toPi /\ ctl' = ctl /\ faults' = faults
      /\ hist'.proof = hist.proof /\ LinkOK(link')
      /\ link'.bidirectional = link.bidirectional /\ link'.proto_problem = link.proto_problem
      /\ link'.timeouts = link.timeouts /\ link'.status = link.status
      /\ link'.stopping = link.stopping /\ link'.port_open = link.port_open
      /\ Alike(link, link')
  BY TransmitSends
<1>2. /\ Flow \in Seq(Lines) /\ Queue \in Seq(Frames) /\ toEsp \in Seq(Frames)
      /\ LinkOK(link) /\ ctl.last_seq \in 0..SeqMax /\ faults \in 0..MaxFaults
      /\ ctl.boot \in 1..MaxBoots
  BY UnderWayTyped DEF Typed, WorldTyped, Boots
<1>3. n \in Nat /\ n < SeqMax
  BY <1>2, ConfigAssumption, SMTT(30) DEF WideRing
<1>4. Flow' = Flow /\ Queue = toEsp
  BY <1>1, <1>2, JoinedSame DEF Flow, Queue
<1>5. /\ Lined(Queue, ctl) /\ Past(Flow, Queue, b, ctl)
      /\ Proven(link, b, ctl) => InStep(link, Flow, Queue, ctl)
      /\ Fresh(link) => Pinging(link, Flow, Queue, ctl, n)
      /\ Settled(link, io.out)
  BY DEF Numbered
<1>6. CASE io'.out = <<>> /\ SameClaims(link, link')
  <2>1. Queue' = Queue
    BY <1>1, <1>6 DEF Queue
  <2>2. Proven(link', b, ctl) => InStep(link', Flow, Queue, ctl)
    <3>1. Proven(link', b, ctl) => Proven(link, b, ctl)
      BY <1>1 DEF Proven
    <3> QED BY <1>5, <1>6, <3>1, InStepSame DEF SameClaims, SameEsp
  <2>3. Fresh(link') => Pinging(link', Flow, Queue, ctl, n)
    <3>1. Fresh(link') => Fresh(link)
      BY <1>1 DEF Fresh, Alike
    <3> QED BY <1>5, <1>6, <3>1, PingingSame DEF SameEsp
  <2>4. Settled(link', io'.out)
    BY <1>1, <1>5, <1>6 DEF Settled, SameClaims, SameNumbers, Alike
  <2> QED BY <1>1, <1>4, <1>5, <2>1, <2>2, <2>3, <2>4 DEF Numbered
<1>7. ASSUME NEW x \in Frames, io'.out = <<x>>, x.seq = sq, x.boot = b, ~link.reboot_latched,
             Len(link.pending) < MaxPending, link'.seq = sq,
             \/ /\ ~link.bidirectional /\ ~link.proto_problem /\ link.seq_synced
                /\ x.cmd = "PING" /\ link.ping_seq = 0 /\ link'.ping_seq = sq
                /\ link'.pending = Put(link.pending, sq, "PING")
             \/ /\ link.bidirectional /\ link.timeouts < MaxTimeouts
                /\ x.cmd \in Motion /\ link'.ping_seq = link.ping_seq
                /\ link'.pending = Put(link.pending, sq, x.cmd)
      PROVE  Numbered'
  <2> DEFINE t == Append(Queue, x)
  <2>1. Queue' = t
    BY <1>1, <1>2, <1>4, <1>7, OneMore DEF Queue
  <2>2. Past(Flow, t, b, ctl)
    BY <1>2, <1>5, <1>7, PastSent
  <2>3. Moves(x, ctl) => InStep(link, Flow, Queue, ctl) /\ x.seq = NextSeq(link.seq)
    <3>1. Moves(x, ctl) => Proven(link, b, ctl)
      BY <1>1, <1>7 DEF Moves, Motion, Proven
    <3> QED BY <1>5, <1>7, <3>1
  <2>4. Lined(t, ctl)
    BY <1>2, <1>5, <2>3, SentLined
  <2> HIDE DEF t
  <2>5. ASSUME Proven(link', b, ctl) PROVE InStep(link', Flow, t, ctl)
    <3>1. link.bidirectional /\ InStep(link, Flow, Queue, ctl)
      BY <1>1, <1>5, <2>5 DEF Proven
    <3>2. /\ link.timeouts < MaxTimeouts /\ x.cmd \in Motion
          /\ link'.pending = Put(link.pending, sq, x.cmd)
      BY <1>7, <3>1
    <3>3. x.cmd \in Commands /\ Moves(x, ctl)
      BY <1>7, <2>5, <3>2 DEF Commands, Moves, Proven
    <3> QED BY <1>1, <1>2, <1>7, <3>1, <3>2, <3>3, SentInStep DEF t
  <2>6. ASSUME Fresh(link') PROVE Pinging(link', Flow, t, ctl, n)
    <3>1. Fresh(link) /\ ~link.bidirectional
      BY <1>1, <2>6 DEF Fresh, Alike
    <3>2. /\ link.seq_synced /\ link.ping_seq = 0 /\ link'.ping_seq = sq
          /\ link'.pending = Put(link.pending, sq, "PING") /\ link'.seq_synced
      BY <1>1, <1>7, <3>1 DEF Alike
    <3>3. Pinging(link, Flow, Queue, ctl, n)
      BY <1>5, <3>1
    <3> HIDE DEF n
    <3> QED BY <1>2, <1>3, <1>7, <3>2, <3>3, SentPing DEF t
  <2>7. Settled(link', io'.out)
    BY <1>1, <1>5, <1>7 DEF Settled, Alike
  <2> QED BY <1>1, <1>4, <2>1, <2>2, <2>4, <2>5, <2>6, <2>7 DEF Numbered
<1>8. \/ io'.out = <<>> /\ SameClaims(link, link')
      \/ \E x \in Frames :
           /\ io'.out = <<x>> /\ x.seq = sq /\ x.boot = b
           /\ ~link.reboot_latched /\ Len(link.pending) < MaxPending
           /\ link'.seq = sq
           /\ \/ /\ ~link.bidirectional /\ ~link.proto_problem /\ link.seq_synced
                 /\ x.cmd = "PING" /\ link.ping_seq = 0
                 /\ link'.ping_seq = sq
                 /\ link'.pending = Put(link.pending, sq, "PING")
              \/ /\ link.bidirectional /\ link.timeouts < MaxTimeouts
                 /\ x.cmd \in Motion /\ link'.ping_seq = link.ping_seq
                 /\ link'.pending = Put(link.pending, sq, x.cmd)
  BY TransmitSends
<1> HIDE DEF b, n, sq
<1> QED BY <1>6, <1>7, <1>8

LEMMA ShutdownNumbers ==
  ASSUME WideRing, IInv, Typed, Numbered, Shutdown PROVE Numbered'
<1> DEFINE b == hist.proof.boot
           x == Frame(link, "STOP", hist.conn)
           s == IF FinalStopWanted THEN NextSeq(link.seq) ELSE link.seq
           out == IF FinalStopWanted THEN <<x>> ELSE <<>>
<1>1. /\ io.pc = "poll" /\ link' = [link EXCEPT !.port_open = FALSE, !.seq = s]
      /\ io' = [io EXCEPT !.pc = "final", !.out = out]
      /\ UNCHANGED <<toEsp, toPi, hist, ctl, faults>>
  BY DEF Shutdown, SameWorld
<1>2. /\ Queue \in Seq(Frames) /\ toEsp \in Seq(Frames)
      /\ LinkOK(link) /\ ctl.last_seq \in 0..SeqMax /\ link \in LinkTypes
      /\ link.port_open /\ io.out = <<>> /\ io.lines = <<>>
      /\ hist \in HistTypes /\ hist.conn \in Connections
  BY <1>1, UnderWayTyped, NothingOut DEF Typed, WorldTyped, LinkOK, PortAgrees, OpenPcs,
                                         LinesOnlyInLines, HistTypes
<1>3. x \in Frames /\ x.seq = NextSeq(link.seq) /\ x.boot = b
  <2>1. "STOP" \in Commands /\ link.seq \in 0..SeqMax
    BY <1>2 DEF Commands, Motion, LinkTypes
  <2> QED BY <1>2, <2>1, FrameOK DEF Frame
<1> HIDE DEF s, x
<1>4. /\ ~link'.port_open /\ link'.last_uptime = link.last_uptime
      /\ link'.seq_synced = link.seq_synced /\ link'.bidirectional = link.bidirectional
      /\ link'.ping_seq = link.ping_seq /\ link'.reboot_latched = link.reboot_latched
      /\ link'.pending = link.pending
  BY <1>1, <1>2 DEF LinkTypes
<1>5. io'.out = out /\ io'.lines = <<>>
  <2> HIDE DEF out
  <2> QED BY <1>1, <1>2 DEF Typed, IOTyped
<1>6. Flow' = Flow /\ Queue = toEsp
  BY <1>1, <1>2, <1>5, JoinedSame DEF Flow, Queue
<1>7. Lined(Queue', ctl) /\ Past(Flow, Queue', b, ctl)
  <2>1. CASE ~FinalStopWanted
    <3>1. Queue' = Queue
      BY <1>1, <1>2, <1>5, <2>1 DEF Queue
    <3> QED BY <3>1 DEF Numbered
  <2>2. CASE FinalStopWanted
    <3>1. Queue' = Append(Queue, x)
      BY <1>1, <1>3, <1>5, <1>6, <2>2, OneMore DEF Queue
    <3>2. Past(Flow, Append(Queue, x), b, ctl)
      BY <1>2, <1>3, PastSent DEF Numbered
    <3>3. Moves(x, ctl) => InStep(link, Flow, Queue, ctl)
      <4>1. Moves(x, ctl) => Proven(link, b, ctl)
        BY <1>2, <1>3, <2>2 DEF Moves, FinalStopWanted, Proven
      <4> QED BY <4>1 DEF Numbered
    <3>4. Lined(Append(Queue, x), ctl)
      BY <1>2, <1>3, <3>3, SentLined DEF Numbered
    <3> QED BY <3>1, <3>2, <3>4
  <2> QED BY <2>1, <2>2
<1>8. Settled(link', io'.out)
  BY <1>4 DEF Numbered, Settled
<1> QED BY <1>1, <1>4, <1>6, <1>7, <1>8 DEF Numbered, Proven, Fresh

LEMMA ExitNumbers == ASSUME Typed, IInv, Numbered, ExitClosed \/ Close PROVE Numbered'
<1>1. CASE ExitClosed
  <2>1. /\ io' = [io EXCEPT !.pc = "exited"]
        /\ UNCHANGED <<link, toEsp, toPi, hist, ctl, faults>>
    BY <1>1 DEF ExitClosed, SameWorld
  <2>2. io'.lines = io.lines /\ io'.out = io.out
    BY <2>1 DEF Typed, IOTyped
  <2>3. Flow' = Flow /\ Queue' = Queue
    BY <2>1, <2>2 DEF Flow, Queue
  <2> QED BY <2>1, <2>2, <2>3, MovedOn
<1>2. CASE Close
  <2>1. /\ io.pc = "final" /\ io' = [io EXCEPT !.pc = "exited", !.out = <<>>] /\ toPi' = <<>>
        /\ UNCHANGED <<link, ctl, hist>> /\ (toEsp' = toEsp \o io.out \/ toEsp' = toEsp)
    BY <1>2 DEF Close
  <2>2. io'.out = <<>> /\ io'.lines = <<>> /\ ~link.port_open
        /\ toEsp \in Seq(Frames) /\ io.out \in Seq(Frames)
    BY <2>1 DEF Typed, IOTyped, WorldTyped, LinesOnlyInLines, PortAgrees, OpenPcs
  <2>3. Queue' \in {Queue, toEsp} /\ Flow' = <<>>
    <3>1. \A s \in Seq(Frames) : s \o <<>> = s
      BY JoinedSame
    <3>2. toEsp \o io.out \in Seq(Frames)
      BY <2>2, ConcatProperties
    <3>3. Queue' = toEsp'
      BY <2>1, <2>2, <3>1, <3>2 DEF Queue
    <3>4. Flow' = <<>>
      BY <2>1, <2>2, Joining DEF Flow
    <3> QED BY <2>1, <3>3, <3>4 DEF Queue
  <2>4. Thins(toEsp, Queue) /\ Len(toEsp) \in Nat /\ Len(Queue) \in Nat /\ Thins(<<>>, Flow)
        /\ Thins(Queue, Queue)
    BY <2>2, ThinsParts, ThinsNothing, ThinsSame, LenProperties, UnderWayTyped DEF Queue
  <2>5. Lined(Queue', ctl) /\ Past(<<>>, Queue', hist.proof.boot, ctl)
    BY <2>3, <2>4, LinedThins, PastThins DEF Numbered
  <2>6. Settled(link', io'.out)
    BY <2>1, <2>2 DEF Numbered, Settled
  <2> QED BY <2>1, <2>2, <2>3, <2>5, <2>6 DEF Numbered, Proven, Fresh
<1> QED BY <1>1, <1>2

(***************************************************************************)
(* The agent and the clock.                                                *)
(***************************************************************************)
LEMMA StillQuiet ==
  ASSUME Typed, Settled(link, io.out), Quiet, ~AcknowledgeReboot
  PROVE  /\ SameClaims(link, link') /\ Alike(link, link') /\ link'.port_open = link.port_open
         /\ link'.bidirectional = link.bidirectional
         /\ link'.proto_problem = link.proto_problem
         /\ link'.port_open /\ ~link'.stopping /\ link'.status = "UP"
              => link'.timeouts < MaxTimeouts
<1> DEFINE Same(r) ==
      /\ SameClaims(link, r) /\ Alike(link, r) /\ r.port_open = link.port_open
      /\ r.bidirectional = link.bidirectional /\ r.proto_problem = link.proto_problem
           Up(r) == r.port_open /\ ~r.stopping /\ r.status = "UP" => r.timeouts < MaxTimeouts
<1>1. link \in LinkTypes /\ Up(link)
  BY DEF Typed, LinkOK, Settled
<1>2. ASSUME OpenFails \/ Start \/ Joined PROVE Same(link') /\ Up(link')
  <2>1. ~link.port_open
    BY <1>2 DEF OpenFails, Start, Joined, Typed, PortAgrees, OpenPcs
  <2>2. \E s, t : link' = [link EXCEPT !.stopping = s, !.status = t]
    <3>1. link' = [link EXCEPT !.stopping = link.stopping, !.status = "DISCONNECTED"]
            \/ link' = [link EXCEPT !.stopping = FALSE, !.status = "CONNECTING"]
      BY <1>1, <1>2 DEF OpenFails, Start, Joined, LinkTypes
    <3> QED BY <3>1
  <2> QED BY <1>1, <2>1, <2>2 DEF SameClaims, SameNumbers, Alike, LinkTypes
<1>3. ASSUME Stop PROVE Same(link') /\ Up(link')
  BY <1>1, <1>3 DEF Stop, SameClaims, SameNumbers, Alike, LinkTypes
<1>4. ASSUME ReadStatus PROVE Same(link') /\ Up(link')
  <2>1. link' = Refresh(link)
    BY <1>4 DEF ReadStatus
  <2>2. /\ link' = [link EXCEPT !.status = link'.status] /\ Up(link')
    BY <1>1, <2>1, RefreshNumbers
  <2>3. PICK st : link' = [link EXCEPT !.status = st]
    BY <2>2
  <2>4. Same(link')
    BY <1>1, <2>3 DEF SameClaims, SameNumbers, Alike, LinkTypes
  <2> QED BY <2>2, <2>4
<1>5. ASSUME (\E wish \in Motion : Submit(wish)) \/ SlotAges PROVE Same(link') /\ Up(link')
  <2>1. \E s : link' = [link EXCEPT !.slot = s]
    <3>1. CASE \E wish \in Motion : Submit(wish)
      BY <3>1 DEF Submit
    <3>2. CASE SlotAges
      <4>1. link' = [link EXCEPT !.slot = [link.slot EXCEPT !.old = TRUE]]
        BY <3>2 DEF SlotAges
      <4> QED BY <4>1
    <3> QED BY <1>5, <3>1, <3>2
  <2> QED BY <1>1, <2>1 DEF SameClaims, SameNumbers, Alike, LinkTypes
<1>6. ASSUME TelemetryAges \/ PingFallsDue PROVE Same(link') /\ Up(link')
  BY <1>1, <1>6 DEF TelemetryAges, PingFallsDue, SameClaims, SameNumbers, Alike, LinkTypes
<1> QED BY <1>2, <1>3, <1>4, <1>5, <1>6 DEF Quiet

\* The latch is lifted when nothing is under way any more.
LEMMA AcknowledgeNumbers ==
  ASSUME Typed, Numbered, AcknowledgeReboot, Flow' = Flow, Queue' = Queue
  PROVE  Numbered'
<1>1. /\ link.reboot_latched /\ (\A seq \in 1..SeqMax : ~UnderWay(seq))
      /\ link' = Acknowledged(link) /\ UNCHANGED <<io, toEsp, toPi, hist, ctl, faults>>
  BY DEF AcknowledgeReboot, SameWorld
<1>2. link \in LinkTypes /\ link.pending = <<>> /\ (link.port_open => io.out = <<>>)
  BY <1>1 DEF Typed, LinkOK, Numbered, Settled
<1>3. /\ ~link'.bidirectional /\ link'.pending = <<>> /\ link'.ping_seq = 0
      /\ ~link'.reboot_latched /\ link'.last_uptime = link.last_uptime
      /\ link'.seq_synced = link.seq_synced /\ link'.port_open = link.port_open
      /\ link'.timeouts = link.timeouts /\ link'.status = link.status
      /\ link'.stopping = link.stopping
  BY <1>1, <1>2 DEF Acknowledged, LinkTypes
<1>4. link.port_open => Seqs(Flow, Queue) = {}
  <2> SUFFICES ASSUME link.port_open, NEW s \in Seqs(Flow, Queue) PROVE FALSE
    OBVIOUS
  <2>1. /\ toPi \in Seq(Lines) /\ io.lines \in Seq(Lines) /\ toEsp \in Seq(Frames)
        /\ Flow \in Seq(Lines) /\ Queue \in Seq(Frames)
    BY UnderWayTyped DEF Typed, WorldTyped, IOTyped
  <2>2. s \in 1..SeqMax
    BY <2>1, SeqsTyped
  <2>3. Queue = toEsp
    BY <1>2, <2>1, JoinedSame DEF Queue
  <2>4. \A i \in 1..Len(Flow) :
          \/ \E k \in DOMAIN io.lines : Flow[i] = io.lines[k]
          \/ \E k \in DOMAIN toPi : Flow[i] = toPi[k]
    <3>1. /\ Len(io.lines) \in Nat /\ Len(toPi) \in Nat
          /\ DOMAIN io.lines = 1..Len(io.lines) /\ DOMAIN toPi = 1..Len(toPi)
      BY <2>1, LenProperties
    <3>2. /\ Len(Flow) = Len(io.lines) + Len(toPi)
          /\ \A i \in 1..Len(io.lines) + Len(toPi) :
               Flow[i] = IF i <= Len(io.lines) THEN io.lines[i] ELSE toPi[i - Len(io.lines)]
      BY <2>1, ConcatProperties DEF Flow
    <3> SUFFICES ASSUME NEW i \in 1..Len(Flow)
                 PROVE  \/ \E k \in DOMAIN io.lines : Flow[i] = io.lines[k]
                        \/ \E k \in DOMAIN toPi : Flow[i] = toPi[k]
      OBVIOUS
    <3>3. CASE i <= Len(io.lines)
      BY <3>1, <3>2, <3>3
    <3>4. CASE ~(i <= Len(io.lines))
      <4>1. i - Len(io.lines) \in 1..Len(toPi) /\ Flow[i] = toPi[i - Len(io.lines)]
        BY <3>1, <3>2, <3>4
      <4> QED BY <3>1, <4>1
    <3> QED BY <3>3, <3>4
  <2>5. DOMAIN toEsp = 1..Len(toEsp)
    BY <2>1, LenProperties
  <2>6. UnderWay(s)
    <3>1. CASE \E i \in 1..Len(Queue) : Queue[i].seq = s
      BY <2>3, <2>5, <3>1 DEF UnderWay
    <3>2. CASE \E i \in 1..Len(Flow) : Answer(Flow[i]) /\ Flow[i].seq = s
      BY <2>4, <3>2 DEF UnderWay, Answer
    <3> QED BY <3>1, <3>2 DEF Seqs
  <2> QED BY <1>1, <2>2, <2>6
<1>5. Fresh(link') => Pinging(link', Flow, Queue, ctl, faults + ctl.boot)
  BY <1>3, <1>4, NothingAwaited DEF Fresh
<1>6. Settled(link', io.out)
  BY <1>3 DEF Numbered, Settled
<1> QED BY <1>1, <1>3, <1>5, <1>6 DEF Numbered, Proven

LEMMA QuietNumbers == ASSUME Typed, Numbered, Quiet PROVE Numbered'
<1>1. /\ toEsp' = toEsp /\ toPi' = toPi /\ ctl' = ctl
      /\ io'.lines = io.lines /\ io'.out = io.out /\ hist'.proof = hist.proof
  BY QuietTyped
<1>2. Flow' = Flow /\ Queue' = Queue
  BY <1>1 DEF Flow, Queue
<1>3. CASE AcknowledgeReboot
  BY <1>2, <1>3, AcknowledgeNumbers
<1>4. CASE ~AcknowledgeReboot
  <2>1. /\ SameClaims(link, link') /\ Alike(link, link') /\ link'.port_open = link.port_open
        /\ link'.bidirectional = link.bidirectional
        /\ link'.proto_problem = link.proto_problem
        /\ link'.port_open /\ ~link'.stopping /\ link'.status = "UP"
             => link'.timeouts < MaxTimeouts
    BY <1>4, StillQuiet DEF Numbered
  <2>2. faults' = faults \/ faults' = faults + 1
    BY DEF Quiet, OpenFails, Start, Stop, Joined, ReadStatus, AcknowledgeReboot, Submit,
           TelemetryAges, SlotAges, PingFallsDue, SameWorld, Fault
  <2>3. Proven(link', hist.proof.boot, ctl) => InStep(link', Flow, Queue, ctl)
    <3>1. Proven(link', hist.proof.boot, ctl) => Proven(link, hist.proof.boot, ctl)
      BY <2>1 DEF Proven
    <3> QED BY <2>1, <3>1, InStepSame DEF Numbered, SameClaims, SameEsp
  <2>4. Fresh(link') => Pinging(link', Flow, Queue, ctl, faults' + ctl.boot)
    <3> SUFFICES ASSUME Fresh(link')
                 PROVE  Pinging(link', Flow, Queue, ctl, faults' + ctl.boot)
      OBVIOUS
    <3>1. Fresh(link)
      BY <2>1 DEF Fresh, Alike
    <3> DEFINE a == faults + ctl.boot
               b == faults' + ctl.boot
    <3>2. a \in Int /\ b \in Int /\ a <= b
      BY <2>2 DEF Typed, WorldTyped, Boots
    <3>3. Pinging(link, Flow, Queue, ctl, a)
      BY <3>1 DEF Numbered
    <3> HIDE DEF a, b
    <3>4. Flow \in Seq(Lines) /\ Queue \in Seq(Frames) /\ link \in LinkTypes
      BY UnderWayTyped DEF Typed, LinkOK
    <3>5. Thins(Flow, Flow) /\ Thins(Queue, Queue)
      BY <3>4, ThinsSame
    <3>6. Pinging(link, Flow, Queue, ctl, b)
      BY <3>2, <3>3, <3>4, <3>5, PingingLeft
    <3> QED BY <2>1, <3>6, PingingSame DEF SameEsp, b
  <2>5. Settled(link', io.out)
    BY <2>1 DEF Numbered, Settled, SameClaims, SameNumbers, Alike
  <2> QED BY <1>1, <1>2, <2>3, <2>4, <2>5 DEF Numbered
<1> QED BY <1>3, <1>4

(***************************************************************************)
(* The ESP32 and the wire.                                                 *)
(***************************************************************************)
LEMMA PastSaid ==
  ASSUME NEW f \in Seq(Lines), NEW q, NEW b, NEW c, Past(f, q, b, c), NEW x \in Lines,
         x.boot <= c.boot
  PROVE  Past(Append(f, x), q, b, c)
<1> DEFINE g == Append(f, x)
<1>1. /\ Len(f) \in Nat /\ Len(g) = Len(f) + 1
      /\ \A i \in 1..Len(f) : g[i] = f[i]
      /\ g[Len(f) + 1] = x
  BY LenProperties, AppendProperties
<1> HIDE DEF g
<1>2. \A i \in 1..Len(g) : (i \in 1..Len(f) /\ g[i] = f[i]) \/ g[i] = x
  BY <1>1
<1> QED BY <1>2 DEF Past, g

\* Where a line that is sent ends up.
LEMMA SentFlows ==
  ASSUME Typed, NEW x \in Lines, Send(x), io' = io
  PROVE  IF link.port_open THEN Flow' = Append(Flow, x) ELSE Flow' = Flow
<1>1. toPi \in Seq(Lines) /\ io.lines \in Seq(Lines)
  BY DEF Typed, WorldTyped, IOTyped
<1>2. io.lines \o Append(toPi, x) = Append(io.lines \o toPi, x)
  <2>1. \A s, t \in Seq(Lines) : \A y \in Lines : s \o Append(t, y) = Append(s \o t, y)
    BY JoinedSame
  <2> QED BY <1>1, <2>1
<1> QED BY <1>2 DEF Send, Flow

LEMMA SayNumbers ==
  ASSUME Typed, Numbered, NEW x \in Lines, Send(x), ~Answer(x), x.boot = ctl.boot,
         SameEsp(ctl, ctl'), link' = link, io' = io, hist' = hist, toEsp' = toEsp,
         faults' = faults
  PROVE  Numbered'
<1> DEFINE b == hist.proof.boot
           n == faults + ctl.boot
           f == Flow
           q == Queue
           g == Flow'
<1>1. f \in Seq(Lines) /\ q \in Seq(Frames) /\ ctl.boot \in Int
  BY UnderWayTyped DEF Typed, WorldTyped, Boots
<1>2. Queue' = q /\ faults' + ctl'.boot = n
  BY DEF Queue, SameEsp
<1>3. g = f \/ g = Append(f, x)
  BY SentFlows
<1>4. /\ Lined(q, ctl) /\ Past(f, q, b, ctl) /\ Settled(link, io.out)
      /\ Proven(link, b, ctl) => InStep(link, f, q, ctl)
      /\ Fresh(link) => Pinging(link, f, q, ctl, n)
  BY DEF Numbered
<1> HIDE DEF b, n, f, q, g
<1>5. /\ Past(g, q, b, ctl)
      /\ Proven(link, b, ctl) => InStep(link, g, q, ctl)
      /\ Fresh(link) => Pinging(link, g, q, ctl, n)
  <2>1. CASE g = f
    BY <1>4, <2>1
  <2>2. CASE g = Append(f, x)
    <3>1. x.boot <= ctl.boot
      BY <1>1
    <3> QED BY <1>1, <1>4, <2>2, <3>1, SaidBesides
  <2> QED BY <1>3, <2>1, <2>2
<1>6. Lined(q, ctl') /\ Past(g, q, b, ctl')
  BY <1>4, <1>5, EspSame
<1>7. Proven(link, b, ctl') => InStep(link, g, q, ctl')
  <2>1. Proven(link, b, ctl') => Proven(link, b, ctl)
    BY DEF Proven, SameEsp
  <2> QED BY <1>5, <2>1, InStepSame DEF SameNumbers
<1>8. Fresh(link) => Pinging(link, g, q, ctl', n)
  BY <1>5, PingingSame DEF SameClaims, SameNumbers
<1> QED BY <1>2, <1>4, <1>6, <1>7, <1>8 DEF Numbered, b, g

LEMMA ReceiveNumbers == ASSUME Typed, Numbered, Receive PROVE Numbered'
<1> DEFINE h == Head(toEsp)
           v == Verdict(h.seq)
           ack == [type |-> "ACK", boot |-> ctl.boot, seq |-> h.seq, result |-> v,
                   last_seq |-> ctl.last_seq, conn |-> h.conn]
           err == [type |-> "ERROR", boot |-> ctl.boot, seq |-> h.seq]
           b == hist.proof.boot
           n == faults + ctl.boot
           m == faults' + ctl'.boot
           f == Flow
           q == Queue
<1>1. /\ toEsp # <<>> /\ toEsp' = Tail(toEsp)
      /\ ctl' = [ctl EXCEPT !.last_seq = IF v = "ACCEPTED" THEN h.seq ELSE @]
      /\ \/ Send(ack) /\ UNCHANGED faults
         \/ Fault /\ Send(err)
      /\ link' = link /\ io' = io /\ hist' = hist
  BY DEF Receive
<1>2. /\ toEsp \in Seq(Frames) /\ io.out \in Seq(Frames) /\ f \in Seq(Lines) /\ q \in Seq(Frames)
      /\ ctl \in [boot: Boots, uptime: 0..MaxUptime, last_seq: 0..SeqMax]
      /\ LinkOK(link) /\ link \in LinkTypes /\ faults \in Int
  BY UnderWayTyped DEF Typed, WorldTyped, IOTyped, LinkOK
<1>3. Tail(q) = Queue' /\ h = Head(q) /\ q # <<>>
  BY <1>1, <1>2, JoinedSame DEF Queue
<1>4. h \in Frames /\ h.seq \in 1..SeqMax /\ h.conn \in Connections
  <2>1. h \in Frames
    BY <1>1, <1>2, HeadTailProperties
  <2> QED BY <2>1, SeqOfLines DEF Frames, Connections
<1>5. v \in {"ACCEPTED", "DUPLICATE", "STALE"} /\ (v = "ACCEPTED" <=> Accepts(ctl, h.seq))
  <2>1. v \in {"ACCEPTED", "DUPLICATE", "STALE"}
    BY DEF Verdict
  <2>2. ctl.last_seq \in 0..SeqMax
    BY <1>2
  <2> QED BY <1>4, <2>1, <2>2, VerdictAccepts
<1> HIDE DEF h, v
<1>6. Takes(ctl, h.seq, ctl') /\ ctl.boot \in Boots /\ ctl.last_seq \in 0..SeqMax
  BY <1>1, <1>2, <1>5 DEF Takes
<1>7. ack \in Lines /\ err \in Lines
  <2>1. ack \in Lines
    BY <1>2, <1>4, <1>5 DEF Lines
  <2>2. err \in Lines
    BY <1>2, <1>4 DEF Lines
  <2> QED BY <2>1, <2>2
<1>8. PICK x \in Lines :
        /\ Send(x) /\ Answer(x) /\ x.seq = h.seq /\ x.boot = ctl.boot
        /\ x.type = "ACK" => x.result = v
  <2>1. /\ Answer(ack) /\ ack.seq = h.seq /\ ack.boot = ctl.boot /\ ack.result = v
        /\ Answer(err) /\ err.seq = h.seq /\ err.boot = ctl.boot /\ err.type # "ACK"
    BY DEF Answer
  <2> HIDE DEF ack, err
  <2> QED BY <1>1, <1>7, <2>1
<1>9. n \in Int /\ m \in Int /\ n <= m
  <2>1. ctl'.boot = ctl.boot /\ ctl.boot \in Int /\ (faults' = faults \/ faults' = faults + 1)
    BY <1>1, <1>6 DEF Takes, Boots, Fault
  <2> QED BY <1>2, <2>1
<1>10. /\ Lined(q, ctl) /\ Past(f, q, b, ctl) /\ Settled(link, io.out)
       /\ Proven(link, b, ctl) => InStep(link, f, q, ctl)
       /\ Fresh(link) => Pinging(link, f, q, ctl, n)
  BY DEF Numbered
<1>11. IF link.port_open THEN Flow' = Append(f, x) ELSE Flow' = f
  BY <1>1, <1>8, SentFlows
<1> HIDE DEF ack, err, b, n, m, f, q
<1> DEFINE t == Tail(q)
           g == Flow'
<1>12. Lined(t, ctl')
  BY <1>2, <1>3, <1>6, <1>10, TakenLined
<1>13. Past(g, t, b, ctl')
  <2>1. Thins(f, f) /\ Thins(t, q)
    BY <1>2, <1>3, ThinsSame, ThinsTail
  <2>2. Past(f, t, b, ctl)
    BY <1>10, <2>1, PastThins
  <2>3. x.boot <= ctl.boot
    BY <1>6, <1>8 DEF Boots
  <2>4. Past(Append(f, x), t, b, ctl)
    BY <1>2, <2>2, <2>3, PastSaid
  <2>5. Past(g, t, b, ctl)
    BY <1>11, <2>2, <2>4
  <2> QED BY <1>6, <2>5 DEF Past, Takes
<1>14. ASSUME Proven(link, b, ctl') PROVE InStep(link, g, t, ctl')
  <2>1. Proven(link, b, ctl)
    BY <1>6, <1>14 DEF Proven, Takes
  <2>2. g = Append(f, x) /\ InStep(link, f, q, ctl)
    BY <1>10, <1>11, <2>1 DEF Proven
  <2>3. x.seq = Head(q).seq /\ Takes(ctl, Head(q).seq, ctl')
        /\ (x.type = "ACK" /\ Accepts(ctl, x.seq) => x.result = "ACCEPTED")
    BY <1>3, <1>5, <1>6, <1>8
  <2> HIDE DEF g, t
  <2>4. InStep(link, Append(f, x), Tail(q), ctl')
    BY <1>2, <1>3, <1>6, <1>8, <1>10, <2>2, <2>3, TakenInStep
  <2> QED BY <2>2, <2>4 DEF t
<1>15. ASSUME Fresh(link) PROVE Pinging(link, g, t, ctl', m)
  <2>1. g = Append(f, x) /\ Pinging(link, f, q, ctl, n)
    BY <1>10, <1>11, <1>15 DEF Fresh
  <2>2. x.seq = Head(q).seq
        /\ (x.type = "ACK" /\ x.result = "ACCEPTED" => ctl'.last_seq = x.seq)
    BY <1>3, <1>5, <1>6, <1>8 DEF Takes
  <2> HIDE DEF g, t
  <2>3. Pinging(link, Append(f, x), Tail(q), ctl', m)
    BY <1>2, <1>3, <1>8, <1>9, <2>1, <2>2, TakenPinging
  <2> QED BY <2>1, <2>3 DEF t
<1> QED BY <1>1, <1>3, <1>10, <1>12, <1>13, <1>14, <1>15 DEF Numbered, b, m

\* READY comes from a boot that has proven nothing yet.
LEMMA RebootEspNumbers == ASSUME Typed, Numbered, RebootEsp PROVE Numbered'
<1> DEFINE x == [type |-> "READY", boot |-> ctl'.boot, uptime |-> 0]
           b == hist.proof.boot
           n == faults + ctl.boot
           f == Flow
           q == Queue
           g == Flow'
           t == Queue'
<1>1. /\ ctl' = [boot |-> ctl.boot + 1, uptime |-> 0, last_seq |-> 0]
      /\ (toEsp' = toEsp \/ toEsp' = <<>>) /\ Send(x)
      /\ link' = link /\ io' = io /\ hist' = hist /\ faults' = faults
  BY DEF RebootEsp
<1>2. /\ toEsp \in Seq(Frames) /\ io.out \in Seq(Frames) /\ f \in Seq(Lines) /\ q \in Seq(Frames)
      /\ link \in LinkTypes /\ ctl.boot \in Int /\ faults \in Int /\ b \in Int
      /\ ctl'.boot \in Boots
  BY UnderWayTyped, EnvironmentTyped DEF Typed, WorldTyped, IOTyped, LinkOK, Environment, Boots,
                                         HistTypes
<1>3. x \in Lines /\ ~Answer(x) /\ x.boot = ctl'.boot
  BY <1>2 DEF Lines, Answer
<1> HIDE DEF x
<1>4. ctl'.boot = ctl.boot + 1 /\ faults' + ctl'.boot = n + 1 /\ n \in Int
  <2>1. ctl'.boot = ctl.boot + 1 /\ faults' = faults
    BY <1>1
  <2>2. faults + (ctl.boot + 1) = (faults + ctl.boot) + 1 /\ faults + ctl.boot \in Int
    BY <1>2
  <2> QED BY <2>1, <2>2
<1>5. (t = q \/ t = io.out) /\ Thins(t, q) /\ t \in Seq(Frames) /\ (q = <<>> => t = <<>>)
  <2>1. Thins(q, q) /\ Thins(io.out, q)
    BY <1>2, ThinsSame, ThinsParts DEF Queue
  <2>2. t = q \/ t = io.out
    BY <1>1, <1>2, JoinedSame DEF Queue
  <2>3. q = <<>> => io.out = <<>>
    <3>1. Len(q) = Len(toEsp) + Len(io.out) /\ Len(toEsp) \in Nat /\ Len(io.out) \in Nat
      BY <1>2, ConcatProperties, LenProperties DEF Queue
    <3>2. q = <<>> => Len(q) = 0
      OBVIOUS
    <3> HIDE DEF q
    <3>3. q = <<>> => Len(io.out) = 0
      BY <3>1, <3>2
    <3> QED BY <1>2, <3>3, EmptySeq
  <2> QED BY <1>2, <2>1, <2>2, <2>3
<1>6. IF link.port_open THEN g = Append(f, x) ELSE g = f
  BY <1>1, <1>3, SentFlows
<1>7. /\ Lined(q, ctl) /\ Past(f, q, b, ctl) /\ Settled(link, io.out)
      /\ Fresh(link) => Pinging(link, f, q, ctl, n)
  BY DEF Numbered
<1> HIDE DEF b, n, f, q, g, t
<1>8. Past(f, t, b, ctl)
  <2>1. Thins(f, f)
    BY <1>2, ThinsSame
  <2> QED BY <1>5, <1>7, <2>1, PastThins
<1>9. /\ b < ctl'.boot
      /\ \A i \in 1..Len(t) : t[i].boot < ctl'.boot
      /\ \A i \in 1..Len(f) : f[i].boot < ctl'.boot
  <2>1. \A i \in 1..Len(t) : t[i].boot \in Int
    BY <1>5, ElementOfSeq, SeqOfLines
  <2>2. \A i \in 1..Len(f) : f[i].boot \in Int
    BY <1>2, ElementOfSeq, SeqOfLines DEF Boots
  <2> QED BY <1>2, <1>4, <1>8, <2>1, <2>2 DEF Past
<1>10. Past(g, t, b, ctl')
  <2>1. Past(f, t, b, ctl')
    <3>1. b \in Int /\ ctl'.boot \in Int
      BY <1>2, <1>4
    <3>2. \A i \in 1..Len(t) : t[i].boot \in Int
      BY <1>5, ElementOfSeq, SeqOfLines
    <3>3. \A i \in 1..Len(f) : f[i].boot \in Int
      BY <1>2, ElementOfSeq, SeqOfLines DEF Boots
    <3> QED BY <1>9, <3>1, <3>2, <3>3 DEF Past
  <2>2. x.boot <= ctl'.boot
    BY <1>2, <1>3, <1>4
  <2> QED BY <1>2, <1>3, <1>6, <2>1, <2>2, PastSaid
<1>11. Lined(t, ctl')
  <2>1. \A i \in 1..Len(t) : ~Moves(t[i], ctl')
    BY <1>5, <1>9, <1>2, <1>4, ElementOfSeq, SeqOfLines DEF Moves
  <2> QED BY <2>1 DEF Lined
<1>12. ~Proven(link, b, ctl')
  BY <1>2, <1>4, <1>9 DEF Proven
<1>13. ASSUME Fresh(link) PROVE Pinging(link, g, t, ctl', n + 1)
  <2>1. Pinging(link, f, t, ctl, n + 1)
    <3>1. Thins(f, f) /\ Pinging(link, f, q, ctl, n) /\ n + 1 \in Int
      BY <1>2, <1>4, <1>7, <1>13, ThinsSame
    <3> QED BY <1>2, <1>4, <1>5, <3>1, PingingLeft
  <2>2. AnswerIsLast(link, f, t, ctl')
    <3>1. \A i \in 1..Len(f) : f[i].boot # ctl'.boot
      BY <1>2, <1>4, <1>9, ElementOfSeq, SeqOfLines DEF Boots
    <3> QED BY <2>1, <3>1 DEF Pinging, AnswerIsLast
  <2>3. Pinging(link, f, t, ctl', n + 1)
    BY <2>1, <2>2 DEF Pinging
  <2>4. Pinging(link, Append(f, x), t, ctl', n + 1)
    BY <1>2, <1>3, <2>3, SaidBesides
  <2> QED BY <1>6, <1>13, <2>4 DEF Fresh
<1> QED BY <1>1, <1>4, <1>7, <1>10, <1>11, <1>12, <1>13 DEF Numbered, b, g, t

\* What is lost is a fault.
LEMMA LossNumbers ==
  ASSUME Typed, Numbered, Fault, link' = link, hist' = hist, ctl' = ctl, io' = io,
         Flow' \in Seq(Lines), Queue' \in Seq(Frames), Thins(Flow', Flow), Thins(Queue', Queue),
         Queue = <<>> => Queue' = <<>>
  PROVE  Numbered'
<1> DEFINE b == hist.proof.boot
           n == faults + ctl.boot
           f == Flow
           q == Queue
           g == Flow'
           t == Queue'
<1>1. /\ f \in Seq(Lines) /\ q \in Seq(Frames) /\ g \in Seq(Lines) /\ t \in Seq(Frames)
      /\ link \in LinkTypes /\ n \in Int /\ faults' + ctl'.boot = n + 1 /\ n + 1 \in Int
  BY UnderWayTyped DEF Typed, LinkOK, WorldTyped, Boots, Fault
<1>2. Thins(g, f) /\ Thins(t, q) /\ (q = <<>> => t = <<>>) /\ Len(q) \in Nat /\ Len(t) \in Nat
  BY <1>1, LenProperties
<1>3. /\ Lined(q, ctl) /\ Past(f, q, b, ctl) /\ Settled(link, io.out)
      /\ Proven(link, b, ctl) => InStep(link, f, q, ctl)
      /\ Fresh(link) => Pinging(link, f, q, ctl, n)
  BY DEF Numbered
<1> HIDE DEF b, n, f, q, g, t
<1>4. Lined(t, ctl) /\ Past(g, t, b, ctl)
  BY <1>2, <1>3, LinedThins, PastThins
<1>5. Proven(link, b, ctl) => InStep(link, g, t, ctl)
  BY <1>2, <1>3, InStepThins
<1>6. Fresh(link) => Pinging(link, g, t, ctl, n + 1)
  BY <1>1, <1>2, <1>3, PingingLeft
<1> QED BY <1>1, <1>3, <1>4, <1>5, <1>6 DEF Numbered, b, g, t

LEMMA LoseFrameNumbers == ASSUME Typed, Numbered, LoseFrame PROVE Numbered'
<1>1. /\ toEsp # <<>> /\ Fault /\ toEsp' = Tail(toEsp)
      /\ link' = link /\ io' = io /\ toPi' = toPi /\ ctl' = ctl /\ hist' = hist
  BY DEF LoseFrame
<1>2. /\ toEsp \in Seq(Frames) /\ io.out \in Seq(Frames)
      /\ Flow \in Seq(Lines) /\ Queue \in Seq(Frames)
  BY UnderWayTyped DEF Typed, WorldTyped, IOTyped
<1>3. Queue' = Tail(Queue) /\ Queue # <<>>
  BY <1>1, <1>2, JoinedSame DEF Queue
<1>4. Flow' = Flow
  BY <1>1 DEF Flow
<1>5. Thins(Tail(Queue), Queue) /\ Thins(Flow, Flow) /\ Tail(Queue) \in Seq(Frames)
  BY <1>2, <1>3, ThinsTail, ThinsSame, HeadTailProperties
<1> QED BY <1>1, <1>2, <1>3, <1>4, <1>5, LossNumbers

LEMMA LoseLineNumbers == ASSUME Typed, Numbered, LoseLine PROVE Numbered'
<1>1. /\ toPi # <<>> /\ Fault /\ toPi' = Tail(toPi)
      /\ link' = link /\ io' = io /\ toEsp' = toEsp /\ ctl' = ctl /\ hist' = hist
  BY DEF LoseLine
<1>2. /\ toPi \in Seq(Lines) /\ io.lines \in Seq(Lines) /\ Queue \in Seq(Frames)
  BY UnderWayTyped DEF Typed, WorldTyped, IOTyped
<1>3. Queue' = Queue /\ Flow' = io.lines \o Tail(toPi)
  BY <1>1 DEF Queue, Flow
<1>4. Tail(toPi) \in Seq(Lines)
  BY <1>1, <1>2, HeadTailProperties
<1>5. io.lines \o Tail(toPi) \in Seq(Lines)
  BY <1>2, <1>4, ConcatProperties
<1>6. Thins(io.lines \o Tail(toPi), Flow) /\ Thins(Queue, Queue)
  BY <1>1, <1>2, ThinsMiddle, ThinsSame DEF Flow
<1> QED BY <1>1, <1>2, <1>3, <1>5, <1>6, LossNumbers

LEMMA EnvironmentNumbers == ASSUME Typed, Numbered, Environment PROVE Numbered'
<1>1. CASE Telemeter
  <2>1. PICK u \in {ctl.uptime, ctl.uptime + 1}, d \in DriveOutcomes :
          /\ u <= MaxUptime
          /\ ctl' = [ctl EXCEPT !.uptime = u]
          /\ Send([type |-> "TELEMETRY", boot |-> ctl.boot, uptime |-> u,
                   last_seq |-> ctl.last_seq, drive |-> d])
    BY <1>1 DEF Telemeter
  <2> DEFINE x == [type |-> "TELEMETRY", boot |-> ctl.boot, uptime |-> u,
                   last_seq |-> ctl.last_seq, drive |-> d]
  <2>2. /\ u \in 0..MaxUptime /\ d \in BOOLEAN
        /\ ctl \in [boot: Boots, uptime: 0..MaxUptime, last_seq: 0..SeqMax]
    BY <2>1, ConfigAssumption DEF Typed, WorldTyped
  <2>3. x \in Lines /\ ~Answer(x) /\ x.boot = ctl.boot
    BY <2>2 DEF Lines, Answer
  <2>4. SameEsp(ctl, ctl')
    BY <2>1, <2>2 DEF SameEsp
  <2>5. link' = link /\ io' = io /\ hist' = hist /\ toEsp' = toEsp /\ faults' = faults
    BY <1>1 DEF Telemeter
  <2>6. Send(x)
    BY <2>1
  <2> HIDE DEF x
  <2> QED BY <2>3, <2>4, <2>5, <2>6, SayNumbers
<1>2. CASE Diagnose
  <2> DEFINE x == [type |-> "DIAG", boot |-> ctl.boot]
  <2>1. x \in Lines /\ ~Answer(x) /\ x.boot = ctl.boot
    BY DEF Lines, Answer, Typed, WorldTyped
  <2>2. /\ SameEsp(ctl, ctl') /\ Send(x)
        /\ link' = link /\ io' = io /\ hist' = hist /\ toEsp' = toEsp /\ faults' = faults
    BY <1>2 DEF Diagnose, SameEsp
  <2> HIDE DEF x
  <2> QED BY <2>1, <2>2, SayNumbers
<1> QED BY <1>1, <1>2, ReceiveNumbers, RebootEspNumbers, LoseFrameNumbers, LoseLineNumbers
        DEF Environment

LEMMA InitNumbered == Init => Numbered
<1> SUFFICES ASSUME Init PROVE Numbered
  OBVIOUS
<1>1. Flow = <<>> /\ Queue = <<>>
  BY Joining DEF Init, Flow, Queue
<1>2. Lined(<<>>, ctl) /\ Past(<<>>, <<>>, hist.proof.boot, ctl)
  BY DEF Init, Lined, Past
<1>3. Settled(link, io.out) /\ ~link.port_open
  BY DEF Init, Settled
<1> QED BY <1>1, <1>2, <1>3 DEF Numbered, Proven, Fresh

LEMMA NextNumbered ==
  ASSUME WideRing, IInv, Typed, Connected, Numbered, [Next]_vars PROVE Numbered'
<1>1. CASE IOThread
  BY <1>1, OpenNumbers, QuietNumbers, ReadNumbers, LostNumbers, HandleLineNumbers, TickNumbers,
     TransmitNumbers, WriteNumbers, ShutdownNumbers, ExitNumbers DEF IOThread, Quiet
<1>2. CASE Agent \/ Time
  BY <1>2, QuietNumbers DEF Agent, Time, Quiet
<1>3. CASE Environment
  BY <1>3, EnvironmentNumbers
<1>4. CASE UNCHANGED vars
  <2>1. Flow' = Flow /\ Queue' = Queue
    BY <1>4 DEF vars, Flow, Queue
  <2> QED BY <1>4, <2>1, MovedOn DEF vars
<1> QED BY <1>1, <1>2, <1>3, <1>4 DEF Next

(***************************************************************************)
(* A motion command that reaches the boot of the ESP32 that answered the   *)
(* PING is accepted, neither a duplicate nor stale (SequenceCounter,       *)
(* _on_telemetry, _on_event, _on_ack, _expire_pending), on every ring of   *)
(* numbers that is wide enough for what may be unanswered at once.         *)
(***************************************************************************)
THEOREM MotionIsNewToEspHolds == ASSUME WideRing PROVE Spec => []MotionIsNewToEsp
<1>1. Typed /\ Numbered => MotionIsNewToEsp
  <2> SUFFICES ASSUME Typed, Numbered, toEsp # <<>>, Head(toEsp).cmd \in Motion,
                      Head(toEsp).boot = ctl.boot
               PROVE  Verdict(Head(toEsp).seq) = "ACCEPTED"
    BY DEF MotionIsNewToEsp
  <2>1. toEsp \in Seq(Frames) /\ io.out \in Seq(Frames) /\ Queue \in Seq(Frames)
        /\ ctl.last_seq \in 0..SeqMax
    BY UnderWayTyped DEF Typed, WorldTyped, IOTyped
  <2>2. Head(Queue) = Head(toEsp) /\ Queue # <<>>
    BY <2>1, JoinedSame DEF Queue
  <2>3. 1 \in 1..Len(Queue) /\ Head(Queue) = Queue[1] /\ Head(Queue) \in Frames
    BY <2>1, <2>2, HeadTailProperties, LenProperties, EmptySeq
  <2>4. Moves(Queue[1], ctl)
    BY <2>2, <2>3 DEF Moves
  <2>5. Ahead(Queue[1].seq, ctl.last_seq) \in 1..Limit
    BY <2>3, <2>4 DEF Numbered, Lined
  <2>6. Head(toEsp).seq \in 1..SeqMax /\ Accepts(ctl, Head(toEsp).seq)
    BY <2>2, <2>3, <2>5, SeqOfLines DEF Accepts
  <2> QED BY <2>1, <2>6, VerdictAccepts
<1>2. IInv /\ Typed /\ Connected /\ Numbered /\ [Next]_vars => Numbered'
  BY NextNumbered
<1> QED BY <1>1, <1>2, InitNumbered, InitConnected, NextConnects, AlwaysIInv, AlwaysTyped, PTL
        DEF Spec
=============================================================================
