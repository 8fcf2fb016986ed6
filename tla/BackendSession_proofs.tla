------------------------ MODULE BackendSession_proofs ------------------------
(***************************************************************************)
(* Proofs about BackendSession, for every set of codes and tokens, every   *)
(* bound on attempts and faults, and whatever disk, network and backend    *)
(* do: nothing counts as up that the backend has not authenticated.        *)
(***************************************************************************)
EXTENDS BackendSession, SequenceTheorems, TLAPS

(***************************************************************************)
(* Types.                                                                  *)
(***************************************************************************)
Credentials == Codes \cup {None}
Links ==
  [pc: {"off", "connect", "auth", "publish", "sleep"}, status: Statuses,
   authenticated: BOOLEAN, auth_failed: BOOLEAN,
   method: {"none", "TOKEN", "PAIRING_CODE"}, cred: Credentials,
   attempt: 0..MaxAttempt, refused: BOOLEAN, down: {"no", "short", "long"},
   acted: BOOLEAN, connects: BOOLEAN]
Events == [kind: {"SUCCESS", "FAILED"}, token: Credentials]
Sockets == [open: BOOLEAN, closing: BOOLEAN, out: Auths, in: Seq(Events)]
Backends == [up: BOOLEAN, codes: SUBSET Codes, tokens: SUBSET Codes, authed: BOOLEAN]

\* The state's type, with names for its parts.
Shape ==
  /\ link.pc = "off" => socket = Closed
  /\ link \in Links
  /\ env \in [robot_token: RobotTokens, pairing_code: Credentials]
  /\ disk \in Credentials /\ mode \in Modes /\ faults \in 0..MaxFaults
  /\ socket \in Sockets
  /\ backend \in Backends
  /\ hist \in [discarded: SUBSET Codes, refused: SUBSET Codes]

LEMMA ShapeIsTypeOK == Shape <=> TypeOK
  BY DEF Shape, TypeOK, Links, Credentials, Sockets, Events, Backends

LEMMA ClosedShape == Closed \in Sockets
  BY EmptySeq DEF Closed, Sockets, Auths, NoAuth, Credentials

LEMMA ClosedFields ==
  /\ ~Closed.open /\ ~Closed.closing /\ Closed.out = NoAuth /\ Closed.in = <<>>
  /\ \A s \in Sockets : ~s.open /\ ~s.closing /\ s.out = NoAuth /\ s.in = <<>> => s = Closed
<1>1. ~Closed.open /\ ~Closed.closing /\ Closed.out = NoAuth /\ Closed.in = <<>>
  BY DEF Closed
<1>2. ASSUME NEW s \in Sockets, ~s.open, ~s.closing, s.out = NoAuth, s.in = <<>>
      PROVE  s = Closed
  <2>1. s = [open |-> s.open, closing |-> s.closing, out |-> s.out, in |-> s.in]
    BY DEF Sockets
  <2>2. s.open = FALSE /\ s.closing = FALSE
    BY <1>2 DEF Sockets
  <2> QED
    BY <1>2, <2>1, <2>2 DEF Closed
<1> QED
  BY <1>1, <1>2

LEMMA AuthPayloadType ==
  ASSUME NEW token \in Credentials, NEW code \in Credentials
  PROVE  AuthPayload(token, code) \in Auths
  BY DEF AuthPayload, NoAuth, Auths, Credentials

LEMMA CredentialType ==
  ASSUME Shape, NEW readable PROVE Credential(readable) \in Auths
<1>1. env.robot_token \in Credentials /\ env.pairing_code \in Credentials /\ disk \in Credentials
  BY SessionAssumption DEF Shape, Credentials
<1>2. load(readable) \in Credentials /\ None \in Credentials
  BY <1>1 DEF load, Credentials
<1> QED
  BY <1>1, <1>2, AuthPayloadType DEF Credential

LEMMA AfterDisconnectType ==
  ASSUME NEW l \in Links
  PROVE  /\ AfterDisconnect(l) \in Links
         /\ AfterDisconnect(l).pc = l.pc
         /\ ~AfterDisconnect(l).authenticated
         /\ ~IsUp(AfterDisconnect(l).status)
  BY DEF AfterDisconnect, Links, Statuses, IsUp

LEMMA AfterConnectType ==
  ASSUME NEW l \in Links, NEW auth \in Auths
  PROVE  /\ AfterConnect(l, auth) \in Links
         /\ AfterConnect(l, auth).pc = l.pc
         /\ AfterConnect(l, auth).authenticated = l.authenticated
         /\ ~IsUp(AfterConnect(l, auth).status)
  BY DEF AfterConnect, Links, Statuses, Auths, NoAuth, IsUp, Credentials

LEMMA ConnectingType ==
  ASSUME NEW l \in Links
  PROVE  /\ Connecting(l) \in Links /\ Connecting(l).pc = "connect"
         /\ ~Connecting(l).authenticated /\ ~IsUp(Connecting(l).status)
         /\ Raised(l) \in Links /\ Raised(l).pc = "sleep"
         /\ Raised(l).authenticated = l.authenticated /\ ~IsUp(Raised(l).status)
  BY DEF Connecting, Raised, Links, Statuses, IsUp

(***************************************************************************)
(* The inductive invariant.  A link that is up was told so; on a socket    *)
(* that works, whoever was told so was told by this socket's backend.  A   *)
(* connect whose socket is not open has heard nothing: no answer of an     *)
(* earlier socket is left to be taken for one of the next.                 *)
(***************************************************************************)
Works == socket.open /\ ~socket.closing
Sound ==
  /\ IsUp(link.status) => link.authenticated
  /\ Works /\ (link.authenticated \/ socket.in # <<>>) => backend.authed
  /\ link.pc = "connect" /\ ~socket.open => ~link.authenticated /\ socket.in = <<>>
  /\ link.pc = "connect" /\ link.status = "CONNECTING" => ~socket.open
  /\ link.pc = "off" => ~link.authenticated
IInv == Shape /\ Sound

LEMMA InitIInv == Init => IInv
<1> SUFFICES ASSUME Init PROVE IInv
  OBVIOUS
<1>1. Stopped \in Links /\ Stopped.pc = "off" /\ ~Stopped.authenticated /\ ~IsUp(Stopped.status)
  BY SessionAssumption DEF Stopped, Links, Statuses, Credentials, IsUp
<1>2. Shape
  <2>1. env \in [robot_token: RobotTokens, pairing_code: Credentials] /\ backend \in Backends
    <3> PICK t \in RobotTokens, c \in Credentials :
          /\ env = [robot_token |-> t, pairing_code |-> c]
          /\ backend = [up |-> TRUE, codes |-> {c} \ {None}, tokens |-> {t} \ {None},
                        authed |-> FALSE]
      BY DEF Init, Credentials
    <3> {c} \ {None} \in SUBSET Codes /\ {t} \ {None} \in SUBSET Codes
      BY SessionAssumption DEF Credentials
    <3> QED
      BY DEF Backends
  <2> QED
    BY <1>1, <2>1, ClosedShape, SessionAssumption DEF Init, Shape, Modes, Credentials
<1>3. Sound
  BY <1>1 DEF Init, Sound, Works, Closed
<1> QED
  BY <1>2, <1>3 DEF IInv

(***************************************************************************)
(* One step of _run.                                                       *)
(***************************************************************************)
LEMMA StartKeeps == IInv /\ Start => IInv'
<1> SUFFICES ASSUME IInv, Start PROVE IInv'
  OBVIOUS
<1>1. link' = Connecting(link) /\ socket = Closed /\ UNCHANGED <<socket, backend>> /\ link \in Links
  BY DEF Start, IInv, Shape
<1>2. Shape'
  BY <1>1, ConnectingType DEF Start, IInv, Shape
<1>3. Sound'
  BY <1>1, ConnectingType DEF Sound, Works, Closed
<1> QED
  BY <1>2, <1>3 DEF IInv

LEMMA StopKeeps == IInv /\ Stop => IInv'
<1> SUFFICES ASSUME IInv, Stop PROVE IInv'
  OBVIOUS
<1>1. link \in Links /\ link' \in Links /\ link'.pc = "off" /\ ~link'.authenticated
      /\ ~IsUp(link'.status)
  <2> DEFINE l == IF socket.open THEN AfterDisconnect(link) ELSE link
  <2>1. l \in Links
    BY AfterDisconnectType DEF IInv, Shape
  <2>2. link' = [l EXCEPT !.pc = "off", !.authenticated = FALSE, !.status = "DISCONNECTED"]
    BY DEF Stop
  <2> HIDE DEF l
  <2> QED
    BY <2>1, <2>2 DEF Links, Statuses, IsUp, IInv, Shape
<1>2. socket' = Closed /\ backend' \in Backends
  BY DEF Stop, Backends, IInv, Shape
<1>3. Shape'
  BY <1>1, <1>2, ClosedShape DEF Stop, IInv, Shape
<1>4. Sound'
  BY <1>1, <1>2 DEF Sound, Works, Closed
<1> QED
  BY <1>3, <1>4 DEF IInv

LEMMA OpensKeeps == IInv /\ Opens => IInv'
<1> SUFFICES ASSUME IInv, Opens PROVE IInv'
  OBVIOUS
<1>1. PICK readable \in ReadOutcomes :
        /\ link' = AfterConnect(link, Credential(readable))
        /\ socket' = [Closed EXCEPT !.open = TRUE, !.out = Credential(readable)]
  BY DEF Opens
<1>2. link \in Links /\ Credential(readable) \in Auths
  BY CredentialType DEF IInv, Shape
<1>3. socket' \in Sockets /\ socket'.in = <<>>
  BY <1>1, <1>2, EmptySeq DEF Closed, Sockets
<1>4. ~link.authenticated /\ link.pc = "connect"
  BY DEF Opens, IInv, Sound
<1>5. backend' \in Backends
  BY DEF Opens, Backends, IInv, Shape
<1>6. link' \in Links /\ link'.pc = "connect" /\ ~link'.authenticated /\ ~IsUp(link'.status)
      /\ link'.status # "CONNECTING"
  <2>1. link'.status # "CONNECTING"
    BY <1>1, <1>2 DEF AfterConnect, Links
  <2> QED
    BY <1>1, <1>2, <1>4, <2>1, AfterConnectType
<1>7. Shape'
  BY <1>3, <1>5, <1>6 DEF Opens, IInv, Shape
<1>8. Sound'
  BY <1>3, <1>6, <1>1 DEF Sound, Works, Closed
<1> QED
  BY <1>7, <1>8 DEF IInv

LEMMA ConnectEndsKeeps == IInv /\ (ConnectReturns \/ ConnectRaises) => IInv'
<1> SUFFICES ASSUME IInv, ConnectReturns \/ ConnectRaises PROVE IInv'
  OBVIOUS
<1>1. link \in Links /\ UNCHANGED <<socket, backend>>
  BY DEF ConnectReturns, ConnectRaises, IInv, Shape
<1>2. link' \in Links /\ link'.pc \in {"auth", "sleep"}
      /\ link'.authenticated = link.authenticated
      /\ (IsUp(link'.status) => IsUp(link.status))
  <2>1. CASE ConnectReturns
    BY <1>1, <2>1 DEF ConnectReturns, Links
  <2>2. CASE ConnectRaises
    BY <1>1, <2>2, ConnectingType DEF ConnectRaises
  <2> QED
    BY <2>1, <2>2
<1>3. Shape'
  BY <1>1, <1>2 DEF ConnectReturns, ConnectRaises, IInv, Shape
<1>4. Sound'
  BY <1>1, <1>2 DEF Sound, Works, IInv
<1> QED
  BY <1>3, <1>4 DEF IInv

LEMMA AuthenticatedKeeps == IInv /\ (Authenticated \/ PublishEnds \/ Pause) => IInv'
<1> SUFFICES ASSUME IInv, Authenticated \/ PublishEnds \/ Pause PROVE IInv'
  OBVIOUS
<1>1. link \in Links /\ UNCHANGED <<socket, backend>>
  BY DEF Authenticated, PublishEnds, Pause, IInv, Shape
<1>2. /\ link' \in Links /\ link'.pc \in {"publish", "sleep"}
      /\ link'.authenticated = link.authenticated
      /\ IsUp(link'.status) => IsUp(link.status) \/ link.authenticated
  <2>1. CASE Authenticated
    <3>1. /\ link' = [link EXCEPT !.pc = "publish", !.attempt = 0, !.status = "STREAMING"]
          /\ link.authenticated
      BY <2>1 DEF Authenticated
    <3>2. 0 \in 0..MaxAttempt /\ "STREAMING" \in Statuses
      BY SessionAssumption DEF Statuses
    <3>3. link' \in Links /\ link'.pc = "publish" /\ link'.authenticated = link.authenticated
      BY <1>1, <3>1, <3>2 DEF Links
    <3> QED
      BY <3>1, <3>3
  <2>2. CASE PublishEnds
    BY <1>1, <2>2 DEF PublishEnds, Links
  <2>3. CASE Pause
    BY <1>1, <2>3 DEF Pause, PauseDue, Links
  <2> QED
    BY <2>1, <2>2, <2>3
<1>3. Shape'
  BY <1>1, <1>2, SessionAssumption
     DEF Authenticated, PublishEnds, Pause, IInv, Shape, Modes
<1>4. Sound'
  BY <1>1, <1>2 DEF Sound, Works, IInv
<1> QED
  BY <1>3, <1>4 DEF IInv

LEMMA AuthFailsKeeps == IInv /\ AuthFails => IInv'
<1> SUFFICES ASSUME IInv, AuthFails PROVE IInv'
  OBVIOUS
<1>1. link \in Links /\ socket \in Sockets /\ backend \in Backends
  BY DEF IInv, Shape
<1>2. /\ link' \in Links /\ link'.pc = "sleep"
      /\ ~link'.authenticated /\ ~IsUp(link'.status)
  <2> DEFINE l == [link EXCEPT !.status = "AUTH_FAILED", !.pc = "sleep", !.refused = TRUE]
  <2>1. l \in Links /\ l.pc = "sleep" /\ ~l.authenticated /\ ~IsUp(l.status)
    BY <1>1 DEF AuthFails, Links, Statuses, IsUp
  <2>2. link' = IF socket.open THEN AfterDisconnect(l) ELSE l
    BY DEF AuthFails
  <2> HIDE DEF l
  <2> QED
    BY <2>1, <2>2, AfterDisconnectType
<1>3. socket' \in Sockets /\ ~socket'.open
  <2>1. Scheduled(socket.in) \in Seq(Events) /\ <<>> \in Seq(Events)
    BY <1>1, EmptySeq DEF Scheduled, Sockets
  <2> QED
    BY <2>1, ClosedShape DEF AuthFails, Closed, Sockets
<1>4. backend' \in Backends
  BY <1>1 DEF AuthFails, Backends
<1>5. disk' \in Credentials /\ hist' \in [discarded: SUBSET Codes, refused: SUBSET Codes]
  <2>1. disk \in Codes \cup {None} /\ hist \in [discarded: SUBSET Codes, refused: SUBSET Codes]
    BY DEF IInv, Shape, Credentials
  <2>2. CASE UNCHANGED <<disk, hist>>
    BY <2>1, <2>2 DEF Credentials
  <2>3. CASE \E removed \in ClearOutcomes :
               /\ clear(removed)
               /\ hist' = [hist EXCEPT !.discarded = @ \cup ({disk} \ {disk', None})]
    <3>1. disk' \in Codes \cup {None}
      BY <2>1, <2>3 DEF clear
    <3>2. hist.discarded \cup ({disk} \ {disk', None}) \in SUBSET Codes
      BY <2>1
    <3> QED
      BY <2>1, <2>3, <3>1, <3>2 DEF Credentials
  <2> QED
    BY <2>2, <2>3 DEF AuthFails
<1>6. faults' \in 0..MaxFaults
  BY SessionAssumption DEF AuthFails, IInv, Shape
<1>7. Shape'
  BY <1>2, <1>3, <1>4, <1>5, <1>6 DEF AuthFails, IInv, Shape
<1>8. Sound'
  BY <1>2, <1>3 DEF Sound, Works
<1> QED
  BY <1>7, <1>8 DEF IInv

LEMMA WakeKeeps == IInv /\ (Wake \/ GraceElapses) => IInv'
<1> SUFFICES ASSUME IInv, Wake \/ GraceElapses PROVE IInv'
  OBVIOUS
<1>1. link \in Links /\ socket \in Sockets
  BY DEF IInv, Shape
<1>2. CASE Wake
  <2> DEFINE k == [link EXCEPT !.attempt = IF @ < MaxAttempt THEN @ + 1 ELSE @]
             l == Connecting(k)
  <2>1. k \in Links
    BY <1>1, SessionAssumption DEF Links
  <2>2. /\ l \in Links /\ l.pc = "connect" /\ ~l.authenticated /\ ~IsUp(l.status)
        /\ Raised(l) \in Links /\ Raised(l).pc = "sleep" /\ ~Raised(l).authenticated
        /\ ~IsUp(Raised(l).status)
    <3> HIDE DEF k
    <3>1. l \in Links /\ l.pc = "connect" /\ ~l.authenticated /\ ~IsUp(l.status)
      BY <2>1, ConnectingType
    <3> HIDE DEF l
    <3> QED
      BY <3>1, ConnectingType
  <2>3. link' = IF socket.open THEN Raised(l) ELSE l
    BY <1>2 DEF Wake
  <2>4. /\ socket' \in Sockets /\ socket'.open = socket.open /\ socket'.closing = socket.closing
        /\ socket'.in = IF socket.open THEN socket.in ELSE <<>>
    BY <1>1, <1>2, EmptySeq DEF Wake, Sockets
  <2> HIDE DEF l, k
  <2>5. Shape'
    BY <2>2, <2>3, <2>4, <1>2 DEF Wake, IInv, Shape
  <2>6. Sound'
    BY <2>2, <2>3, <2>4, <1>2 DEF Wake, IInv, Sound, Works
  <2> QED
    BY <2>5, <2>6 DEF IInv
<1>3. CASE GraceElapses
  <2>1. /\ link' \in Links /\ link'.pc = link.pc /\ link'.status = link.status
        /\ link'.authenticated = link.authenticated /\ UNCHANGED <<socket, backend>>
    BY <1>1, <1>3 DEF GraceElapses, Links
  <2>2. Shape' /\ Sound'
    BY <2>1, <1>3 DEF GraceElapses, IInv, Shape, Sound, Works
  <2> QED
    BY <2>2 DEF IInv
<1> QED
  BY <1>2, <1>3

(***************************************************************************)
(* One step of a handler.                                                  *)
(***************************************************************************)
LEMMA TailIsShorter ==
  ASSUME NEW S, NEW s \in Seq(S), s # <<>> PROVE Tail(s) \in Seq(S) /\ Head(s) \in S
  BY HeadTailProperties

LEMMA ShortSeqs ==
  ASSUME NEW S, NEW e \in S PROVE <<>> \in Seq(S) /\ <<e>> \in Seq(S) /\ <<e, e>> \in Seq(S)
  BY EmptySeq

LEMMA HandlersKeep == IInv /\ Handlers => IInv'
<1> SUFFICES ASSUME IInv, Handlers PROVE IInv'
  OBVIOUS
<1>1. link \in Links /\ socket \in Sockets /\ backend \in Backends
  BY DEF IInv, Shape
<1>2. CASE OnAuthSuccess
  <2>1. socket.in # <<>> /\ socket.in \in Seq(Events)
    BY <1>1, <1>2 DEF OnAuthSuccess, Sockets
  <2>2. Head(socket.in) \in Events /\ Tail(socket.in) \in Seq(Events)
    BY <2>1, TailIsShorter
  <2>3. /\ socket' \in Sockets /\ socket'.open = socket.open
        /\ socket'.closing = socket.closing
    BY <1>1, <1>2, <2>2 DEF OnAuthSuccess, Sockets
  <2>4. /\ link' \in Links /\ link'.pc = link.pc /\ link'.authenticated
        /\ link'.status # "CONNECTING" \/ link'.status = link.status
    BY <1>1, <1>2 DEF OnAuthSuccess, Links, Statuses
  <2>5. disk' \in Credentials
    BY <2>2, <1>2 DEF OnAuthSuccess, save, Events, IInv, Shape
  <2>6. link.pc # "off" /\ (link.pc = "connect" => socket.open)
    BY <2>1 DEF IInv, Shape, Sound, Closed
  <2>7. Shape'
    BY <2>3, <2>4, <2>5, <2>6, <1>2 DEF OnAuthSuccess, IInv, Shape
  <2>8. Sound'
    <3>1. Works' => Works /\ backend.authed
      BY <2>1, <2>3 DEF Works, IInv, Sound
    <3>2. link'.pc = "connect" /\ link'.status = "CONNECTING" => ~socket'.open
      BY <1>2, <2>3, <2>4 DEF IInv, Sound
    <3> QED
      BY <3>1, <3>2, <2>3, <2>4, <2>6, <1>2 DEF OnAuthSuccess, Sound
  <2> QED
    BY <2>7, <2>8 DEF IInv
<1>3. CASE OnAuthFailed
  <2>1. socket.in # <<>> /\ socket.in \in Seq(Events)
    BY <1>1, <1>3 DEF OnAuthFailed, Sockets
  <2>2. Tail(socket.in) \in Seq(Events)
    BY <2>1, TailIsShorter
  <2>3. /\ socket' \in Sockets /\ socket'.open = socket.open
        /\ socket'.closing = socket.closing
    BY <1>1, <1>3, <2>2 DEF OnAuthFailed, Sockets
  <2>4. /\ link' \in Links /\ link'.pc = link.pc /\ link'.status = link.status
        /\ link'.authenticated = link.authenticated
    BY <1>1, <1>3 DEF OnAuthFailed, Links
  <2>5. link.pc # "off" /\ (link.pc = "connect" => socket.open)
    BY <2>1 DEF IInv, Shape, Sound, Closed
  <2>6. Shape'
    BY <2>3, <2>4, <2>5, <1>3 DEF OnAuthFailed, IInv, Shape
  <2>7. Sound'
    BY <2>1, <2>3, <2>4, <2>5, <1>3 DEF OnAuthFailed, IInv, Sound, Works
  <2> QED
    BY <2>6, <2>7 DEF IInv
<1>4. CASE OnDisconnect
  <2>1. /\ socket' \in Sockets /\ ~socket'.open /\ socket'.in = <<>>
    BY <1>1, <1>4, ClosedShape DEF OnDisconnect, Closed, Sockets
  <2>2. /\ link' \in Links /\ link'.pc = link.pc /\ ~link'.authenticated
        /\ ~IsUp(link'.status)
    BY <1>1, <1>4, AfterDisconnectType DEF OnDisconnect
  <2>3. link.pc # "off"
    BY <1>4 DEF OnDisconnect, IInv, Shape, Closed
  <2>4. Shape'
    BY <2>1, <2>2, <2>3, <1>4 DEF OnDisconnect, IInv, Shape
  <2>5. Sound'
    BY <2>1, <2>2 DEF Sound, Works
  <2> QED
    BY <2>4, <2>5 DEF IInv
<1> QED
  BY <1>2, <1>3, <1>4 DEF Handlers

(***************************************************************************)
(* One step of anything else.                                              *)
(***************************************************************************)
LEMMA RestartKeeps == IInv /\ Restart => IInv'
<1> SUFFICES ASSUME IInv, Restart PROVE IInv'
  OBVIOUS
<1>1. Stopped \in Links /\ Stopped.pc = "off" /\ ~Stopped.authenticated
      /\ ~IsUp(Stopped.status)
  BY SessionAssumption DEF Stopped, Links, Statuses, Credentials, IsUp
<1>2. env' \in [robot_token: RobotTokens, pairing_code: Credentials] /\ backend' \in Backends
  <2> PICK c \in Credentials :
        /\ env' = [env EXCEPT !.pairing_code = c]
        /\ backend' = [backend EXCEPT !.authed = FALSE,
                         !.codes = IF c = env.pairing_code THEN @ ELSE {c} \ {None}]
    BY DEF Restart, Credentials
  <2>1. {c} \ {None} \in SUBSET Codes
    BY DEF Credentials
  <2> QED
    BY <2>1 DEF Backends, IInv, Shape
<1>3. faults' \in 0..MaxFaults
  BY SessionAssumption DEF Restart, IInv, Shape
<1>4. Shape'
  BY <1>1, <1>2, <1>3, ClosedShape DEF Restart, IInv, Shape, Modes
<1>5. Sound'
  BY <1>1 DEF Restart, Sound, Works, Closed
<1> QED
  BY <1>4, <1>5 DEF IInv

LEMMA AnswerKeeps == IInv /\ Answer => IInv'
<1> SUFFICES ASSUME IInv, Answer PROVE IInv'
  OBVIOUS
<1> DEFINE a == socket.out
           taken == a.cred \in (IF a.method = "TOKEN" THEN backend.tokens ELSE backend.codes)
           yes == [kind |-> "SUCCESS", token |-> a.cred]
<1>1. socket \in Sockets /\ backend \in Backends /\ a \in Auths
      /\ hist \in [discarded: SUBSET Codes, refused: SUBSET Codes]
  BY DEF IInv, Shape, Sockets
<1>2. /\ backend' = [backend EXCEPT
             !.codes = IF a.method = "PAIRING_CODE" THEN @ \ {a.cred} ELSE @,
             !.tokens = IF taken THEN @ \cup {a.cred} ELSE @,
             !.authed = taken /\ socket.open /\ ~socket.closing]
      /\ hist' = [hist EXCEPT !.refused =
                    IF taken \/ a.method = "PAIRING_CODE" THEN @ ELSE @ \cup {a.cred}]
  BY DEF Answer
<1>3. PICK said \in {<<>>, <<[kind |-> "FAILED", token |-> None]>>} :
        socket' = IF ~socket.open \/ socket.closing THEN [socket EXCEPT !.out = NoAuth]
                  ELSE [socket EXCEPT !.out = NoAuth, !.closing = ~taken,
                                      !.in = IF taken THEN <<yes, yes>> ELSE said]
  BY DEF Answer
<1>4. backend' \in Backends
  <2>1. taken => a.cred \in Codes
    BY <1>1 DEF Backends
  <2> QED
    BY <1>1, <1>2, <2>1 DEF Backends
<1>5. hist' \in [discarded: SUBSET Codes, refused: SUBSET Codes]
  <2>1. a.method # "PAIRING_CODE" => a.cred \in Codes
    BY <1>1 DEF Answer, Auths
  <2> HIDE DEF taken
  <2> QED
    BY <1>1, <1>2, <2>1
<1>6. /\ socket' \in Sockets /\ socket'.open = socket.open
      /\ Works' => Works /\ taken
      /\ ~socket.open => socket'.in = socket.in
  <2>1. yes \in Events /\ [kind |-> "FAILED", token |-> None] \in Events
    BY <1>1 DEF Events, Auths, NoAuth, Credentials
  <2>2. <<yes, yes>> \in Seq(Events) /\ said \in Seq(Events)
    <3> HIDE DEF yes
    <3> QED
      BY <2>1, ShortSeqs
  <2>3. NoAuth \in Auths /\ taken \in BOOLEAN
    BY DEF Auths
  <2> HIDE DEF taken, yes
  <2>4. CASE ~socket.open \/ socket.closing
    BY <1>1, <1>3, <2>3, <2>4 DEF Sockets, Works
  <2>5. CASE ~(~socket.open \/ socket.closing)
    <3>1. socket' = [socket EXCEPT !.out = NoAuth, !.closing = ~taken,
                                   !.in = IF taken THEN <<yes, yes>> ELSE said]
      BY <1>3, <2>5
    <3> QED
      BY <1>1, <2>2, <2>3, <2>5, <3>1 DEF Sockets, Works
  <2> QED
    BY <2>4, <2>5
<1>7. link.pc # "off"
  BY DEF Answer, IInv, Shape, Closed
<1>8. Shape'
  BY <1>4, <1>5, <1>6, <1>7 DEF Answer, IInv, Shape
<1>9. Sound'
  <2>1. Works' => backend'.authed
    BY <1>1, <1>2, <1>6 DEF Backends, Works
  <2> QED
    BY <1>6, <1>7, <2>1 DEF Answer, IInv, Sound
<1> QED
  BY <1>8, <1>9 DEF IInv

LEMMA FaultsKeep == IInv /\ (Break \/ GoesDown \/ ComesBack \/ Expire \/ Revoke) => IInv'
<1> SUFFICES ASSUME IInv, Break \/ GoesDown \/ ComesBack \/ Expire \/ Revoke PROVE IInv'
  OBVIOUS
<1>1. /\ socket \in Sockets /\ backend \in Backends
      /\ UNCHANGED <<link, env, disk, mode, hist>>
  BY DEF Break, GoesDown, ComesBack, Expire, Revoke, IInv, Shape
<1>2. backend' \in Backends /\ (Works' => backend'.authed = backend.authed)
  <2>1. CASE Break
    BY <1>1, <2>1 DEF Break, Backends, Sockets, Works
  <2>2. CASE GoesDown
    BY <1>1, <2>2 DEF GoesDown, Backends, Sockets, Works
  <2>3. CASE ComesBack \/ Expire \/ Revoke
    BY <1>1, <2>3 DEF ComesBack, Expire, Revoke, Backends
  <2> QED
    BY <2>1, <2>2, <2>3
<1>3. /\ socket' \in Sockets /\ socket'.open = socket.open
      /\ Works' => Works
      /\ socket.in = <<>> => socket'.in = <<>>
      /\ socket = Closed => socket' = Closed
      /\ Works' => socket'.in = socket.in
  <2>1. CASE Break
    <3> PICK i \in 0..Len(socket.in), out \in {socket.out, NoAuth} :
          socket' = [socket EXCEPT !.closing = TRUE, !.in = SubSeq(@, 1, i), !.out = out]
      BY <2>1 DEF Break
    <3>1. socket.in \in Seq(Events) /\ socket.out \in Auths /\ NoAuth \in Auths
      BY <1>1 DEF Sockets, Auths
    <3>2. SubSeq(socket.in, 1, i) \in Seq(Events)
      BY <3>1, SubSeqProperties
    <3>3. socket.in = <<>> => SubSeq(socket.in, 1, i) = <<>>
      <4> SUFFICES ASSUME socket.in = <<>> PROVE SubSeq(<<>>, 1, 0) = <<>> /\ i = 0
        OBVIOUS
      <4> QED
        OBVIOUS
    <3>4. socket # Closed
      BY <2>1, ClosedFields DEF Break
    <3>5. socket' \in Sockets /\ socket'.open = socket.open /\ socket'.closing
          /\ socket'.in = SubSeq(socket.in, 1, i)
      BY <1>1, <3>1, <3>2 DEF Sockets
    <3> QED
      BY <3>3, <3>4, <3>5 DEF Works
  <2>2. CASE GoesDown
    <3>1. socket' = [socket EXCEPT !.closing = socket.open, !.out = NoAuth]
      BY <2>2 DEF GoesDown
    <3>2. NoAuth \in Auths
      BY DEF Auths
    <3>3. socket' \in Sockets /\ socket'.open = socket.open /\ socket'.closing = socket.open
          /\ socket'.in = socket.in /\ socket'.out = NoAuth
      BY <1>1, <3>1, <3>2 DEF Sockets
    <3>4. socket = Closed => socket' = Closed
      BY <3>3, ClosedFields
    <3> QED
      BY <3>3, <3>4 DEF Works
  <2>3. CASE ComesBack \/ Expire \/ Revoke
    BY <1>1, <2>3 DEF ComesBack, Expire, Revoke, Works
  <2> QED
    BY <2>1, <2>2, <2>3
<1>4. faults' \in 0..MaxFaults
  <2>1. faults \in 0..MaxFaults /\ MaxFaults \in Nat
    BY SessionAssumption DEF IInv, Shape
  <2>2. faults' = faults \/ (faults < MaxFaults /\ faults' = faults + 1)
    BY DEF Break, GoesDown, ComesBack, Expire, Revoke
  <2> QED
    BY <2>1, <2>2
<1>5. Shape'
  BY <1>1, <1>2, <1>3, <1>4 DEF IInv, Shape
<1>6. Sound'
  BY <1>1, <1>2, <1>3 DEF IInv, Sound
<1> QED
  BY <1>5, <1>6 DEF IInv

LEMMA StepKeeps == IInv /\ [Next]_vars => IInv'
<1>1. IInv /\ UNCHANGED vars => IInv'
  BY DEF vars, IInv, Shape, Sound, Works
<1>2. ASSUME IInv, NEW m \in Modes, Operate(m) PROVE IInv'
  BY <1>2 DEF Operate, IInv, Shape, Sound, Works
<1> QED
  BY <1>1, <1>2, StartKeeps, StopKeeps, OpensKeeps, ConnectEndsKeeps, AuthenticatedKeeps,
     AuthFailsKeeps, WakeKeeps, HandlersKeep, RestartKeeps, AnswerKeeps, FaultsKeep
     DEF Next, Run, Surroundings

LEMMA Invariance == Spec => []IInv
  BY InitIInv, StepKeeps, PTL DEF Spec

(***************************************************************************)
(* The theorems.                                                           *)
(***************************************************************************)
\* Every variable of the session keeps its type, and a link that is off leaves no socket open,
\* whatever the disk, the network and the backend do.
THEOREM TypeCorrect == Spec => []TypeOK
<1>1. IInv => TypeOK
  BY ShapeIsTypeOK DEF IInv
<1> QED
  BY <1>1, Invariance, PTL

\* However answers, time-outs, closings, restarts and stops of one connection after another
\* overtake each other, a link that counts as up on a working socket is one whose backend
\* authenticated that socket (BackendLink._run and its handlers).
THEOREM UpIsAuthenticatedHolds == Spec => []UpIsAuthenticated
<1>1. IInv => UpIsAuthenticated
  BY DEF IInv, Sound, Works, UpIsAuthenticated
<1> QED
  BY <1>1, Invariance, PTL
=============================================================================
