---------------------------- MODULE BackendSession ----------------------------
(***************************************************************************)
(* The life of the Rover's link to the backend (BackendLink._run and the   *)
(* Socket.IO handlers): connect anonymously, authenticate with a session   *)
(* token or a pairing code, stream, fall back, and pause the mission when  *)
(* the link stays lost; with the token on disk (TokenStore) and, outside   *)
(* src/, the Socket.IO client, the network and the backend.                *)
(*                                                                         *)
(* Handlers run on the event loop to their end, one at a time, in the      *)
(* order the events arrived; _run waits at its awaits, where they come in. *)
(***************************************************************************)
EXTENDS Integers, Sequences

CONSTANTS
  Codes,          \* pairing codes; a code is exchanged for the token of the same number
  RobotTokens,    \* values of cfg.robot_token; None: not configured
  LossPolicy,     \* "pause" or "continue"
  MaxAttempt,     \* bound: the attempt from which on the back-off outlasts loss_grace_s
  MaxFaults,      \* bound on lost sockets and answers, outages, restarts, revocations
  ReadOutcomes,   \* whether the token file can be read, ...
  SaveOutcomes,   \* ... written ...
  ClearOutcomes,  \* ... and removed
  LoopMayFail     \* can the publish loop raise?

None == 0

ASSUME SessionAssumption ==
  /\ Codes \subseteq Nat \ {None} /\ RobotTokens \subseteq Codes \cup {None}
  /\ LossPolicy \in {"pause", "continue"}
  /\ MaxAttempt \in Nat \ {0} /\ MaxFaults \in Nat
  /\ ReadOutcomes \cup SaveOutcomes \cup ClearOutcomes \cup {LoopMayFail} \subseteq BOOLEAN

VARIABLES
  link,     \* BackendLink: where _run is (pc), its status, events, credential, loss
  env,      \* the process's configuration: robot_token and pairing_code
  disk,     \* TokenStore: the token in the file, or None
  mode,     \* the agent's operating mode
  socket,   \* the client: open, closing, the AUTH on its way out, the events on their way in
  backend,  \* up, the codes and tokens it takes, whether it authenticated this socket
  faults,   \* how many faults have happened
  hist      \* ghost: the tokens the Rover discarded and those the backend refused

vars == <<link, env, disk, mode, socket, backend, faults, hist>>

Modes == {"IDLE", "AUTO", "PAUSED", "STOPPED"}
Statuses == {"CONNECTING", "CONNECTED", "AUTHENTICATING", "AUTHENTICATED", "STREAMING",
             "DISCONNECTED", "AUTH_FAILED"}
IsUp(status) == status \in {"AUTHENTICATED", "STREAMING"}

Stopped == [pc |-> "off", status |-> "DISCONNECTED", authenticated |-> FALSE,
            auth_failed |-> FALSE, method |-> "none", cred |-> None, attempt |-> 0,
            refused |-> FALSE, down |-> "no", acted |-> FALSE, connects |-> FALSE]
NoAuth == [method |-> "none", cred |-> None]
Closed == [open |-> FALSE, closing |-> FALSE, out |-> NoAuth, in |-> <<>>]

Init ==
  /\ link = Stopped
  /\ \E t \in RobotTokens, c \in Codes \cup {None} :
       /\ env = [robot_token |-> t, pairing_code |-> c]
       /\ backend = [up |-> TRUE, codes |-> {c} \ {None}, tokens |-> {t} \ {None}, authed |-> FALSE]
  /\ disk = None
  /\ mode = "IDLE"
  /\ socket = Closed
  /\ faults = 0
  /\ hist = [discarded |-> {}, refused |-> {}]

-----------------------------------------------------------------------------
(* Credentials *)

\* TokenStore: a token that cannot be read is none, one that cannot be written or removed
\* leaves what was there.
load(readable) == IF readable THEN disk ELSE None
save(token, saved) == disk' = IF token # None /\ saved THEN token ELSE disk
clear(removed) == disk' = IF removed THEN None ELSE disk

\* build_auth_payload: a token before a pairing code, or nothing to authenticate with.
AuthPayload(token, code) ==
  IF token # None THEN [method |-> "TOKEN", cred |-> token]
  ELSE IF code # None THEN [method |-> "PAIRING_CODE", cred |-> code] ELSE NoAuth

\* _available_credential: the configured token, else the stored one, else the code.
Credential(readable) ==
  IF env.robot_token # None THEN AuthPayload(env.robot_token, None)
  ELSE AuthPayload(load(readable), env.pairing_code)

-----------------------------------------------------------------------------
(* What the handlers do to the link *)

\* disconnect: while AUTH is unanswered it counts as a refusal and leaves the status alone.
AfterDisconnect(l) ==
  [l EXCEPT !.authenticated = FALSE,
            !.down = "short",
            !.auth_failed = @ \/ l.status \in {"CONNECTED", "AUTHENTICATING"},
            !.status = IF @ \in {"CONNECTED", "AUTHENTICATING"} THEN @ ELSE "DISCONNECTED"]

\* connect, with _send_auth.
AfterConnect(l, auth) ==
  LET c == [l EXCEPT !.down = "no", !.acted = FALSE, !.connects = TRUE, !.status = "CONNECTED"]
  IN IF auth = NoAuth THEN [c EXCEPT !.auth_failed = TRUE]
     ELSE [c EXCEPT !.method = auth.method, !.cred = auth.cred, !.status = "AUTHENTICATING"]

\* _connect_once up to the await of sio.connect.
Connecting(l) ==
  [l EXCEPT !.pc = "connect", !.status = "CONNECTING",
            !.authenticated = FALSE, !.auth_failed = FALSE]

-----------------------------------------------------------------------------
(* _run *)

\* start.
Start ==
  /\ link.pc = "off"
  /\ link' = Connecting(link)
  /\ UNCHANGED <<env, disk, mode, socket, backend, faults, hist>>

\* Mutant: stop leaves the socket to its own end.
StopKeepsSocket ==
  /\ link.pc # "off"
  /\ link' = [link EXCEPT !.pc = "off", !.authenticated = FALSE, !.status = "DISCONNECTED"]
  /\ UNCHANGED <<env, disk, mode, socket, backend, faults, hist>>

\* stop: the task is cancelled and the socket disconnected, whose handler runs in between.
Stop ==
  /\ link.pc # "off"
  /\ LET l == IF socket.open THEN AfterDisconnect(link) ELSE link
     IN link' = [l EXCEPT !.pc = "off", !.authenticated = FALSE, !.status = "DISCONNECTED"]
  /\ socket' = Closed
  /\ backend' = [backend EXCEPT !.authed = FALSE]
  /\ UNCHANGED <<env, disk, mode, faults, hist>>

\* sio.connect opens the socket and the connect handler emits AUTH.
Opens ==
  /\ link.pc = "connect" /\ link.status = "CONNECTING" /\ backend.up
  /\ \E readable \in ReadOutcomes :
       LET auth == Credential(readable)
       IN /\ link' = AfterConnect(link, auth)
          /\ socket' = [Closed EXCEPT !.open = TRUE, !.out = auth]
  /\ backend' = [backend EXCEPT !.authed = FALSE]
  /\ UNCHANGED <<env, disk, mode, faults, hist>>

ConnectReturns ==
  /\ link.pc = "connect" /\ socket.open
  /\ link' = [link EXCEPT !.pc = "auth"]
  /\ UNCHANGED <<env, disk, mode, socket, backend, faults, hist>>

\* _run's handling of a sio.connect that raised.
Raised(l) == [l EXCEPT !.status = "DISCONNECTED", !.pc = "sleep", !.refused = FALSE]

\* sio.connect raises: the backend is away, or the socket closed again before it returned.
ConnectRaises ==
  /\ link.pc = "connect" /\ ~socket.open
  /\ link.status = "CONNECTING" => ~backend.up
  /\ link' = Raised(link)
  /\ UNCHANGED <<env, disk, mode, socket, backend, faults, hist>>

\* Mutant: no answer in time, and none that refuses, is taken for a yes.
AuthenticatedUnlessRefused ==
  /\ link.pc = "auth" /\ (link.authenticated \/ ~link.auth_failed)
  /\ link' = [link EXCEPT !.pc = "publish", !.attempt = 0, !.status = "STREAMING"]
  /\ UNCHANGED <<env, disk, mode, socket, backend, faults, hist>>

\* _await_authentication returns True; the publish loop starts.
Authenticated ==
  /\ link.pc = "auth" /\ link.authenticated
  /\ link' = [link EXCEPT !.pc = "publish", !.attempt = 0, !.status = "STREAMING"]
  /\ UNCHANGED <<env, disk, mode, socket, backend, faults, hist>>

\* An answer, or the AUTH itself, is still on its way.
Answering == socket.open /\ (socket.out # NoAuth \/ socket.in # <<>> \/ socket.closing)

Scheduled(in) == IF in = <<>> THEN in ELSE <<Head(in)>>

\* Mutant: a token that was refused stays, and the pairing code is never tried.
TokenKept ==
  /\ link.pc = "auth" /\ ~link.authenticated
  /\ IF link.auth_failed \/ ~Answering THEN UNCHANGED faults
     ELSE faults < MaxFaults /\ faults' = faults + 1
  /\ LET l == [link EXCEPT !.status = "AUTH_FAILED", !.pc = "sleep", !.refused = TRUE]
     IN link' = IF socket.open THEN AfterDisconnect(l) ELSE l
  /\ socket' = [Closed EXCEPT !.in = IF socket.open THEN Scheduled(socket.in) ELSE <<>>]
  /\ backend' = [backend EXCEPT !.authed = FALSE]
  /\ UNCHANGED <<env, mode, disk, hist>>

\* _await_authentication returns False (refused, closed, or no answer in time) and
\* _handle_auth_failure discards a stored token and disconnects.  An answer whose handler is
\* already scheduled still runs.  A time-out that beats an answer is a fault.
AuthFails ==
  /\ link.pc = "auth" /\ ~link.authenticated
  /\ IF link.auth_failed \/ ~Answering THEN UNCHANGED faults
     ELSE faults < MaxFaults /\ faults' = faults + 1
  /\ \E removed \in ClearOutcomes :
       IF link.method = "TOKEN" /\ env.robot_token = None
       THEN /\ clear(removed)
            /\ hist' = [hist EXCEPT !.discarded = @ \cup ({disk} \ {disk', None})]
       ELSE UNCHANGED <<disk, hist>>
  /\ LET l == [link EXCEPT !.status = "AUTH_FAILED", !.pc = "sleep", !.refused = TRUE]
     IN link' = IF socket.open THEN AfterDisconnect(l) ELSE l
  /\ socket' = [Closed EXCEPT !.in = IF socket.open THEN Scheduled(socket.in) ELSE <<>>]
  /\ backend' = [backend EXCEPT !.authed = FALSE]
  /\ UNCHANGED <<env, mode>>

\* _publish_loop ends: the link is no longer up, or something in it raised.
PublishEnds ==
  /\ link.pc = "publish"
  /\ \/ ~IsUp(link.status) /\ UNCHANGED faults
     \/ LoopMayFail /\ faults < MaxFaults /\ faults' = faults + 1
  /\ link' = [link EXCEPT !.pc = "sleep", !.refused = FALSE]
  /\ UNCHANGED <<env, disk, mode, socket, backend, hist>>

\* Mutant: the time the link is lost is not looked at while a refusal is slept off.
PauseUnlessRefused ==
  /\ link.pc = "sleep" /\ LossPolicy = "pause" /\ ~link.refused
  /\ ~link.acted /\ link.down = "long" /\ mode = "AUTO"

\* _apply_loss_policy has something to do.
PauseDue ==
  /\ link.pc = "sleep" /\ LossPolicy = "pause"
  /\ ~link.acted /\ link.down = "long" /\ mode = "AUTO"

\* _sleep_while_running calls _apply_loss_policy.
Pause ==
  /\ PauseDue
  /\ mode' = "PAUSED"
  /\ link' = [link EXCEPT !.acted = TRUE]
  /\ UNCHANGED <<env, disk, socket, backend, faults, hist>>

\* The sleep is over.  After a refusal (60 s) and from MaxAttempt on it outlasts the grace
\* period (30 s), whose end the policy has then seen.  A client that is still connected,
\* which it is when the publish loop failed, refuses to connect again at once.
OutlastsGrace == link.refused \/ link.attempt = MaxAttempt
Wake ==
  /\ link.pc = "sleep"
  /\ OutlastsGrace => link.down # "short" /\ ~PauseDue
  /\ LET l == Connecting([link EXCEPT !.attempt = IF @ < MaxAttempt THEN @ + 1 ELSE @])
     IN link' = IF socket.open THEN Raised(l) ELSE l
  /\ socket' = [socket EXCEPT !.in = IF socket.open THEN @ ELSE <<>>]
  /\ UNCHANGED <<env, disk, mode, backend, faults, hist>>

GraceElapses ==
  /\ link.down = "short"
  /\ link' = [link EXCEPT !.down = "long"]
  /\ UNCHANGED <<env, disk, mode, socket, backend, faults, hist>>

-----------------------------------------------------------------------------
(* Handlers of what the backend sends *)

\* _on_auth_success: AUTH_SUCCESS, or AUTH_OK, which says the same a second time.
OnAuthSuccess ==
  /\ socket.in # <<>> /\ Head(socket.in).kind = "SUCCESS"
  /\ socket' = [socket EXCEPT !.in = Tail(@)]
  /\ IF link.authenticated THEN UNCHANGED <<link, disk>>
     ELSE /\ \E saved \in SaveOutcomes : save(Head(socket.in).token, saved)
          /\ link' = [link EXCEPT !.authenticated = TRUE, !.status = "AUTHENTICATED"]
  /\ UNCHANGED <<env, mode, backend, faults, hist>>

OnAuthFailed ==
  /\ socket.in # <<>> /\ Head(socket.in).kind = "FAILED"
  /\ socket' = [socket EXCEPT !.in = Tail(@)]
  /\ link' = [link EXCEPT !.auth_failed = TRUE]
  /\ UNCHANGED <<env, disk, mode, backend, faults, hist>>

\* The end of the connection is noticed once everything before it was handled.
OnDisconnect ==
  /\ socket.open /\ socket.closing /\ socket.in = <<>>
  /\ link' = AfterDisconnect(link)
  /\ socket' = [Closed EXCEPT !.out = socket.out]
  /\ UNCHANGED <<env, disk, mode, backend, faults, hist>>

-----------------------------------------------------------------------------
(* The agent, the backend and the network *)

\* Whatever else sets the mode: a mission, the operator at the Rover.
Operate(m) ==
  /\ mode' = m
  /\ UNCHANGED <<link, env, disk, socket, backend, faults, hist>>

\* The process dies and comes back, perhaps with a new pairing code in its environment.
Restart ==
  /\ faults < MaxFaults /\ faults' = faults + 1
  /\ link' = Stopped /\ mode' = "IDLE" /\ socket' = Closed
  /\ \E c \in Codes \cup {None} :
       /\ env' = [env EXCEPT !.pairing_code = c]
       /\ c # env.pairing_code => c \notin backend.tokens \cup hist.refused \cup hist.discarded
       /\ backend' = [backend EXCEPT !.authed = FALSE,
                                     !.codes = IF c = env.pairing_code THEN @ ELSE {c} \ {None}]
  /\ UNCHANGED <<disk, hist>>

\* The backend takes a token it issued, exchanges a code once, and refuses by closing.
Answer ==
  /\ backend.up /\ socket.out # NoAuth
  /\ LET a == socket.out
         taken == a.cred \in (IF a.method = "TOKEN" THEN backend.tokens ELSE backend.codes)
         yes == [kind |-> "SUCCESS", token |-> a.cred]
     IN /\ backend' = [backend EXCEPT
             !.codes = IF a.method = "PAIRING_CODE" THEN @ \ {a.cred} ELSE @,
             !.tokens = IF taken THEN @ \cup {a.cred} ELSE @,
             !.authed = taken /\ socket.open /\ ~socket.closing]
        /\ hist' = [hist EXCEPT !.refused =
                      IF taken \/ a.method = "PAIRING_CODE" THEN @ ELSE @ \cup {a.cred}]
        /\ \E said \in {<<>>, <<[kind |-> "FAILED", token |-> None]>>} :
             socket' = IF ~socket.open \/ socket.closing THEN [socket EXCEPT !.out = NoAuth]
                       ELSE [socket EXCEPT !.out = NoAuth, !.closing = ~taken,
                                           !.in = IF taken THEN <<yes, yes>> ELSE said]
  /\ UNCHANGED <<link, env, disk, mode, faults>>

\* The network loses the connection, with or without what was on its way.
Break ==
  /\ faults < MaxFaults /\ faults' = faults + 1
  /\ socket.open /\ ~socket.closing
  /\ \E i \in 0..Len(socket.in), out \in {socket.out, NoAuth} :
       socket' = [socket EXCEPT !.closing = TRUE, !.in = SubSeq(@, 1, i), !.out = out]
  /\ backend' = [backend EXCEPT !.authed = FALSE]
  /\ UNCHANGED <<link, env, disk, mode, hist>>

\* The backend goes down, and its sockets with it; it comes back with its sessions.
GoesDown ==
  /\ faults < MaxFaults /\ faults' = faults + 1
  /\ backend.up
  /\ backend' = [backend EXCEPT !.up = FALSE, !.authed = FALSE]
  /\ socket' = [socket EXCEPT !.closing = socket.open, !.out = NoAuth]
  /\ UNCHANGED <<link, env, disk, mode, hist>>

ComesBack ==
  /\ ~backend.up
  /\ backend' = [backend EXCEPT !.up = TRUE]
  /\ UNCHANGED <<link, env, disk, mode, socket, faults, hist>>

\* A code expires after 300 s; a token can be revoked.
Expire ==
  /\ backend.codes # {}
  /\ backend' = [backend EXCEPT !.codes = {}]
  /\ UNCHANGED <<link, env, disk, mode, socket, faults, hist>>

Revoke ==
  /\ faults < MaxFaults /\ faults' = faults + 1
  /\ \E t \in backend.tokens : backend' = [backend EXCEPT !.tokens = @ \ {t}]
  /\ UNCHANGED <<link, env, disk, mode, socket, hist>>

Run == \/ Opens \/ ConnectReturns \/ ConnectRaises \/ Authenticated
       \/ AuthFails \/ PublishEnds \/ Pause \/ Wake
Handlers == OnAuthSuccess \/ OnAuthFailed \/ OnDisconnect
Surroundings == Restart \/ Answer \/ Break \/ GoesDown \/ ComesBack \/ Expire \/ Revoke

Next ==
  \/ Start \/ Stop \/ Run \/ GraceElapses \/ Handlers
  \/ \E m \in Modes : Operate(m)
  \/ Surroundings

Spec == Init /\ [][Next]_vars

\* The event loop runs every task that is ready, and clocks advance.  The connect handler
\* sets the event sio.connect waits for, so sio.connect is not overtaken for ever by a
\* refusal that first has to travel to the backend and back; and a sleep ends whatever
\* the mode does meanwhile.  The backend answers, and comes back when it was down.
FairSpec ==
  /\ Spec
  /\ WF_vars(Opens) /\ WF_vars(ConnectRaises) /\ SF_vars(ConnectReturns)
  /\ WF_vars(Authenticated) /\ WF_vars(AuthFails) /\ WF_vars(PublishEnds)
  /\ WF_vars(Pause) /\ SF_vars(Wake) /\ WF_vars(Handlers)
  /\ WF_vars(GraceElapses) /\ WF_vars(Answer) /\ WF_vars(ComesBack)

-----------------------------------------------------------------------------
(* Properties *)

Auths == {NoAuth} \cup [method: {"TOKEN", "PAIRING_CODE"}, cred: Codes]

\* The type of the link, the socket and the backend; a link that is off has no socket.
TypeOK ==
  /\ link.pc = "off" => socket = Closed
  /\ link \in [pc: {"off", "connect", "auth", "publish", "sleep"}, status: Statuses,
               authenticated: BOOLEAN, auth_failed: BOOLEAN,
               method: {"none", "TOKEN", "PAIRING_CODE"}, cred: Codes \cup {None},
               attempt: 0..MaxAttempt, refused: BOOLEAN, down: {"no", "short", "long"},
               acted: BOOLEAN, connects: BOOLEAN]
  /\ env \in [robot_token: RobotTokens, pairing_code: Codes \cup {None}]
  /\ disk \in Codes \cup {None} /\ mode \in Modes /\ faults \in 0..MaxFaults
  /\ socket \in [open: BOOLEAN, closing: BOOLEAN, out: Auths,
                 in: Seq([kind: {"SUCCESS", "FAILED"}, token: Codes \cup {None}])]
  /\ backend \in [up: BOOLEAN, codes: SUBSET Codes, tokens: SUBSET Codes, authed: BOOLEAN]
  /\ hist \in [discarded: SUBSET Codes, refused: SUBSET Codes]

\* "Nothing but AUTH is emitted before authentication": whenever the link counts as up on a
\* socket that works, the backend has authenticated this very socket, whatever answers,
\* time-outs and closings of earlier ones were still under way.
UpIsAuthenticated ==
  IsUp(link.status) /\ socket.open /\ ~socket.closing => backend.authed

\* The backend still takes a credential that the Rover tries or will fall back to: the
\* configured token, which is never given up; otherwise the stored one, or the pairing code.
Recoverable ==
  LET usable == IF env.robot_token # None THEN {env.robot_token} \cap backend.tokens
                ELSE {disk} \cap backend.tokens
  IN usable # {} \/ (env.robot_token = None /\ env.pairing_code \in backend.codes)

\* The link gets back to streaming after any fault, as long as the backend would still take
\* a credential the Rover has, unless it is stopped.
GetsBack ==
  link.pc # "off" ~> link.status = "STREAMING" \/ ~Recoverable \/ link.pc = "off"

\* When a link that was once there stays lost, a mission that drives is paused, in whatever
\* way connecting and authenticating go on failing; once, until the link is back.
LostLinkPauses ==
  LossPolicy = "pause" =>
    (mode = "AUTO" /\ link.connects /\ link.status # "STREAMING"
       ~> mode # "AUTO" \/ link.status = "STREAMING" \/ link.acted \/ link.pc = "off"
          \/ ~link.connects)
=============================================================================
