------------------------------ MODULE Admission ------------------------------
(***************************************************************************)
(* How a call of a client becomes a flow of a server: the connection, its  *)
(* permit of the server's active-connection budget, the 0-RTT early open   *)
(* with its replay admission and its single fallback, and the OPEN/STATUS  *)
(* exchange (transport.rs, flow.rs, recovery.rs, session.rs).              *)
(*                                                                         *)
(* A call is one connect_replay_safe or one connect followed by open_flow; *)
(* both carry the same initial bytes.  CAPABILITIES travels with the frame *)
(* that follows it.  The transport under it (noq: handshake, 0-RTT,        *)
(* streams, close) is external.                                            *)
(***************************************************************************)
EXTENDS ReplayAdmission

CONSTANTS
    Calls,              \* the calls of the clients, one connection each
    PeerOf,             \* the address each of them comes from
    max_active,         \* of the connection budget
    Profiles,           \* how the applications may be set up: mutual TLS or no security,
                        \* whether the clients speak the adaptive mode, whether the server
                        \* accepts replay-safe opens, and its connections per peer
    EarlyLimit,        \* the recovery budget, in initial payloads
    ServerAdaptive, ServerRequires      \* the server's mode and require_adaptive

ASSUME AdmissionAssumption ==
    /\ max_active \in Nat \ {0}
    /\ Profiles \subseteq [security : {"tls", "none"}, adaptive : BOOLEAN,
                           replay_safe : BOOLEAN, max_per_peer : 1 .. max_active]
    /\ EarlyLimit \in Nat
    /\ Capabilities = BOOLEAN /\ ServerAdaptive \in BOOLEAN
    /\ IsFiniteSet(Calls)

Peers == {PeerOf[c] : c \in Calls}

VARIABLES
    profile,    \* the one in use
    call,       \* the client's side of each call
    link,       \* the backend connection of each call
    server,     \* the server's side of each call
    active, per_peer,   \* ConnectionBudget
    reserved,       \* RecoveryMemoryBudget: the initial payloads charged to it
    exposed,    \* how often the server's application got the call's initial bytes
    denied      \* the calls whose early open the server refused

sides == <<call, link, server>>
budget == <<active, per_peer>>
history == <<exposed, denied>>
admissionVars == <<replayVars, profile, sides, budget, reserved, history>>

NoToken == [identity |-> "none"]

Idle == [pc |-> "idle", result |-> "none", token |-> NoToken,
         nonce |-> CHOOSE n \in Nonces : TRUE]
NewLink == [open |-> FALSE, handshake |-> "pending", zero_rtt |-> "none", up |-> "none", down |-> "none"]
NoServer == [pc |-> "none", handle |-> FALSE, flow |-> "none",
             charge |-> 0, reading |-> 0]

AdmissionInit ==
    /\ ReplayInit
    /\ profile \in Profiles
    /\ call = [c \in Calls |-> Idle]
    /\ link = [c \in Calls |-> NewLink]
    /\ server = [c \in Calls |-> NoServer]
    /\ active = 0 /\ per_peer = [p \in Peers |-> 0]
    /\ reserved = 0
    /\ exposed = [c \in Calls |-> 0] /\ denied = {}

-----------------------------------------------------------------------------
\* The capabilities both ends support, and the one each end insists on.

negotiated == ServerAdaptive /\ profile.adaptive

negotiate_capabilities == ServerRequires => negotiated

-----------------------------------------------------------------------------
\* ConnectionBudget

try_acquire(c) == active < max_active /\ per_peer[PeerOf[c]] < profile.max_per_peer

Acquired(c) ==
    /\ active' = active + 1
    /\ per_peer' = [per_peer EXCEPT ![PeerOf[c]] = @ + 1]

\* Bug: the permit's drop leaves the peer's count.
ReleasedGlobally(c) ==
    /\ active' = IF active = 0 THEN 0 ELSE active - 1
    /\ UNCHANGED per_peer

Released(c) ==
    /\ active' = IF active = 0 THEN 0 ELSE active - 1
    /\ per_peer' = [per_peer EXCEPT ![PeerOf[c]] = IF @ = 0 THEN 0 ELSE @ - 1]

\* A permit lives in the connection's handle and in every flow made from it.
Holds(s) == s.handle \/ s.flow \in {"checking", "pending", "open"}

\* The server's side becomes s: a permit no one holds any more is dropped.  The
\* connection closes with it unless the task of a dropped flow still drains.
Becomes(c, s, l) ==
    /\ server' = [server EXCEPT ![c] = s]
    /\ reserved' = reserved - server[c].charge + s.charge
    /\ IF Holds(server[c]) /\ ~Holds(s)
       THEN /\ Released(c)
            /\ link' = [link EXCEPT ![c] = [l EXCEPT !.open = @ /\ s.flow = "detached"]]
       ELSE UNCHANGED budget /\ link' = [link EXCEPT ![c] = l]

-----------------------------------------------------------------------------
\* The client.

ClientOnly == <<replayVars, profile, server, budget, reserved, history>>

Moves(c, pc, l) ==
    /\ call' = [call EXCEPT ![c].pc = pc, ![c].result = "none"]
    /\ link' = [link EXCEPT ![c] = l]
    /\ UNCHANGED ClientOnly

\* An error: the connection of the call is dropped with it.
Fails(c) == Moves(c, "failed", [link[c] EXCEPT !.open = FALSE, !.down = "none"])

\* connect_replay_safe, and connect: early data needs a token and a transport
\* that remembers the server.
Connect(c, early) ==
    /\ call[c].pc = "idle"
    /\ \E token \in IF early THEN tokens ELSE {NoToken}, nonce \in Nonces :
           call' = [call EXCEPT ![c] = [@ EXCEPT !.pc = IF early THEN "early" ELSE "connecting",
                                                 !.token = token, !.nonce = nonce]]
    /\ link' = [link EXCEPT ![c] = [@ EXCEPT !.open = TRUE,
                                             !.zero_rtt = IF early THEN "offered" ELSE "none",
                                             !.up = IF early THEN "early" ELSE "none"]]
    /\ UNCHANGED ClientOnly

\* open_replay_safe_backend ends: with a status, or without its stream.
EarlyEnds(c) ==
    /\ call[c].pc = "early"
    /\ \/ link[c].down # "none"
       \/ ~link[c].open
       \/ link[c].zero_rtt = "rejected" /\ link[c].handshake # "pending"
    /\ call' = [call EXCEPT ![c].pc = "verdict",
                            ![c].result = IF link[c].down = "ok" THEN "ok" ELSE "error"]
    /\ link' = [link EXCEPT ![c].down = "none"]
    /\ UNCHANGED ClientOnly

\* The connection is up and install_required_backup has ended, where a backup is
\* required; it fails or the call goes on, with an ordinary open unless it has a flow.
BackupInstalled(c, installed, has_flow) ==
    CASE ~installed             -> Fails(c)
      [] installed /\ has_flow  -> Moves(c, "done", link[c])
      [] installed /\ ~has_flow -> Moves(c, "open", [link[c] EXCEPT !.up = "open"])

\* Bug: an accepted early open that was refused is tried again as an ordinary one.
AcceptedFallsBack(c, installed) ==
    /\ call[c].pc = "verdict" /\ link[c].open /\ link[c].handshake # "pending"
    /\ BackupInstalled(c, installed, link[c].zero_rtt = "accepted" /\ call[c].result = "ok")

\* accepted.await, the verdict of the transport on the early data.
Accepted(c, installed) ==
    /\ call[c].pc = "verdict" /\ link[c].open /\ link[c].handshake # "pending"
    /\ IF link[c].zero_rtt = "accepted" /\ call[c].result = "error"
       THEN Fails(c)
       ELSE BackupInstalled(c, installed, link[c].zero_rtt = "accepted")

\* finish_connection
Connected(c, installed) ==
    /\ call[c].pc = "connecting" /\ link[c].open /\ link[c].handshake # "pending"
    /\ BackupInstalled(c, installed, FALSE)

\* open_backend reads the status, and write_all_initial sends the bytes once.
Opened(c) ==
    /\ call[c].pc = "open" /\ link[c].open /\ link[c].down # "none"
    /\ IF link[c].down = "ok" THEN Moves(c, "done", [link[c] EXCEPT !.up = "data", !.down = "none"])
                              ELSE Fails(c)

\* Whatever the call awaits ends with the connection.
Aborted(c) ==
    /\ call[c].pc \in {"verdict", "connecting", "open"}
    /\ ~link[c].open
    /\ Fails(c)

-----------------------------------------------------------------------------
\* The transport.

TransportOnly == <<replayVars, profile, call, server, budget, reserved, history>>

\* The client's side of the handshake completes, then the server's.
Handshake(c) ==
    /\ link[c].open /\ server[c].pc \in {"handshake", "live"}
    /\ link[c].handshake # "both"
    /\ link' = [link EXCEPT ![c].handshake = IF @ = "pending" THEN "client" ELSE "both"]
    /\ UNCHANGED TransportOnly

\* Nothing a finished call promised depends on its connection any more.
Lost(c) ==
    /\ link[c].open /\ call[c].pc # "done"
    /\ link' = [link EXCEPT ![c].open = FALSE]
    /\ UNCHANGED TransportOnly

-----------------------------------------------------------------------------
\* The server.

ServerOnly == <<replayVars, profile, call, history>>

\* IncomingConnection::handshake and ::accept_replay_safe take a permit first.  The
\* cryptographic session then settles whether the early data are accepted.
Incoming(c) ==
    /\ link[c].open /\ server[c].pc = "none"
    /\ IF ~try_acquire(c)
       THEN /\ server' = [server EXCEPT ![c].pc = "refused"]
            /\ link' = [link EXCEPT ![c].open = FALSE]
            /\ UNCHANGED budget
       ELSE /\ Acquired(c)
            /\ server' = [server EXCEPT ![c] = [@ EXCEPT !.pc = IF profile.replay_safe THEN "live" ELSE "handshake",
                                                         !.handle = TRUE]]
            /\ \E zero_rtt \in IF link[c].zero_rtt = "none" THEN {"none"} ELSE {"accepted", "rejected"} :
                   link' = [link EXCEPT ![c].zero_rtt = zero_rtt,
                                        ![c].up = IF zero_rtt = "rejected" THEN "none" ELSE @]
    /\ UNCHANGED reserved /\ UNCHANGED ServerOnly

\* incoming.await ends, or its future is dropped.
HandshakeEnds(c) ==
    /\ server[c].pc = "handshake"
    /\ \/ link[c].handshake = "both" /\ Becomes(c, [server[c] EXCEPT !.pc = "live"], link[c])
       \/ Becomes(c, [server[c] EXCEPT !.pc = "gone", !.handle = FALSE], link[c])
    /\ UNCHANGED ServerOnly

\* The stream is dropped or reset before a flow is made: the opener's read ends.
Dropped(c) == [link[c] EXCEPT !.up = "none", !.down = "reset"]

Early(c) == link[c].up = "early"

\* accept_flow_backend: after authentication, CAPABILITIES and OPEN.
AcceptFlow(c) ==
    /\ server[c].pc = "live" /\ server[c].handle /\ ~profile.replay_safe
    /\ server[c].flow = "none"
    /\ link[c].handshake = "both" /\ link[c].up \in {"open", "early"}
    /\ IF ~Early(c) /\ negotiate_capabilities
       THEN Becomes(c, [server[c] EXCEPT !.flow = "pending"], [link[c] EXCEPT !.up = "none"])
       ELSE Becomes(c, server[c], Dropped(c))
    /\ denied' = IF Early(c) THEN denied \cup {c} ELSE denied
    /\ UNCHANGED <<replayVars, profile, call, exposed>>

\* What admit_negotiated finds: the no-security handshake vouches for nothing and
\* never waits, mutual TLS has the peer's certificate at its end.
Evident(c) == profile.security = "none" \/ link[c].handshake = "both"

\* accept_replay_safe_backend up to admit: an ordinary OPEN waits for authentication,
\* an early one for the evidence; then its bytes are charged and the clock is read.
AcceptReplaySafe(c) ==
    LET refused == ~negotiate_capabilities \/ (Early(c) /\ Evident(c) /\ reserved = EarlyLimit)
    IN  /\ server[c].pc = "live" /\ server[c].handle /\ profile.replay_safe
        /\ server[c].flow = "none" /\ link[c].up \in {"open", "early"}
        /\ \/ /\ refused
              /\ Becomes(c, server[c], Dropped(c))
           \/ /\ ~refused /\ ~Early(c) /\ link[c].handshake = "both"
              /\ Becomes(c, [server[c] EXCEPT !.flow = "pending"], [link[c] EXCEPT !.up = "none"])
           \/ /\ ~refused /\ Early(c) /\ Evident(c)
              /\ Becomes(c, [server[c] EXCEPT !.flow = "checking", !.charge = 1, !.reading = clock],
                         [link[c] EXCEPT !.up = "none"])
        /\ denied' = IF refused /\ Early(c) THEN denied \cup {c} ELSE denied
        /\ UNCHANGED <<replayVars, profile, call, exposed>>

\* ReplayAdmission::admit: the application sees the bytes only if it succeeds.
Admit(c) ==
    LET s == server[c]
        attempt == <<call[c].token.identity, call[c].nonce>>
        presentable == Presentable(call[c].token, negotiated, s.reading)
        admits == presentable /\ Admits(attempt, s.reading)
    IN  /\ s.flow = "checking"
        /\ IF presentable THEN Remember(call[c].token, call[c].nonce, s.reading)
                          ELSE UNCHANGED replayVars
        /\ IF admits
           THEN /\ Becomes(c, [s EXCEPT !.flow = "pending", !.reading = 0], link[c])
                /\ exposed' = [exposed EXCEPT ![c] = @ + 1] /\ UNCHANGED denied
           ELSE /\ Becomes(c, [s EXCEPT !.flow = "none", !.charge = 0, !.reading = 0], Dropped(c))
                /\ denied' = denied \cup {c} /\ UNCHANGED exposed
        /\ UNCHANGED <<profile, call>>

\* PendingFlow::accept and ::reject.
Decide(c, accepts) ==
    /\ server[c].flow = "pending"
    /\ IF accepts /\ link[c].open
       THEN Becomes(c, [server[c] EXCEPT !.flow = "open"], [link[c] EXCEPT !.down = "ok"])
       ELSE Becomes(c, [server[c] EXCEPT !.flow = "closed", !.charge = 0],
                    [link[c] EXCEPT !.down = IF accepts THEN "reset" ELSE "refused"])
    /\ UNCHANGED ServerOnly

\* The application reads the initial bytes: those the flow was made with, or those
\* that came after the status.
ReadEarly(c) ==
    /\ server[c].flow = "open"
    /\ \/ /\ server[c].charge = 1 /\ Becomes(c, [server[c] EXCEPT !.charge = 0], link[c])
          /\ UNCHANGED exposed
       \/ /\ link[c].up = "data" /\ Becomes(c, server[c], [link[c] EXCEPT !.up = "none"])
          /\ exposed' = [exposed EXCEPT ![c] = @ + 1]
    /\ UNCHANGED <<replayVars, profile, call, denied>>

\* The application drops its flow, or its connection.
DropFlow(c) ==
    /\ server[c].flow \in {"pending", "open"}
    /\ Becomes(c, [server[c] EXCEPT !.flow = IF @ = "open" THEN "detached" ELSE "closed",
                                    !.charge = 0],
               [link[c] EXCEPT !.down = IF server[c].flow = "pending" THEN "reset" ELSE @])
    /\ UNCHANGED ServerOnly

DropConnection(c) ==
    /\ server[c].pc = "live" /\ server[c].handle /\ server[c].flow # "checking"
    /\ Becomes(c, [server[c] EXCEPT !.handle = FALSE], link[c])
    /\ UNCHANGED ServerOnly

\* issue_replay_token: only a connection that has negotiated has a fingerprint.
IssueToken(c, ttl) ==
    /\ server[c].handle /\ server[c].flow \in {"pending", "open", "detached", "closed"}
    /\ Issue(ttl, negotiated)
    /\ UNCHANGED <<profile, sides, budget, reserved, history>>

\* The process restarts: its connections, flows and charges are gone with the cache.
RestartServer ==
    /\ Restart
    /\ server' = [c \in Calls |-> IF server[c].pc = "none" THEN NoServer
                                  ELSE [NoServer EXCEPT !.pc = "gone"]]
    /\ link' = [c \in Calls |-> IF server[c].pc = "none" THEN link[c]
                                ELSE [link[c] EXCEPT !.open = FALSE]]
    /\ active' = 0 /\ per_peer' = [p \in Peers |-> 0] /\ reserved' = 0
    /\ UNCHANGED <<profile, call, history>>

Time ==
    /\ SetClock
    /\ UNCHANGED <<profile, sides, budget, reserved, history>>

ClientStep(c) ==
    \/ \E early \in BOOLEAN : Connect(c, early)
    \/ EarlyEnds(c) \/ Opened(c) \/ Aborted(c)
    \/ \E installed \in BOOLEAN : Accepted(c, installed) \/ Connected(c, installed)

ServerStep(c) ==
    \/ Incoming(c) \/ HandshakeEnds(c) \/ AcceptFlow(c) \/ AcceptReplaySafe(c) \/ Admit(c)
    \/ \E accepts \in BOOLEAN : Decide(c, accepts)
    \/ ReadEarly(c) \/ DropFlow(c) \/ DropConnection(c)

AdmissionNext ==
    \/ \E c \in Calls : ClientStep(c) \/ ServerStep(c) \/ Handshake(c) \/ Lost(c)
    \/ \E c \in Calls, ttl \in Times : IssueToken(c, ttl)
    \/ RestartServer
    \/ Time

AdmissionSpec == AdmissionInit /\ [][AdmissionNext]_admissionVars

-----------------------------------------------------------------------------
\* The budget counts exactly the connections some handle or flow still holds,
\* whichever step of an accept failed, and stays within both limits; early bytes are
\* charged while the server holds them, and only then.
BudgetExact ==
    /\ active = Cardinality({c \in Calls : Holds(server[c])})
    /\ active <= max_active
    /\ \A p \in Peers :
           /\ per_peer[p] = Cardinality({c \in Calls : PeerOf[c] = p /\ Holds(server[c])})
           /\ per_peer[p] <= profile.max_per_peer
    /\ reserved = Cardinality({c \in Calls : server[c].charge = 1})
    /\ reserved <= EarlyLimit
    /\ \A c \in Calls : server[c].charge = 1 => server[c].flow \in {"checking", "pending", "open"}

\* A call's bytes reach the application at most once, by the early open or by its
\* fallback, and not at all when the server refused the early open; a call that
\* returned a flow made early has delivered them.
DeliveredOnce ==
    \A c \in Calls :
        /\ exposed[c] <= IF c \in denied THEN 0 ELSE 1
        /\ call[c].pc = "done" /\ link[c].zero_rtt = "accepted" => exposed[c] = 1
=============================================================================
