------------------------------ MODULE NoSecurity ------------------------------
(***************************************************************************)
(* The handshake of the no-security profile (no_security.rs): HELLO, HELLO *)
(* and CONFIRM, each with the sender's profile token and its transport     *)
(* parameters, over a CRYPTO stream that delivers them in order and in any *)
(* fragments.  The sessions of one client configuration share what it      *)
(* remembers of its server; between two of them the server may restart     *)
(* with other parameters.                                                  *)
(*                                                                         *)
(* A message is a number of units, of which the header is the first few.   *)
(***************************************************************************)
EXTENDS Integers

CONSTANTS
    Sessions,
    ClientTokens,            \* the profile tokens of the clients
    QUICP_PROFILE,      \* the one that is supported
    HeaderUnits, MessageUnits,
    Params              \* the transport parameters a server may have

ASSUME SecurityAssumption ==
    /\ MessageUnits \in Nat \ {0}
    /\ "none" \notin ClientTokens /\ QUICP_PROFILE # "none"

Sides == {"client", "server"}
Other(side) == IF side = "client" THEN "server" ELSE "client"

VARIABLES
    session,        \* of each session, each side's NoSecuritySession
    wire,           \* of each session, the message on its way to each side
    remembered,     \* remembered_params of the client's configuration
    server_params   \* of the server that runs

securityVars == <<session, wire, remembered, server_params>>

Absent == [stage |-> "none", profile_token |-> "none", params |-> "none",
           peer_token |-> "none", peer_params |-> "none", input |-> 0]

NoMessage == [kind |-> "none", units |-> 0]

SecurityInit ==
    /\ session = [s \in Sessions |-> [side \in Sides |-> Absent]]
    /\ wire = [s \in Sessions |-> [side \in Sides |-> NoMessage]]
    /\ remembered = "none"
    /\ server_params \in Params

\* NoSecuritySession::new on each side.
StartClient(s, token) ==
    /\ session[s]["client"] = Absent
    /\ session' = [session EXCEPT ![s]["client"] =
                      [Absent EXCEPT !.stage = "New", !.profile_token = token, !.params = s,
                                     !.peer_params = remembered]]
    /\ UNCHANGED <<wire, remembered, server_params>>

NewServer == [Absent EXCEPT !.stage = "New", !.params = server_params]

RestartedServer(params) ==
    /\ params # server_params
    /\ server_params' = params
    /\ UNCHANGED <<session, wire, remembered>>

expected_token(me) == IF me.peer_token = "none" THEN me.profile_token ELSE me.peer_token

message(kind, token, me) ==
    [kind |-> kind, units |-> MessageUnits, token |-> token, params |-> me.params]

\* write_handshake: the next stage, and the message if there is one.
write_handshake(side, me) ==
    CASE side = "client" /\ me.stage = "New" ->
             [stage |-> "HelloSent", message |-> message("CLIENT_HELLO", me.profile_token, me)]
      [] side = "client" /\ me.stage = "HelloSent" /\ me.peer_token # "none" ->
             [stage |-> "Established", message |-> message("CLIENT_CONFIRM", expected_token(me), me)]
      [] side = "server" /\ me.stage = "New" /\ me.peer_token # "none" ->
             [stage |-> "ServerKeysReady", message |-> NoMessage]
      [] side = "server" /\ me.stage = "ServerKeysReady" ->
             [stage |-> "AwaitingConfirm", message |-> message("SERVER_HELLO", expected_token(me), me)]
      [] OTHER -> [stage |-> me.stage, message |-> NoMessage]

Write(s, side) ==
    LET me == session[s][side]
        next == write_handshake(side, me)
    IN  /\ next.stage # me.stage
        /\ session' = [session EXCEPT ![s][side].stage = next.stage]
        /\ wire' = IF next.message = NoMessage THEN wire
                   ELSE [wire EXCEPT ![s][Other(side)] = next.message]
        /\ UNCHANGED <<remembered, server_params>>

-----------------------------------------------------------------------------
\* What a side expects next.
Expected(side, me) ==
    CASE side = "client" /\ me.stage = "HelloSent"       -> "SERVER_HELLO"
      [] side = "server" /\ me.stage = "New"             -> "CLIENT_HELLO"
      [] side = "server" /\ me.stage = "AwaitingConfirm" -> "CLIENT_CONFIRM"
      [] OTHER                                           -> "none"

\* Bug: a server takes any profile.
ValidateOwnToken(side, me, token) == side = "client" => token = me.profile_token

validate_peer_token(side, me, token) ==
    token = QUICP_PROFILE /\ (side = "client" => token = me.profile_token)

\* Bug: a message of the full length is taken to be too long.
TooLongByOne(input) == input >= HeaderUnits /\ input >= MessageUnits

\* incoming_message_len: an overlong message is known once its header is there.
TooLong(input) == input >= HeaderUnits /\ input > MessageUnits

\* read_handshake with the fragment's units appended.  The kind is checked as soon as
\* the header is there, the rest once the message is.
read_handshake(side, me, input, incoming) ==
    IF \/ TooLong(input)
       \/ Expected(side, me) = "none"
       \/ input >= HeaderUnits /\ incoming.kind # Expected(side, me)
       \/ input = MessageUnits /\ ~validate_peer_token(side, me, incoming.token)
    THEN [me EXCEPT !.stage = "failed"]
    ELSE IF input < MessageUnits
    THEN [me EXCEPT !.input = input]
    ELSE IF me.stage = "AwaitingConfirm"
    THEN [me EXCEPT !.input = 0, !.stage = "Established"]
    ELSE [me EXCEPT !.input = 0, !.peer_token = incoming.token, !.peer_params = incoming.params]

\* A fragment of any size; a server's session begins with its first.  An error closes
\* the connection on both sides.
Receive(s, side, units) ==
    LET incoming == wire[s][side]
        me == IF session[s][side] = Absent THEN NewServer ELSE session[s][side]
        next == read_handshake(side, me, me.input + units, incoming)
    IN  /\ units \in 1 .. incoming.units
        /\ me.stage # "failed"
        /\ session' = IF next.stage = "failed"
                      THEN [session EXCEPT ![s] = [each \in Sides |-> [@[each] EXCEPT !.stage = "failed"]]]
                      ELSE [session EXCEPT ![s][side] = next]
        /\ wire' = IF incoming.units = units THEN [wire EXCEPT ![s][side] = NoMessage]
                                             ELSE [wire EXCEPT ![s][side].units = @ - units]
        /\ remembered' = IF side = "client" /\ next.peer_token # "none" /\ me.peer_token = "none"
                         THEN next.peer_params ELSE remembered
        /\ UNCHANGED server_params

SecurityStep(s) ==
    \E side \in Sides : Write(s, side) \/ \E units \in 1 .. MessageUnits : Receive(s, side, units)

SecuritySteps == \E s \in Sessions : SecurityStep(s)

SecurityNext ==
    \/ SecuritySteps
    \/ \E s \in Sessions, token \in ClientTokens : StartClient(s, token)
    \/ \E params \in Params : RestartedServer(params)

\* Datagrams are retransmitted until they arrive, and both ends run.
SecuritySpec ==
    /\ SecurityInit /\ [][SecurityNext]_securityVars
    /\ WF_securityVars(SecuritySteps)

-----------------------------------------------------------------------------
\* handshake_data, what admits a peer.
handshake_data(me) == me.stage \in {"AwaitingConfirm", "Established"}

\* A side that is established has the parameters the other has now, not those the
\* configuration remembered from another server or another session; a side that admits
\* its peer has checked its token.
HandshakeAgrees ==
    \A s \in Sessions :
        LET client == session[s]["client"]
            server == session[s]["server"]
        IN  /\ client.stage = "Established" =>
                   /\ client.peer_params = server.params
                   /\ server.stage \in {"AwaitingConfirm", "Established"}
            /\ server.stage = "Established" => client.stage = "Established"
            /\ handshake_data(server) =>
                   server.peer_params = client.params /\ client.profile_token = QUICP_PROFILE

\* However its messages are cut, a handshake between profiles that agree completes on
\* both sides, and one between others fails.
HandshakeEnds ==
    []<>(\A s \in Sessions : session[s]["client"] # Absent =>
             LET outcome == IF session[s]["client"].profile_token = QUICP_PROFILE
                            THEN "Established" ELSE "failed"
             IN  \A side \in Sides : session[s][side].stage = outcome)
=============================================================================
