------------------------------ MODULE MCParts -------------------------------
(***************************************************************************)
(* The parts around the flows, which share no state: the paths of a        *)
(* connection, the handshake of the no-security profile, a FakeTCP         *)
(* socket's receive side, its sequence numbers, the socket over two paths, *)
(* and the engine behind the C interface.  A behaviour is one of one part, *)
(* the others resting in their initial state.                              *)
(***************************************************************************)
EXTENDS PathMonitor, NoSecurity, RawReceive, FakeTcp, MultipathSocket, Engine

VARIABLE part

partVars ==
    <<part, pathVars, securityVars, receiveVars, carrierVars, socketVars, engineVars>>

MCShapes == {<<1, 1>>, <<2, 1>>, <<1, 2>>}

PartsInit ==
    /\ part \in {"paths", "security", "receive", "carrier", "socket", "engine"}
    /\ PathInit /\ SecurityInit /\ ReceiveInit /\ CarrierInit /\ SocketInit /\ EngineInit
    /\ part # "paths" => mode = "failover"
    /\ part # "security" => server_params = "old"
    /\ part # "receive" => kind = "batch"

Below(A) == A /\ UNCHANGED <<part, engineVars>>
Paths(A) == part = "paths" /\ Below(A) /\ UNCHANGED <<securityVars, receiveVars, carrierVars, socketVars>>
Security(A) == part = "security" /\ Below(A) /\ UNCHANGED <<pathVars, receiveVars, carrierVars, socketVars>>
Raw(A) == part = "receive" /\ Below(A) /\ UNCHANGED <<pathVars, securityVars, carrierVars, socketVars>>
Carrier(A) == part = "carrier" /\ Below(A) /\ UNCHANGED <<pathVars, securityVars, receiveVars, socketVars>>
Socket(A) == part = "socket" /\ Below(A) /\ UNCHANGED <<pathVars, securityVars, receiveVars, carrierVars>>

belowVars == <<part, pathVars, securityVars, receiveVars, carrierVars, socketVars>>
Interface(A) == part = "engine" /\ A /\ UNCHANGED belowVars

PartsNext ==
    \/ Paths(PathNext) \/ Security(SecurityNext) \/ Raw(ReceiveNext)
    \/ Carrier(CarrierNext) \/ Socket(SocketNext)
    \/ Interface(EngineNext)

\* The fairness of each part; steps of different parts share a condition, since only one
\* of them is ever enabled in a behaviour.
PartsFairness ==
    /\ WF_partVars(\/ Raw(PollStep) \/ Paths(ClientPathStep) \/ Security(SecuritySteps)
                   \/ Socket(PollChildren) \/ Interface(EndedStep))
    /\ WF_partVars(Raw(ThreadStep))

PartsSpec == PartsInit /\ [][PartsNext]_partVars /\ PartsFairness
=============================================================================
