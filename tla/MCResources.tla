----------------------------- MODULE MCResources -----------------------------
(***************************************************************************)
(* What a connection and an endpoint keep for their peers, as three parts  *)
(* that share no state.  "receive": three sources for two flows, one of    *)
(* which carries a record of each, over the field of four elements.        *)
(* "admit": two calls of one peer, a cache for one attempt and one         *)
(* identity, so that both may present the same attempt on either side of   *)
(* its expiry and of a restart.  "bridge": two rings of two buffers, two   *)
(* calls of the host and two tasks that want the device.  A behaviour is   *)
(* one of one part, the others resting in their initial state.             *)
(***************************************************************************)
EXTENDS ReceivePath, Admission, PacketBridge

CONSTANTS f1, f2

ThePayload == (0 :> 1) @@ (1 :> 3) @@ (2 :> 2)

TheSizes == (0 :> 1) @@ (1 :> 2) @@ (2 :> 1)

TheRepairs ==
    {(0 :> 1) @@ (1 :> 2), (0 :> 2) @@ (1 :> 2),
     (0 :> 3) @@ (1 :> 1) @@ (2 :> 2), (0 :> 1) @@ (1 :> 3) @@ (2 :> 3)}

TheRecords == (0 :> <<f1>>) @@ (1 :> <<f1, f2>>) @@ (2 :> <<f2>>)

MCPeerOf == [c \in Calls |-> "peer"]
MCCapabilities == BOOLEAN
MCKeptTokens ==
    {[identity |-> 1, epoch |-> 0, expiry |-> expiry, capabilities |-> adaptive] :
         <<expiry, adaptive>> \in {<<0, TRUE>>, <<MaxTime, FALSE>>}}
MCProfiles ==
    {[security |-> security, adaptive |-> adaptive, replay_safe |-> replay_safe, max_per_peer |-> limit] :
         <<security, adaptive, replay_safe, limit>> \in
             {<<"none", TRUE, TRUE, 2>>, <<"tls", TRUE, TRUE, 1>>, <<"none", FALSE, TRUE, 1>>,
              <<"tls", TRUE, FALSE, 1>>}}
CallsAlike == Permutations(Calls)

VARIABLE part

resourceVars == <<part, inboundVars, admissionVars, bridgeVars>>

ResourcesInit ==
    /\ part \in {"receive", "admit", "bridge"}
    /\ InboundInit /\ AdmissionInit /\ BridgeInit
    /\ part # "admit" => tokens = {} /\ profile.security = "none" /\ profile.adaptive
    /\ profile.max_per_peer = 2 => tokens = {}

ResourcesNext ==
    \/ part = "receive" /\ InboundNext /\ UNCHANGED <<part, admissionVars, bridgeVars>>
    \/ part = "admit" /\ AdmissionNext /\ UNCHANGED <<part, inboundVars, bridgeVars>>
    \/ part = "bridge" /\ BridgeNext /\ UNCHANGED <<part, inboundVars, admissionVars>>

ResourcesSpec == ResourcesInit /\ [][ResourcesNext]_resourceVars
=============================================================================
