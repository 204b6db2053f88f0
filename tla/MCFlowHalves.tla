---------------------------- MODULE MCFlowHalves ----------------------------
(***************************************************************************)
(* The two halves of a flow, each against a peer that may send anything.   *)
(* They share only the type of the channel: a behaviour is one of a single *)
(* half, the other one resting in its initial state.                       *)
(***************************************************************************)
EXTENDS FlowSender, FlowReceiver

VARIABLE part

halfVars == <<part, sendVars, recvVars, channelVars>>

HalvesInit ==
    /\ part \in {"send", "receive"}
    /\ SenderInit /\ ReceiverInit

HalvesNext ==
    \/ part = "send" /\ SenderNext /\ UNCHANGED <<part, recvVars>>
    \/ part = "receive" /\ ReceiverNext /\ UNCHANGED <<part, sendVars>>

HalvesSpec == HalvesInit /\ [][HalvesNext]_halfVars
=============================================================================
