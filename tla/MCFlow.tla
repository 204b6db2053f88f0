------------------------------- MODULE MCFlow -------------------------------
(***************************************************************************)
(* One direction of a flow end to end; the buffers of its receiver on      *)
(* their own, which then meet records an honest sender would not send; and *)
(* the bytes below: its control stream, and its datagrams.  A behaviour is *)
(* one of one part, the others resting in an initial state.                *)
(***************************************************************************)
EXTENDS FlowLink, Reassembly, ControlStream, DatagramCodec

VARIABLE part

wireVars == <<controlVars, codecVars>>
flowVars == <<part, linkVars, bufferVars, wireVars>>

MCHosts == {<<1, 2>>}
MCCapabilities == {<<11, 24, 1, 8, 1>>, <<8, 30, 20, 9, 2>>}
MCOffsets == {MAX_WIRE_OFFSET}
MCRecordOffsets == {3, 4, MAX_WIRE_OFFSET - 1}
MCPayloads == {<<0>>, <<0, 1>>}

FlowInit ==
    /\ part \in {"link", "buffers", "control", "codec"}
    /\ LinkInit /\ BufferInit /\ ControlInit /\ CodecInit
    /\ part # "control" => opener /\ \A end \in DOMAIN ends : ends[end] = <<11, 24, 1, 8, 1>>

FlowNext ==
    \/ part = "link" /\ LinkNext /\ UNCHANGED <<part, bufferVars, wireVars>>
    \/ part = "buffers" /\ BufferNext /\ UNCHANGED <<part, linkVars, wireVars>>
    \/ part = "control" /\ ControlNext /\ UNCHANGED <<part, linkVars, bufferVars, codecVars>>
    \/ part = "codec" /\ CodecNext /\ UNCHANGED <<part, linkVars, bufferVars, controlVars>>

FlowSpec == FlowInit /\ [][FlowNext]_flowVars
=============================================================================
