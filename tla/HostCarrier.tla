----------------------------- MODULE HostCarrier -----------------------------
(***************************************************************************)
(* The datagram socket of a host (host_carrier.rs) over two packet rings   *)
(* (packet_ring.rs).  A host thread puts packets into one ring and takes   *)
(* packets out of the other while tasks of the runtime receive and send;   *)
(* a task that finds nothing, or no room, leaves a waker and looks again.  *)
(*                                                                         *)
(* Each step is one section under a lock or one atomic access.  A ring is  *)
(* the number of its queued and of its free buffers; a buffer that is in   *)
(* neither is held by the thread that fills or empties it.  Packets that   *)
(* are refused for their size or address change nothing.                   *)
(***************************************************************************)
EXTENDS HostRuntime

CONSTANTS
    Receiver,   \* the endpoint's task
    Senders,    \* the tasks of its connections
    Capacity    \* packet_capacity

ASSUME CarrierAssumption ==
    /\ Capacity \in Nat \ {0}
    /\ Receiver \in Tasks /\ Senders \subseteq Tasks \ {Receiver}

VARIABLES
    ingress, egress,        \* the packet rings
    recv_waker, send_waker, \* the task whose waker is registered, or NoTask
    unavailable,
    host,                   \* where the host's thread is
    call,                   \* where the current task is in poll_recv or poll_send
    blocked                 \* tasks that a call left Pending, until it returns Ready

ringVars == <<ingress, egress>>
wakerVars == <<recv_waker, send_waker>>
carrierVars == <<ringVars, wakerVars, unavailable, host, call, blocked>>

CarrierInit ==
    /\ ingress = [queued |-> 0, free |-> Capacity]
    /\ egress = [queued |-> 0, free |-> Capacity]
    /\ recv_waker = NoTask /\ send_waker = NoTask
    /\ unavailable = FALSE
    /\ host = "idle" /\ call = "none" /\ blocked = {}
-----------------------------------------------------------------------------
(***************************************************************************)
(* PacketRing: a buffer is taken from one list under the lock, used, and   *)
(* put into the other under the lock again.                                *)
(***************************************************************************)
Reserved(ring) == [ring EXCEPT !.free = @ - 1]
Queued(ring) == [ring EXCEPT !.queued = @ + 1]
Popped(ring) == [ring EXCEPT !.queued = @ - 1]
Recycled(ring) == [ring EXCEPT !.free = @ + 1]

\* The waker is taken and called.
TakeWaker(task) == IF task = NoTask THEN UNCHANGED readyVars ELSE Wake({task})
-----------------------------------------------------------------------------
(***************************************************************************)
(* The host's thread.                                                      *)
(***************************************************************************)
HostStep(from, to) ==
    /\ host = from /\ host' = to
    /\ UNCHANGED <<clock, timerVars, future, stopped, driveVars, call, blocked>>

\* ingress_datagram_from: a full ring refuses the packet.
Ingress ==
    /\ HostStep("idle", "fills")
    /\ ~unavailable /\ ingress.free > 0
    /\ ingress' = Reserved(ingress)
    /\ UNCHANGED <<readyVars, egress, wakerVars, unavailable>>

IngressQueued ==
    /\ HostStep("fills", "wakes receiver")
    /\ ingress' = Queued(ingress)
    /\ UNCHANGED <<readyVars, egress, wakerVars, unavailable>>

IngressWakes ==
    /\ HostStep("wakes receiver", "idle")
    /\ TakeWaker(recv_waker) /\ recv_waker' = NoTask
    /\ UNCHANGED <<ringVars, send_waker, unavailable>>

\* poll_egress_datagram_into
Egress ==
    /\ HostStep("idle", "empties")
    /\ ~unavailable /\ egress.queued > 0
    /\ egress' = Popped(egress)
    /\ UNCHANGED <<readyVars, ingress, wakerVars, unavailable>>

EgressRecycled ==
    /\ HostStep("empties", "wakes sender")
    /\ egress' = Recycled(egress)
    /\ UNCHANGED <<readyVars, ingress, wakerVars, unavailable>>

EgressWakes ==
    /\ HostStep("wakes sender", "idle")
    /\ TakeWaker(send_waker) /\ send_waker' = NoTask
    /\ UNCHANGED <<ringVars, recv_waker, unavailable>>

\* mark_unavailable: the store, then one waker after the other.
MarkUnavailable ==
    /\ HostStep("idle", "marked")
    /\ ~unavailable /\ unavailable' = TRUE
    /\ UNCHANGED <<readyVars, ringVars, wakerVars>>

MarkWakesReceiver ==
    /\ HostStep("marked", "marked receiver")
    /\ TakeWaker(recv_waker) /\ recv_waker' = NoTask
    /\ UNCHANGED <<ringVars, send_waker, unavailable>>

MarkWakesSender ==
    /\ HostStep("marked receiver", "idle")
    /\ TakeWaker(send_waker) /\ send_waker' = NoTask
    /\ UNCHANGED <<ringVars, recv_waker, unavailable>>

HostThread ==
    \/ IngressQueued \/ IngressWakes \/ EgressRecycled \/ EgressWakes
    \/ MarkWakesReceiver \/ MarkWakesSender
-----------------------------------------------------------------------------
(***************************************************************************)
(* poll_recv and poll_send, within the poll of a task.  A call starts at   *)
(* "none" and ends at "pending" or, when it is Ready, at "ready".          *)
(***************************************************************************)
CallStep(t, from, to) ==
    /\ Polls(t) /\ call = from /\ call' = to
    /\ UNCHANGED <<runtimeVars, unavailable, host>>

CallReady(t, from) == CallStep(t, from, "ready") /\ blocked' = blocked \ {t}

\* pop_into, up to the copy; or the waker is registered before a second look.
RecvPops(from) ==
    /\ IF ingress.queued > 0
       THEN CallStep(Receiver, from, "copies") /\ ingress' = Popped(ingress)
       ELSE CallStep(Receiver, from, "registers") /\ UNCHANGED ingress
    /\ UNCHANGED <<egress, wakerVars, blocked>>

\* Entry of poll_recv.
PollRecv == ~unavailable /\ RecvPops("none")

RecvRecycles ==
    /\ CallReady(Receiver, "copies")
    /\ ingress' = Recycled(ingress)
    /\ UNCHANGED <<egress, wakerVars>>

RecvRegisters ==
    /\ CallStep(Receiver, "registers", "looks again")
    /\ recv_waker' = Receiver
    /\ UNCHANGED <<ringVars, send_waker, blocked>>

\* Bug: the ring is not looked at again after the waker was registered.
RecvLooksOnce ==
    /\ CallStep(Receiver, "looks again", "last")
    /\ UNCHANGED <<ringVars, wakerVars, blocked>>

RecvLooksAgain ==
    /\ CallStep(Receiver, "looks again", IF ingress.queued = 0 THEN "last" ELSE "pops")
    /\ UNCHANGED <<ringVars, wakerVars, blocked>>

\* push_copy up to the copy; or the given step when no buffer is free.
SendReserves(t, from, otherwise) ==
    /\ IF egress.free > 0
       THEN CallStep(t, from, "fills") /\ egress' = Reserved(egress)
       ELSE CallStep(t, from, otherwise) /\ UNCHANGED egress
    /\ UNCHANGED <<ingress, wakerVars, blocked>>

\* Entry of poll_send.
PollSend(t) == ~unavailable /\ SendReserves(t, "none", "registers")

SendQueues(t) ==
    /\ CallReady(t, "fills")
    /\ egress' = Queued(egress)
    /\ UNCHANGED <<ingress, wakerVars>>

\* register_waker: the one slot of the socket takes the waker of the last caller.
SendRegisters(t) ==
    /\ CallStep(t, "registers", "looks again")
    /\ send_waker' = t
    /\ UNCHANGED <<ringVars, recv_waker, blocked>>

SendTriesAgain(t) == SendReserves(t, "looks again", "last")

\* Still nothing, or no room: the call is pending unless the path is gone by now.
CallPending(t) ==
    /\ CallStep(t, "last", "pending")
    /\ ~unavailable
    /\ blocked' = blocked \cup {t}
    /\ UNCHANGED <<ringVars, wakerVars>>

\* NetworkDown, on entry or at the end: the connection, or the endpoint, is lost and
\* its task ends.
CallFails(t) ==
    /\ Polls(t) /\ call \in {"none", "last"} /\ unavailable
    /\ call' = "none" /\ blocked' = blocked \ {t}
    /\ Completes(t)
    /\ UNCHANGED <<ringVars, wakerVars, unavailable, host>>

ReceiverCalls ==
    \/ PollRecv \/ RecvPops("pops") \/ RecvRecycles \/ RecvRegisters \/ RecvLooksAgain
    \/ CallPending(Receiver) \/ CallFails(Receiver)

SenderCalls(t) ==
    \/ PollSend(t) \/ SendQueues(t) \/ SendRegisters(t) \/ SendTriesAgain(t)
    \/ CallPending(t) \/ CallFails(t)
=============================================================================
