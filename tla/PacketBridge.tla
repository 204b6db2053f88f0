---------------------------- MODULE PacketBridge ----------------------------
(***************************************************************************)
(* The packet rings between a host and a smoltcp stack: the pool of        *)
(* buffers of each ring (packet_ring.rs), the bridge the host calls from   *)
(* any thread (platform.rs), and the device a stack polls (smolstack.rs).  *)
(*                                                                         *)
(* A pool's mutex is held for one move of a buffer only.  What a call does *)
(* with a buffer between two moves, copying a packet in or out or running  *)
(* a callback, interleaves with every other host, so each move is a step.  *)
(* A packet is known by its length.                                        *)
(***************************************************************************)
EXTENDS Integers, Sequences, FiniteSets

CONSTANTS
    Slots,          \* the buffers of a pool
    HostCalls,      \* the host calls that may be under way at once
    Owners,         \* tasks that may own the stack
    Lengths,        \* of packets
    OutputSizes,    \* of the buffers the host drains into
    mtu,
    max_packets_per_poll

\* What PacketRing::new, SmoltcpConfig::validate and NonZeroUsize require.
ASSUME BridgeAssumption ==
    /\ Slots # {} /\ mtu \in Nat \ {0}
    /\ Lengths \subseteq Nat /\ OutputSizes \subseteq Nat
    /\ max_packets_per_poll \in Nat \ {0}

Rings == {"ingress", "egress"}

VARIABLES
    free,           \* of each pool: the buffers that hold nothing
    queued,         \* of each pool: the buffers of the packets, oldest first
    filled,         \* what a buffer holds, by pool and buffer
    due,            \* history: the packets put into each queue and not taken out
    host,           \* of each host call: the lease it holds
    smoltcp_owner,  \* the flag of the bridge
    device          \* of each task: the device it owns and where its poll is

bridgeVars == <<free, queued, filled, due, host, smoltcp_owner, device>>

NoCall == [at |-> "idle", slots |-> {}]
NoDevice == [at |-> "none", rx |-> {}, tx |-> {}, left |-> 0, packet |-> 0]
AtRest(o) == device[o].at = "rest"

\* PacketRing::new, for both rings.
RingInit ==
    /\ free = [r \in Rings |-> Slots]
    /\ queued = [r \in Rings |-> <<>>]
    /\ filled = [r \in Rings |-> [s \in Slots |-> 0]]
    /\ due = [r \in Rings |-> <<>>]

BridgeInit ==
    /\ RingInit
    /\ host = [h \in HostCalls |-> NoCall]
    /\ smoltcp_owner = FALSE
    /\ device = [o \in Owners |-> NoDevice]

-----------------------------------------------------------------------------
(* The moves of a buffer, each under its pool's lock.                      *)

\* write: a buffer of the free list, which is a place in the queue as well.
Lease(r, slot) == slot \in free[r] /\ free' = [free EXCEPT ![r] = @ \ {slot}]

\* recycle, of the buffers of a lease, which are cleared first.
Cleared(r, slots) == [s \in Slots |-> IF s \in slots THEN 0 ELSE filled[r][s]]
Recycle(r, slots) ==
    /\ free' = [free EXCEPT ![r] = @ \cup slots]
    /\ filled' = [filled EXCEPT ![r] = Cleared(r, slots)]

\* Bug: the packet joins the queue at its front.
EnqueueFirst(r, slot, packet) ==
    /\ queued' = [queued EXCEPT ![r] = <<slot>> \o @]
    /\ due' = [due EXCEPT ![r] = Append(@, packet)]

\* consume of a write lease, after its callback has filled the buffer.
Enqueue(r, slot, packet) ==
    /\ queued' = [queued EXCEPT ![r] = Append(@, slot)]
    /\ due' = [due EXCEPT ![r] = Append(@, packet)]

\* pop_front
Dequeue(r) ==
    /\ queued[r] # <<>>
    /\ queued' = [queued EXCEPT ![r] = Tail(@)]
    /\ due' = [due EXCEPT ![r] = Tail(@)]

Fill(r, slot, packet) == filled' = [filled EXCEPT ![r][slot] = packet]

-----------------------------------------------------------------------------
(* The host.                                                               *)

validate_packet_length(length) == length # 0 /\ length <= mtu

\* ingress_ip_borrowed: push_copy takes a buffer, or reports that the ring is full.
IngressLease(h, length) ==
    /\ host[h].at = "idle"
    /\ validate_packet_length(length)
    /\ \E slot \in Slots :
           /\ Lease("ingress", slot)
           /\ host' = [host EXCEPT ![h] = [at |-> "fill", slots |-> {slot}, packet |-> length]]
    /\ UNCHANGED <<queued, filled, due, smoltcp_owner, device>>

\* The copy, without the lock.
IngressFill(h) ==
    /\ host[h].at = "fill"
    /\ \E slot \in host[h].slots : Fill("ingress", slot, host[h].packet)
    /\ host' = [host EXCEPT ![h].at = "queue"]
    /\ UNCHANGED <<free, queued, due, smoltcp_owner, device>>

IngressQueue(h) ==
    /\ host[h].at = "queue"
    /\ \E slot \in host[h].slots : Enqueue("ingress", slot, host[h].packet)
    /\ host' = [host EXCEPT ![h] = NoCall]
    /\ UNCHANGED <<free, filled, smoltcp_owner, device>>

\* poll_egress_ip_into: pop_into takes the oldest packet if the host's buffer holds it.
EgressPop(h, size) ==
    /\ host[h].at = "idle"
    /\ Dequeue("egress")
    /\ LET slot == Head(queued["egress"])
       IN  /\ filled["egress"][slot] <= size
           /\ host' = [host EXCEPT ![h] = [at |-> "copy", slots |-> {slot},
                                           packet |-> Head(due["egress"])]]
    /\ UNCHANGED <<free, filled, smoltcp_owner, device>>

\* The copy, without the lock, and then recycle.
EgressRecycle(h) ==
    /\ host[h].at = "copy"
    /\ Recycle("egress", host[h].slots)
    /\ host' = [host EXCEPT ![h] = NoCall]
    /\ UNCHANGED <<queued, due, smoltcp_owner, device>>

HostStep(h) ==
    \/ \E length \in Lengths : IngressLease(h, length)
    \/ IngressFill(h)
    \/ IngressQueue(h)
    \/ \E size \in OutputSizes : EgressPop(h, size)
    \/ EgressRecycle(h)

-----------------------------------------------------------------------------
(* The owner of the stack.                                                 *)

At(o, state) == device' = [device EXCEPT ![o] = state]

\* smoltcp_device: the exchange of the flag lets one device exist.
BuildDevice(o) ==
    /\ device[o].at = "none"
    /\ ~smoltcp_owner
    /\ smoltcp_owner' = TRUE
    /\ At(o, [NoDevice EXCEPT !.at = "rest"])
    /\ UNCHANGED <<free, queued, filled, due, host>>

\* Drop of a device, between two polls.
DropDevice(o) ==
    /\ AtRest(o)
    /\ smoltcp_owner' = FALSE
    /\ At(o, NoDevice)
    /\ UNCHANGED <<free, queued, filled, due, host>>

\* poll_bounded begins, with its budget of packets.
PollBegins(o) ==
    /\ AtRest(o)
    /\ At(o, [device[o] EXCEPT !.at = "ingress", !.left = max_packets_per_poll])
    /\ UNCHANGED <<free, queued, filled, due, host, smoltcp_owner>>

\* receive: a buffer for the answer first; without one no packet is taken.
ReceiveLease(o) ==
    /\ device[o].at = "ingress"
    /\ \/ \E slot \in Slots :
              /\ Lease("egress", slot)
              /\ At(o, [device[o] EXCEPT !.at = "receive", !.tx = {slot}])
       \/ /\ free["egress"] = {}
          /\ At(o, [device[o] EXCEPT !.at = "egress"])
          /\ free' = free
    /\ UNCHANGED <<queued, filled, due, host, smoltcp_owner>>

\* receive, second: the oldest packet, or the buffer for the answer goes back.
ReceiveRead(o) ==
    /\ device[o].at = "receive"
    /\ \/ /\ Dequeue("ingress")
          /\ At(o, [device[o] EXCEPT !.at = "process", !.rx = {Head(queued["ingress"])},
                                     !.packet = Head(due["ingress"])])
          /\ UNCHANGED <<free, filled>>
       \/ /\ queued["ingress"] = <<>>
          /\ Recycle("egress", device[o].tx)
          /\ At(o, [device[o] EXCEPT !.at = "egress", !.tx = {}])
          /\ UNCHANGED <<queued, due>>
    /\ UNCHANGED <<host, smoltcp_owner>>

\* Bug: a length above the MTU forgets the buffer.
ConsumeTokenLosesSlot(o, length) ==
    \/ /\ length <= mtu
       /\ \E slot \in device[o].tx :
              /\ Fill("egress", slot, length)
              /\ Enqueue("egress", slot, length)
       /\ free' = free
    \/ length > mtu /\ UNCHANGED <<free, filled, queued, due>>

\* consume of a transmit token: the callback fills the buffer and the packet is queued.
\* A length above the MTU leaves the lease to its drop, which recycles the buffer.
ConsumeToken(o, length) ==
    \/ /\ length <= mtu
       /\ \E slot \in device[o].tx :
              /\ Fill("egress", slot, length)
              /\ Enqueue("egress", slot, length)
       /\ free' = free
    \/ /\ length > mtu
       /\ Recycle("egress", device[o].tx)
       /\ UNCHANGED <<queued, due>>

\* The stack's callback on the packet answers it, or drops the token for the answer.
Process(o) ==
    /\ device[o].at = "process"
    /\ \/ \E length \in Lengths : ConsumeToken(o, length)
       \/ Recycle("egress", device[o].tx) /\ UNCHANGED <<queued, due>>
    /\ At(o, [device[o] EXCEPT !.at = "processed", !.tx = {}])
    /\ UNCHANGED <<host, smoltcp_owner>>

\* The read lease is dropped, and the loop counts the packet.
Processed(o) ==
    /\ device[o].at = "processed"
    /\ Recycle("ingress", device[o].rx)
    /\ At(o, [device[o] EXCEPT !.at = IF device[o].left = 1 THEN "egress" ELSE "ingress",
                               !.rx = {}, !.left = @ - 1, !.packet = 0])
    /\ UNCHANGED <<queued, due, host, smoltcp_owner>>

\* poll_egress: what the sockets have to send, here at most one packet of a poll.
TransmitLease(o) ==
    /\ device[o].at = "egress"
    /\ \E slot \in Slots :
           /\ Lease("egress", slot)
           /\ At(o, [device[o] EXCEPT !.at = "transmit", !.tx = {slot}])
    /\ UNCHANGED <<queued, filled, due, host, smoltcp_owner>>

Transmit(o, length) ==
    /\ device[o].at = "transmit"
    /\ ConsumeToken(o, length)
    /\ At(o, [device[o] EXCEPT !.at = "rest", !.tx = {}, !.left = 0])
    /\ UNCHANGED <<host, smoltcp_owner>>

EndPoll(o) ==
    /\ device[o].at = "egress"
    /\ At(o, [device[o] EXCEPT !.at = "rest", !.left = 0])
    /\ UNCHANGED <<free, queued, filled, due, host, smoltcp_owner>>

\* A callback panics: the leases are dropped while the stack unwinds.
Unwind(o) ==
    /\ device[o].at \in {"process", "transmit"}
    /\ free' = [free EXCEPT !["ingress"] = @ \cup device[o].rx, !["egress"] = @ \cup device[o].tx]
    /\ filled' = [r \in Rings |-> Cleared(r, IF r = "ingress" THEN device[o].rx ELSE device[o].tx)]
    /\ At(o, [NoDevice EXCEPT !.at = "rest"])
    /\ UNCHANGED <<queued, due, host, smoltcp_owner>>

PollDevice(o) ==
    \/ ReceiveLease(o) \/ ReceiveRead(o) \/ Process(o) \/ Processed(o)
    \/ TransmitLease(o) \/ \E length \in Lengths : Transmit(o, length)
    \/ EndPoll(o) \/ Unwind(o)

BridgeNext ==
    \/ \E h \in HostCalls : HostStep(h)
    \/ \E o \in Owners : BuildDevice(o) \/ DropDevice(o) \/ PollBegins(o) \/ PollDevice(o)

BridgeSpec == BridgeInit /\ [][BridgeNext]_bridgeVars

-----------------------------------------------------------------------------
\* The leases on a ring's buffers: of host calls, and of a device's tokens.
CallLease(r, h) ==
    IF (r = "ingress") = (host[h].at \in {"fill", "queue"}) THEN host[h].slots ELSE {}
TokenLease(r, o) == IF r = "ingress" THEN device[o].rx ELSE device[o].tx

\* Every buffer has one owner, the free list, one place in the queue or one lease, and
\* there is one device: what lets a lease be filled and read without the lock, and what
\* keeps a buffer from being lost when a call gives up.
OneOwner ==
    /\ \A r \in Rings, slot \in Slots :
           LET places == {<<"free", 0>> : s \in free[r] \cap {slot}}
                         \cup {<<"queue", i>> : i \in {i \in DOMAIN queued[r] : queued[r][i] = slot}}
                         \cup {<<"call", h>> : h \in {h \in HostCalls : slot \in CallLease(r, h)}}
                         \cup {<<"token", o>> : o \in {o \in Owners : slot \in TokenLease(r, o)}}
           IN  Cardinality(places) = 1
    /\ \A o, p \in Owners : device[o].at # "none" /\ device[p].at # "none" => o = p

\* A packet is what was put in, in order, until its reader has given the buffer back:
\* nothing is copied over it while it is queued or being read.
Intact ==
    /\ \A r \in Rings :
           /\ Len(due[r]) = Len(queued[r])
           /\ \A i \in DOMAIN queued[r] : filled[r][queued[r][i]] = due[r][i]
    /\ \A h \in HostCalls, slot \in Slots :
           host[h].at = "copy" /\ slot \in host[h].slots => filled["egress"][slot] = host[h].packet
    /\ \A o \in Owners, slot \in Slots :
           slot \in device[o].rx => filled["ingress"][slot] = device[o].packet
=============================================================================
