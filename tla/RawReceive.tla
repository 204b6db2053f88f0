------------------------------ MODULE RawReceive ------------------------------
(***************************************************************************)
(* How a FakeTCP socket turns captured packets into the datagrams noq      *)
(* reads, in its three forms: recvmmsg batches (unix.rs), the mapped       *)
(* packet ring (linux.rs), and WinDivert with a thread of its own and a    *)
(* bounded channel (windows.rs).  One poll takes packets one at a time,    *)
(* gathers neighbours of one length into a slot, and gives up after a      *)
(* bounded number of packets that do not decode.                           *)
(*                                                                         *)
(* A packet is its number, whether it decodes and the length of its        *)
(* payload; what decoding computes is in FakeTcp.                          *)
(***************************************************************************)
EXTENDS Integers, Sequences, FiniteSets

CONSTANTS
    ReceiveKinds,                   \* a subset of {"batch", "ring", "windivert"}
    PayloadLengths,                 \* of the packets that decode
    MaxArrivals,                    \* bounds the packets
    ReceiveSlots,                   \* buffers of one poll
    BufferLength,                   \* length of each
    GRO_SEGMENTS,
    RECV_BATCH_SIZE,
    CHANNEL_CAPACITY,
    MAX_DECODE_REJECTS_PER_POLL

VARIABLES
    kind,       \* the form of the socket
    kernel,     \* captured, not yet read; the ring's frames
    read,       \* the batch not yet decoded, or the channel
    pending,    \* the decoded packet of another length, at most one
    poll,       \* the poll in progress
    delivered,  \* numbers handed to noq, in order
    rejected,   \* numbers counted as rejects
    arrived,    \* packets so far
    waker,      \* is the task's waker registered?
    woken,      \* will the task poll?
    thread,     \* [at, hand] of the WinDivert receiver
    socket      \* "open", "failed" once a poll returned an error, "dropped"

receiveVars == <<kind, kernel, read, pending, poll, delivered, rejected, arrived,
                 waker, woken, thread, socket>>

Broken == [id |-> 0, valid |-> FALSE, len |-> 0]    \* an error in the channel
NotPolling == [at |-> "idle", received |-> 0, budget |-> 0, group |-> <<>>, meta |-> <<>>]

Ids(packets) == [i \in DOMAIN packets |-> packets[i].id]

ReceiveInit ==
    /\ kind \in ReceiveKinds
    /\ kernel = <<>> /\ read = <<>> /\ pending = <<>>
    /\ poll = NotPolling
    /\ delivered = <<>> /\ rejected = {} /\ arrived = 0
    /\ waker = FALSE /\ woken = TRUE
    /\ thread = [at |-> IF kind = "windivert" THEN "receive" ELSE "ended", hand |-> <<>>]
    /\ socket = "open"

-----------------------------------------------------------------------------
\* A packet is captured; the descriptor's readiness wakes the task, WinDivert's does not.
Arrive(valid, len) ==
    /\ socket = "open" /\ arrived < MaxArrivals
    /\ arrived' = arrived + 1
    /\ kernel' = Append(kernel, [id |-> arrived + 1, valid |-> valid, len |-> len])
    /\ IF kind = "windivert" THEN UNCHANGED <<waker, woken>>
       ELSE waker' = FALSE /\ woken' = (woken \/ waker)
    /\ UNCHANGED <<kind, read, pending, poll, delivered, rejected, thread, socket>>

\* poll_recv begins, with fresh slots and a fresh budget of rejects.
BeginPoll ==
    /\ socket = "open" /\ woken /\ poll.at = "idle"
    /\ poll' = [NotPolling EXCEPT !.at = "take", !.budget = MAX_DECODE_REJECTS_PER_POLL]
    /\ woken' = FALSE
    /\ UNCHANGED <<kind, kernel, read, pending, delivered, rejected, arrived, waker, thread, socket>>

slots == IF kind = "windivert" THEN 1 ELSE ReceiveSlots
Segments == IF kind = "windivert" THEN 1 ELSE GRO_SEGMENTS

InGroup == poll.group # <<>>
GroupFull ==
    InGroup /\ \/ Len(poll.group) = Segments
               \/ (Len(poll.group) + 1) * poll.group[1].len > BufferLength

\* The packets decoding can go on with: the pending one first, and never after it.
Source == IF kind = "ring" THEN kernel ELSE read
\* Bug: decoding goes on past the packet that was set aside.
AheadOfPending == IF pending # <<>> /\ ~InGroup THEN pending ELSE Source

Ahead == IF pending # <<>> THEN (IF InGroup THEN <<>> ELSE pending) ELSE Source

Taken ==
    IF pending # <<>> THEN UNCHANGED <<kernel, read>>
    ELSE IF kind = "ring" THEN kernel' = Tail(kernel) /\ UNCHANGED read
    ELSE read' = Tail(read) /\ UNCHANGED kernel

\* A reject is counted; a payload too long for an empty slot is one, and the ring also
\* skips it in the middle of a group.
Skips(packet) ==
    \/ ~packet.valid
    \/ packet.len > BufferLength /\ (~InGroup \/ kind = "ring")

\* next_decoded_packet and copy_next_ring_payload: one packet, into the group, aside for
\* the next slot, or rejected.
Decode ==
    /\ poll.at = "take" /\ poll.received < slots /\ poll.budget > 0
    /\ ~GroupFull /\ Ahead # <<>> /\ Head(Ahead) # Broken
    /\ Taken
    /\ LET packet == Head(Ahead) IN
       \/ /\ Skips(packet)
          /\ rejected' = rejected \cup {packet.id}
          /\ poll' = [poll EXCEPT !.budget = @ - 1]
          /\ pending' = <<>>
       \/ /\ ~Skips(packet) /\ (InGroup => packet.len = poll.group[1].len)
          /\ poll' = [poll EXCEPT !.group = Append(@, packet)]
          /\ pending' = <<>>
          /\ UNCHANGED rejected
       \/ /\ ~Skips(packet) /\ InGroup /\ packet.len # poll.group[1].len
          /\ pending' = <<packet>>
          /\ UNCHANGED <<poll, rejected>>
    /\ UNCHANGED <<kind, delivered, arrived, waker, woken, thread, socket>>

\* The ring leaves both loops when its budget is spent, before it records the group.
Records == InGroup /\ ~(kind = "ring" /\ poll.budget = 0)

\* The slot's RecvMeta is filled in.
CloseGroup ==
    /\ poll.at = "take" /\ Records
    /\ GroupFull \/ Ahead = <<>> \/ poll.budget = 0
    /\ poll' = [poll EXCEPT !.received = @ + 1, !.group = <<>>, !.meta = @ \o Ids(poll.group)]
    /\ UNCHANGED <<kind, kernel, read, pending, delivered, rejected, arrived, waker, woken, thread, socket>>

\* Poll::Ready, or Poll::Pending with the waker called: the task polls again.
Returns ==
    /\ delivered' = delivered \o poll.meta
    /\ poll' = NotPolling
    /\ woken' = TRUE
    /\ UNCHANGED <<kind, kernel, read, pending, rejected, arrived, thread, socket>>

SlotsFilled == poll.at = "take" /\ poll.received = slots /\ Returns /\ UNCHANGED waker

BudgetSpent ==
    /\ poll.at = "take" /\ poll.received < slots /\ poll.budget = 0 /\ ~Records
    /\ Returns /\ UNCHANGED waker

Drained ==
    /\ poll.at = "take" /\ poll.received < slots /\ poll.budget > 0 /\ ~InGroup /\ Ahead = <<>>

\* receive_batch: recvmmsg fills the batch again.
Refill ==
    /\ kind = "batch" /\ Drained /\ kernel # <<>>
    /\ \E count \in 1 .. RECV_BATCH_SIZE :
           /\ count <= Len(kernel)
           /\ read' = SubSeq(kernel, 1, count)
           /\ kernel' = SubSeq(kernel, count + 1, Len(kernel))
    /\ UNCHANGED <<kind, pending, poll, delivered, rejected, arrived, waker, woken, thread, socket>>

\* poll_read_ready is Pending and has registered the waker.
NothingReady ==
    /\ kind # "windivert" /\ Drained /\ kernel = <<>>
    /\ waker' = TRUE
    /\ \/ poll.received > 0 /\ Returns
       \/ /\ poll.received = 0
          /\ poll' = NotPolling
          /\ UNCHANGED <<kind, kernel, read, pending, delivered, rejected, arrived, woken, thread, socket>>

Fails ==
    /\ socket' = "failed"
    /\ poll' = NotPolling
    /\ UNCHANGED <<kind, kernel, pending, delivered, rejected, arrived, woken, waker>>

\* recvmmsg, the ring or the descriptor fails: the poll returns the error.
ReadFails == kind # "windivert" /\ Drained /\ Fails /\ UNCHANGED <<read, thread>>

-----------------------------------------------------------------------------
\* next_packet of windows.rs: the channel was empty; the waker is registered, and the
\* channel looked at again.
Look ==
    /\ kind = "windivert" /\ Drained
    /\ thread.at # "ended"
    /\ poll' = [poll EXCEPT !.at = "register"]
    /\ UNCHANGED <<kind, kernel, read, pending, delivered, rejected, arrived, waker, woken, thread, socket>>

Register ==
    /\ poll.at = "register"
    /\ waker' = TRUE
    /\ poll' = [poll EXCEPT !.at = "recheck"]
    /\ UNCHANGED <<kind, kernel, read, pending, delivered, rejected, arrived, woken, thread, socket>>

\* Bug: the channel is not looked at again.
RecheckSkipped ==
    /\ poll.at = "recheck"
    /\ read # <<>> \/ thread.at # "ended"
    /\ poll' = NotPolling
    /\ UNCHANGED <<kind, kernel, read, pending, delivered, rejected, arrived, waker, woken, thread, socket>>

Recheck ==
    /\ poll.at = "recheck"
    /\ read # <<>> \/ thread.at # "ended"
    /\ poll' = IF read # <<>> THEN [poll EXCEPT !.at = "take"] ELSE NotPolling
    /\ UNCHANGED <<kind, kernel, read, pending, delivered, rejected, arrived, waker, woken, thread, socket>>

\* The channel is disconnected, or held the error of the thread.
ReceiverFailed ==
    /\ \/ /\ poll.at = "recheck" \/ (kind = "windivert" /\ Drained)
          /\ read = <<>> /\ thread.at = "ended" /\ UNCHANGED read
       \/ poll.at = "take" /\ kind = "windivert" /\ read # <<>> /\ Head(read) = Broken /\ read' = Tail(read)
    /\ Fails /\ UNCHANGED thread

\* The thread: receive; a full channel blocks its send; then the waker is taken and called.
ThreadOnly == UNCHANGED <<kind, pending, poll, delivered, rejected, arrived, socket>>

ThreadReceives ==
    /\ thread.at = "receive" /\ socket # "dropped" /\ kernel # <<>>
    /\ thread' = [at |-> "send", hand |-> <<Head(kernel)>>]
    /\ kernel' = Tail(kernel)
    /\ ThreadOnly /\ UNCHANGED <<read, waker, woken>>

ThreadReceiveFails ==
    /\ thread.at = "receive"
    /\ thread' = IF socket = "dropped" THEN [thread EXCEPT !.at = "ended"]
                 ELSE [at |-> "send", hand |-> <<Broken>>]
    /\ ThreadOnly /\ UNCHANGED <<kernel, read, waker, woken>>

ThreadSends ==
    /\ thread.at = "send" /\ socket # "dropped" /\ Len(read) < CHANNEL_CAPACITY
    /\ read' = read \o thread.hand
    /\ thread' = [at |-> IF thread.hand = <<Broken>> THEN "last wake" ELSE "wake", hand |-> <<>>]
    /\ ThreadOnly /\ UNCHANGED <<kernel, waker, woken>>

ThreadDisconnected ==
    /\ thread.at = "send" /\ socket = "dropped"
    /\ thread' = [at |-> IF thread.hand = <<Broken>> THEN "last wake" ELSE "ended", hand |-> <<>>]
    /\ ThreadOnly /\ UNCHANGED <<kernel, read, waker, woken>>

ThreadWakes ==
    /\ thread.at \in {"wake", "last wake"}
    /\ woken' = (woken \/ waker) /\ waker' = FALSE
    /\ thread' = [thread EXCEPT !.at = IF @ = "wake" THEN "receive" ELSE "ended"]
    /\ ThreadOnly /\ UNCHANGED <<kernel, read>>

\* The endpoint lets go of the socket: Drop stops the handle, and the receiving half of
\* the channel is gone with what it held.
DropSocket ==
    /\ socket # "dropped" /\ poll.at = "idle"
    /\ socket' = "dropped"
    /\ read' = <<>> /\ pending' = <<>>
    /\ UNCHANGED <<kind, kernel, poll, delivered, rejected, arrived, waker, woken, thread>>

-----------------------------------------------------------------------------
PollStep ==
    \/ BeginPoll \/ Decode \/ CloseGroup \/ SlotsFilled \/ BudgetSpent \/ Refill \/ NothingReady
    \/ Look \/ Register \/ Recheck \/ ReceiverFailed

\* What the thread does without a failure: its receive returns once there is a packet or
\* the handle is shut down.
ThreadStep ==
    \/ ThreadReceives \/ ThreadSends \/ ThreadDisconnected \/ ThreadWakes
    \/ socket = "dropped" /\ ThreadReceiveFails

ReceiveNext ==
    \/ Arrive(FALSE, 1) \/ \E len \in PayloadLengths : Arrive(TRUE, len)
    \/ PollStep \/ ThreadStep \/ ThreadReceiveFails \/ ReadFails \/ DropSocket

\* The task runs when woken and the thread runs; an error need never come.
ReceiveFairness == WF_receiveVars(PollStep) /\ WF_receiveVars(ThreadStep)

ReceiveSpec == ReceiveInit /\ [][ReceiveNext]_receiveVars /\ ReceiveFairness

-----------------------------------------------------------------------------
\* Every packet captured is in exactly one place, in the order of capture, until it is
\* handed to noq or counted as a reject, and only packets that do not decode or do not
\* fit are rejected: no group, batch, pending payload or channel entry is overwritten,
\* whatever mixture of lengths and rejects splits the polls.
Waiting == poll.meta \o Ids(poll.group) \o Ids(pending) \o Ids(SelectSeq(read, LAMBDA p : p # Broken))
               \o Ids(SelectSeq(thread.hand, LAMBDA p : p # Broken)) \o Ids(kernel)
Accounted ==
    socket = "open" =>
        LET places == delivered \o Waiting
        IN  /\ \A i \in 1 .. Len(places) - 1 : places[i] < places[i + 1]
            /\ {places[i] : i \in DOMAIN places} \cup rejected = 1 .. arrived
            /\ {places[i] : i \in DOMAIN places} \cap rejected = {}

\* Whatever was captured is in the end handed over or counted, unless the socket fails or
\* is dropped: no arrival between a look at the queue and the registration of the waker is
\* slept on, a spent budget resumes, and the bounded channel never blocks for good.
PacketsHandled ==
    []<>(socket # "open" \/ Len(delivered) + Cardinality(rejected) = arrived)
=============================================================================
