---------------------------- MODULE DatagramQueue ----------------------------
(***************************************************************************)
(* The DATAGRAM egress of one connection (recovery.rs): flow tasks push    *)
(* SOURCE and REPAIR datagrams into a bounded queue, the driver task takes *)
(* them out and hands them to QUIC, and both park on wakers.  A flow that  *)
(* finds the queue full joins the waiters; taking a datagram wakes one of  *)
(* them, and only once the queue is down to half.                          *)
(*                                                                         *)
(* A SOURCE is the sequence of its own symbol id, a REPAIR the sequence of *)
(* the ids of the sources it was coded from.                               *)
(***************************************************************************)
EXTENDS Integers, Sequences, FiniteSets, Functions

CONSTANTS
    Flows,          \* flow tasks of the connection
    Capacity,       \* decoder_window: bound of the queue and of the waiters
    MaxSpan,        \* max_span of the active capabilities
    MaxRepairs,     \* bound on one repair budget
    SendBatch,      \* DRIVER_SEND_BATCH
    SymbolModulus   \* 2^32 in the code: symbol ids wrap

ASSUME QueueAssumption ==
    /\ Capacity \in Nat \ {0} /\ MaxSpan \in Nat \ {0} /\ MaxRepairs \in Nat \ {0}
    /\ SendBatch \in Nat \ {0} /\ SymbolModulus \in Nat \ {0}
    /\ IsFiniteSet(Flows)

\* The limits a connection runs with.  decoder_window is at least 512, so that half
\* of it and one more exceeds the 2 * 128 flows two peers may have open by default.  A
\* flow that ended with its waker registered counts as one of Flows.
ASSUME WaitersAssumption == Cardinality(Flows) <= (Capacity \div 2) + 1

VARIABLES
    datagram_enabled,
    pending,            \* DatagramQueue.pending
    producer_waiters,   \* DatagramQueue.producer_waiters
    driver_waker,       \* DatagramQueue.driver_waker is registered
    next_symbol,
    sources,            \* ids of the last datagrams sent
    adaptive_required,
    flow,               \* a flow task is idle, ready (scheduled, with data to send),
                        \* waiting for room, or gone (ended, or left DATAGRAM)
    repairs,            \* the repairs it is coding: how many are left, from what window
    driver,             \* where run_datagram_driver is
    sending,            \* the datagram it holds
    send_streak,
    read_ready,         \* a DATAGRAM of the peer waits to be read
    disabling           \* where a caller of disable_datagrams is

queueVars == <<pending, producer_waiters, driver_waker>>
symbolVars == <<next_symbol, sources>>
flowVars == <<flow, repairs>>
driverVars == <<driver, sending, send_streak, read_ready>>
vars == <<datagram_enabled, queueVars, symbolVars, adaptive_required, flowVars,
          driverVars, disabling>>

NoDatagram == <<>>
NoRepairs == [left |-> 0, window |-> <<>>]
Callers == {"driver", "negotiation"}

Init ==
    /\ datagram_enabled = TRUE
    /\ pending = <<>> /\ producer_waiters = <<>> /\ driver_waker = FALSE
    /\ next_symbol = 0 /\ sources = <<>>
    /\ adaptive_required \in BOOLEAN
    /\ flow = [f \in Flows |-> "idle"]
    /\ repairs = [f \in Flows |-> NoRepairs]
    /\ driver = "polled" /\ sending = NoDatagram /\ send_streak = 0 /\ read_ready = FALSE
    /\ disabling = [c \in Callers |-> "no"]
-----------------------------------------------------------------------------
(***************************************************************************)
(* Flow tasks.  Each step is one section under the datagrams lock.         *)
(***************************************************************************)
Full == Len(pending) = Capacity

\* The waker of f is registered once, and dropped when there is no room for it.
register_producer(f) ==
    IF f \in Range(producer_waiters) \/ Len(producer_waiters) = Capacity
    THEN UNCHANGED producer_waiters
    ELSE producer_waiters' = Append(producer_waiters, f)

\* A datagram joins the queue, and the driver is woken if it waits for one.
Push(datagram) ==
    /\ pending' = Append(pending, datagram)
    /\ driver_waker' = FALSE
    /\ driver' = IF driver_waker /\ driver = "parked" THEN "polled" ELSE driver
    /\ UNCHANGED <<sending, send_streak, read_ready>>

\* The task sends on the reliable stream from now on.
LeaveDatagram(f) ==
    /\ flow' = [flow EXCEPT ![f] = "gone"]
    /\ UNCHANGED <<queueVars, next_symbol, driverVars>>

\* next_symbol.fetch_add
NextSymbol == (next_symbol + 1) % SymbolModulus

\* Bug: the symbol id is taken before the queue is known to have room.
SendSourceBurnsId(f) ==
    /\ flow[f] = "ready" /\ repairs[f] = NoRepairs
    /\ next_symbol' = NextSymbol
    /\ IF ~datagram_enabled
       THEN flow' = [flow EXCEPT ![f] = "gone"] /\ UNCHANGED <<queueVars, driverVars>>
       ELSE IF Full
       THEN /\ register_producer(f)
            /\ flow' = [flow EXCEPT ![f] = "waiting"]
            /\ UNCHANGED <<pending, driver_waker, driverVars>>
       ELSE /\ Push(<<next_symbol>>)
            /\ \E then \in {"idle", "ready"} : flow' = [flow EXCEPT ![f] = then]
            /\ UNCHANGED producer_waiters
    /\ UNCHANGED <<datagram_enabled, sources, adaptive_required, repairs, disabling>>

\* send_source, of fresh or of retained bytes.  The task then has more to send, or not.
SendSource(f) ==
    /\ flow[f] = "ready" /\ repairs[f] = NoRepairs
    /\ IF ~datagram_enabled THEN LeaveDatagram(f)
       ELSE IF Full
       THEN /\ register_producer(f)
            /\ flow' = [flow EXCEPT ![f] = "waiting"]
            /\ UNCHANGED <<pending, driver_waker, next_symbol, driverVars>>
       ELSE /\ Push(<<next_symbol>>)
            /\ next_symbol' = NextSymbol
            /\ \E then \in {"idle", "ready"} : flow' = [flow EXCEPT ![f] = then]
            /\ UNCHANGED producer_waiters
    /\ UNCHANGED <<datagram_enabled, sources, adaptive_required, repairs, disabling>>

\* send_tail_repairs, first lock: how many repairs there is room for.
PlanRepairs(f) ==
    /\ flow[f] = "ready" /\ repairs[f] = NoRepairs
    /\ IF ~datagram_enabled THEN LeaveDatagram(f) /\ UNCHANGED repairs
       ELSE /\ IF Full THEN register_producer(f) /\ UNCHANGED repairs
               ELSE /\ \E n \in 1 .. MaxRepairs :
                         /\ n <= Capacity - Len(pending)
                         /\ repairs' = [repairs EXCEPT ![f] = [left |-> n, window |-> <<>>]]
                    /\ UNCHANGED producer_waiters
            /\ UNCHANGED <<pending, driver_waker, next_symbol, flow, driverVars>>
    /\ UNCHANGED <<datagram_enabled, sources, adaptive_required, disabling>>

\* Second: the sources they are coded from, under the lock of the sources.
ReadWindow(f) ==
    /\ repairs[f].left > 0 /\ repairs[f].window = <<>>
    /\ LET span == IF Len(sources) < MaxSpan THEN Len(sources) ELSE MaxSpan
           window == SubSeq(sources, Len(sources) - span + 1, Len(sources))
       IN  repairs' = [repairs EXCEPT ![f] =
                         IF Len(sources) < 2 THEN NoRepairs
                         ELSE [left |-> repairs[f].left, window |-> window]]
    /\ UNCHANGED <<datagram_enabled, queueVars, symbolVars, adaptive_required, flow,
                   driverVars, disabling>>

OneLess(r) == IF r.left = 1 THEN NoRepairs ELSE [left |-> r.left - 1, window |-> r.window]

\* Third, for each repair: the lock is taken again.
PushRepair(f) ==
    /\ repairs[f].window # <<>>
    /\ IF ~datagram_enabled
       THEN LeaveDatagram(f) /\ repairs' = [repairs EXCEPT ![f] = NoRepairs]
       ELSE IF Full
       THEN /\ register_producer(f)
            /\ repairs' = [repairs EXCEPT ![f] = NoRepairs]
            /\ UNCHANGED <<pending, driver_waker, next_symbol, flow, driverVars>>
       ELSE /\ Push(repairs[f].window)
            /\ repairs' = [repairs EXCEPT ![f] = OneLess(@)]
            /\ UNCHANGED <<producer_waiters, next_symbol, flow>>
    /\ UNCHANGED <<datagram_enabled, sources, adaptive_required, disabling>>

\* The task ends; its waker stays among the waiters.
Finish(f) ==
    /\ flow[f] # "gone" /\ repairs[f] = NoRepairs
    /\ flow' = [flow EXCEPT ![f] = "gone"]
    /\ UNCHANGED <<datagram_enabled, queueVars, symbolVars, adaptive_required, repairs,
                   driverVars, disabling>>

\* The application, a timer or the peer wakes the task, and it has something to send.
Event(f) ==
    /\ flow[f] \in {"idle", "waiting"}
    /\ flow' = [flow EXCEPT ![f] = "ready"]
    /\ UNCHANGED <<datagram_enabled, queueVars, symbolVars, adaptive_required, repairs,
                   driverVars, disabling>>
-----------------------------------------------------------------------------
(***************************************************************************)
(* disable_datagrams, called by the driver after a send error or by a flow *)
(* that negotiates: each step is one store or one lock.                    *)
(***************************************************************************)
\* A task that has nothing to send goes back to sleep.
Woken == [f \in Flows |-> IF flow[f] = "waiting" THEN "ready" ELSE flow[f]]

Disable(c) ==
    \/ /\ disabling[c] = "store"
       /\ datagram_enabled' = FALSE
       /\ disabling' = [disabling EXCEPT ![c] = "pending"]
       /\ UNCHANGED <<pending, sources, flow, driver>>
    \/ /\ disabling[c] = "pending"
       /\ pending' = <<>>
       /\ disabling' = [disabling EXCEPT ![c] = "sources"]
       /\ UNCHANGED <<datagram_enabled, sources, flow, driver>>
    \/ /\ disabling[c] = "sources"
       /\ sources' = <<>>
       /\ disabling' = [disabling EXCEPT ![c] = "flows"]
       /\ UNCHANGED <<datagram_enabled, pending, flow, driver>>
    \/ /\ disabling[c] = "flows"
       /\ flow' = Woken
       /\ disabling' = [disabling EXCEPT ![c] = "done"]
       /\ driver' = IF c = "driver" THEN "stopped" ELSE driver
       /\ UNCHANGED <<datagram_enabled, pending, sources>>

DisableDatagrams(c) ==
    /\ Disable(c)
    /\ UNCHANGED <<producer_waiters, driver_waker, next_symbol, adaptive_required, repairs,
                   sending, send_streak, read_ready>>

\* negotiate_capabilities: the peer does not support the adaptive mode.
Negotiate ==
    /\ ~adaptive_required
    /\ disabling["negotiation"] = "no"
    /\ disabling' = [disabling EXCEPT !["negotiation"] = "store"]
    /\ UNCHANGED <<datagram_enabled, queueVars, symbolVars, adaptive_required, flowVars,
                   driverVars>>
-----------------------------------------------------------------------------
(***************************************************************************)
(* The driver.  It sends before it reads, except after a batch of sends.   *)
(***************************************************************************)
\* Bug: a DATAGRAM that waits is always read first.
ReadAlwaysFirst == read_ready

ReadFirst == send_streak >= SendBatch /\ read_ready

\* Bug: strictly less than half.
WakesProducerLater == Len(pending) - 1 < Capacity \div 2

\* With the head of the queue gone, at most half of it is in use.
WakesProducer == Len(pending) - 1 <= Capacity \div 2

\* take_datagram; the datagram is sent at once or waits for QUIC's buffer.
TakeDatagram ==
    /\ driver = "polled" /\ ~ReadFirst
    /\ pending # <<>>
    /\ sending' = Head(pending) /\ pending' = Tail(pending)
    /\ IF WakesProducer /\ producer_waiters # <<>>
       THEN /\ producer_waiters' = Tail(producer_waiters)
            /\ LET f == Head(producer_waiters)
               IN  flow' = [flow EXCEPT ![f] = Woken[f]]
       ELSE UNCHANGED <<producer_waiters, flow>>
    /\ driver' = "sends"
    /\ UNCHANGED <<datagram_enabled, driver_waker, symbolVars, adaptive_required, repairs,
                   send_streak, read_ready, disabling>>

\* take_datagram finds nothing and neither does the read.
DriverParks ==
    /\ driver = "polled" /\ pending = <<>> /\ ~read_ready
    /\ driver_waker' = TRUE /\ driver' = "parked"
    /\ UNCHANGED <<datagram_enabled, pending, producer_waiters, symbolVars,
                   adaptive_required, flowVars, sending, send_streak, read_ready, disabling>>

\* A DATAGRAM is read and passed to receive.
Receive ==
    /\ \/ driver = "polled" /\ (ReadFirst \/ pending = <<>>)
       \/ driver = "sends"
    /\ read_ready
    /\ read_ready' = FALSE /\ send_streak' = 0
    /\ driver_waker' = (driver_waker \/ (driver = "polled" /\ ~ReadFirst))
    /\ UNCHANGED <<datagram_enabled, pending, producer_waiters, symbolVars,
                   adaptive_required, flowVars, driver, sending, disabling>>

\* record_sent, up to its check of datagram_enabled.
Sent ==
    /\ driver = "sends"
    /\ send_streak' = IF send_streak < SendBatch THEN send_streak + 1 ELSE send_streak
    /\ IF Len(sending) = 1 /\ datagram_enabled
       THEN driver' = "records" /\ UNCHANGED sending
       ELSE driver' = "polled" /\ sending' = NoDatagram
    /\ UNCHANGED <<datagram_enabled, queueVars, symbolVars, adaptive_required, flowVars,
                   read_ready, disabling>>

\* The rest of record_sent: the last MaxSpan sources are kept.
RecordSent ==
    /\ driver = "records"
    /\ sources' = LET all == sources \o sending
                  IN  IF Len(all) > MaxSpan THEN Tail(all) ELSE all
    /\ sending' = NoDatagram /\ driver' = "polled"
    /\ UNCHANGED <<datagram_enabled, queueVars, next_symbol, adaptive_required, flowVars,
                   send_streak, read_ready, disabling>>

\* The driver's locals go with it, and nobody reads any more.
DriverEnds == sending' = NoDatagram /\ send_streak' = 0 /\ read_ready' = FALSE

\* handle_send_error: QUIC refuses the DATAGRAM.  The adaptive mode is left, or the
\* connection is closed when it is required.
SendRefused ==
    /\ driver = "sends"
    /\ DriverEnds
    /\ IF adaptive_required
       THEN driver' = "closed" /\ UNCHANGED disabling
       ELSE /\ driver' = "disables"
            /\ disabling' = [disabling EXCEPT !["driver"] = "store"]
    /\ UNCHANGED <<datagram_enabled, queueVars, symbolVars, adaptive_required, flowVars>>

\* The connection is lost: the read or the send fails.
ConnectionLost ==
    /\ driver \in {"polled", "parked", "sends"}
    /\ driver' = "closed" /\ DriverEnds
    /\ UNCHANGED <<datagram_enabled, queueVars, symbolVars, adaptive_required, flowVars,
                   disabling>>

\* A DATAGRAM of the peer arrives, and wakes the driver.
Arrival ==
    /\ ~read_ready /\ driver \notin {"disables", "stopped", "closed"}
    /\ read_ready' = TRUE
    /\ driver' = IF driver = "parked" THEN "polled" ELSE driver
    /\ UNCHANGED <<datagram_enabled, queueVars, symbolVars, adaptive_required, flowVars,
                   sending, send_streak, disabling>>
-----------------------------------------------------------------------------
Driver ==
    \/ TakeDatagram \/ DriverParks \/ Receive \/ RecordSent \/ DisableDatagrams("driver")

Producer(f) ==
    \/ SendSource(f) \/ PlanRepairs(f) \/ ReadWindow(f) \/ PushRepair(f)
    \/ Finish(f)

Next ==
    \/ \E f \in Flows : Producer(f) \/ Event(f)
    \/ Driver \/ Sent \/ SendRefused \/ ConnectionLost \/ Arrival
    \/ Negotiate \/ DisableDatagrams("negotiation")

Spec == Init /\ [][Next]_vars

\* The runtime polls a driver that is awake, and QUIC finishes or fails every send.
LiveSpec == Spec /\ WF_vars(Driver) /\ WF_vars(Sent \/ SendRefused)
-----------------------------------------------------------------------------
Datagram == Seq(0 .. SymbolModulus - 1)

TypeOK ==
    /\ datagram_enabled \in BOOLEAN /\ adaptive_required \in BOOLEAN
    /\ pending \in Seq(Datagram) /\ producer_waiters \in Seq(Flows)
    /\ driver_waker \in BOOLEAN /\ read_ready \in BOOLEAN
    /\ next_symbol \in 0 .. SymbolModulus - 1 /\ sources \in Datagram
    /\ flow \in [Flows -> {"idle", "ready", "waiting", "gone"}]
    /\ repairs \in [Flows -> [left : 0 .. MaxRepairs, window : Datagram]]
    /\ driver \in {"polled", "parked", "sends", "records", "disables", "stopped",
                   "closed"}
    /\ sending \in Datagram /\ send_streak \in 0 .. SendBatch
    /\ disabling \in [Callers -> {"no", "store", "pending", "sources", "flows", "done"}]

\* The queue, the waiters and the repair window keep their bounds, and a task waits once.
Bounded ==
    /\ Len(pending) <= Capacity /\ Len(producer_waiters) <= Capacity
    /\ Len(sources) <= MaxSpan
    /\ IsInjective(producer_waiters)

\* A flow that waits for room is not forgotten: while DATAGRAM is in use and the
\* connection lives, it is among the waiters, the queue holds a datagram whose
\* departure can wake it, and the driver is not asleep.  Once DATAGRAM is disabled,
\* the caller of disable_datagrams has yet to wake it.
NoLostWakeup ==
    \A f \in Flows :
        flow[f] = "waiting" /\ driver # "closed" =>
            IF \E c \in Callers : disabling[c] \in {"pending", "sources", "flows"} THEN TRUE
            ELSE /\ f \in Range(producer_waiters)
                 /\ pending # <<>>
                 /\ driver # "parked"

\* The decoder takes the symbols of a repair to be consecutive from its first: so they
\* are, whatever is sent, dropped, repaired and disabled in between.
RepairWindow ==
    \A i \in DOMAIN pending :
        \A k \in DOMAIN pending[i] :
            pending[i][k] = (pending[i][1] + k - 1) % SymbolModulus

\* Nothing joins the queue after disable_datagrams cleared it.
DisabledEmpty ==
    (\E c \in Callers : disabling[c] \in {"sources", "flows", "done"}) => pending = <<>>

\* Sends do not starve behind a peer that never stops sending: while datagrams are
\* queued, the driver comes back to send one.  Nor do reads starve behind flows that
\* never stop sending.
Served ==
    /\ []<>(pending = <<>> \/ driver \in {"sends", "stopped", "closed"})
    /\ []<>(~read_ready \/ driver \in {"stopped", "closed"})
=============================================================================
