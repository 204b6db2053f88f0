------------------------ MODULE DatagramQueueProofs ------------------------
(***************************************************************************)
(* Proofs about DatagramQueue, for any number of flows and any limits that *)
(* the assumptions allow: the state keeps its type, no flow that waits for *)
(* room in the queue is forgotten, and the symbols of every repair are     *)
(* consecutive.                                                            *)
(***************************************************************************)
EXTENDS DatagramQueue, FiniteSetTheorems, SequenceTheorems, TLAPS

\* disable_datagrams has not stored its flag yet.
InUse == \A c \in Callers : disabling[c] \in {"no", "store"}

(***************************************************************************)
(* The inductive invariant behind NoLostWakeup.  Its heart is that there   *)
(* are never more waiters than datagrams whose departure can wake them:    *)
(* above half of the queue none is woken, but there the waiters, being     *)
(* distinct flows, are fewer than the datagrams; from there on each        *)
(* departure wakes one.                                                    *)
(***************************************************************************)
QueueInv ==
    /\ datagram_enabled <=> InUse
    /\ disabling["driver"] # "no" => driver \in {"disables", "stopped"}
    /\ Len(pending) <= Capacity
    /\ Len(sources) <= MaxSpan
    /\ IsInjective(producer_waiters)
    /\ InUse => /\ Len(producer_waiters) <= Len(pending)
                /\ \A f \in Flows : flow[f] = "waiting" => f \in Range(producer_waiters)
    /\ (\E c \in Callers : disabling[c] = "done") => \A f \in Flows : flow[f] # "waiting"
    /\ driver = "parked" => driver_waker /\ pending = <<>>
    /\ driver = "records" => Len(sending) = 1
    /\ DisabledEmpty
-----------------------------------------------------------------------------
\* Distinct elements of a finite set are no more than the set has (the waiters are
\* wakers of different flow tasks).
LEMMA DistinctFit ==
    ASSUME NEW S, IsFiniteSet(S), NEW s \in Seq(S), IsInjective(s)
    PROVE  Len(s) <= Cardinality(S)
<1>0. Len(s) \in Nat
  OBVIOUS
<1>1. /\ IsFiniteSet(1 .. Len(s)) /\ Cardinality(1 .. Len(s)) = Len(s)
  <2>1. 1 \in Int /\ Len(s) \in Int
    BY <1>0
  <2>2. /\ IsFiniteSet(1 .. Len(s))
        /\ Cardinality(1 .. Len(s)) = IF 1 > Len(s) THEN 0 ELSE Len(s) - 1 + 1
    BY <2>1, FS_Interval, Zenon
  <2> QED
    BY <1>0, <2>2
<1>2. Cardinality(S) \in Nat
  BY FS_CardinalityType
<1>3. s \in [1 .. Len(s) -> S]
  OBVIOUS
<1>4. SUFFICES ASSUME Cardinality(S) < Cardinality(1 .. Len(s)) PROVE FALSE
  BY <1>1, <1>2
<1>5. \E x, y \in 1 .. Len(s) : x # y /\ s[x] = s[y]
  BY <1>1, <1>3, <1>4, FS_PigeonHole
<1> QED
  BY <1>5 DEF IsInjective

\* What register_producer does when it registers a waker.
LEMMA AppendDistinct ==
    ASSUME NEW S, NEW s \in Seq(S), NEW e \in S, IsInjective(s), e \notin Range(s)
    PROVE  /\ Append(s, e) \in Seq(S) /\ Len(Append(s, e)) = Len(s) + 1
           /\ IsInjective(Append(s, e))
           /\ e \in Range(Append(s, e))
           /\ \A x : x \in Range(s) => x \in Range(Append(s, e))
<1>1. /\ Append(s, e) \in Seq(S) /\ Len(Append(s, e)) = Len(s) + 1
      /\ DOMAIN Append(s, e) = 1 .. Len(s) + 1 /\ DOMAIN s = 1 .. Len(s)
      /\ \A i \in 1 .. Len(s) : Append(s, e)[i] = s[i]
      /\ Append(s, e)[Len(s) + 1] = e
  OBVIOUS
<1>2. IsInjective(Append(s, e))
  BY <1>1 DEF IsInjective, Range
<1> QED
  BY <1>1, <1>2 DEF Range

\* What take_datagram does when it wakes the first waiter.
LEMMA TailDistinct ==
    ASSUME NEW S, NEW s \in Seq(S), s # <<>>, IsInjective(s)
    PROVE  /\ Head(s) \in S /\ Tail(s) \in Seq(S) /\ Len(Tail(s)) = Len(s) - 1
           /\ IsInjective(Tail(s))
           /\ \A x : x \in Range(s) => x = Head(s) \/ x \in Range(Tail(s))
<1>1. /\ Tail(s) \in Seq(S) /\ Len(Tail(s)) = Len(s) - 1 /\ Head(s) = s[1] /\ Head(s) \in S
      /\ DOMAIN Tail(s) = 1 .. Len(s) - 1 /\ DOMAIN s = 1 .. Len(s)
      /\ \A i \in 1 .. Len(s) - 1 : Tail(s)[i] = s[i + 1]
  OBVIOUS
<1>2. IsInjective(Tail(s))
  BY <1>1 DEF IsInjective
<1>3. ASSUME NEW x, x \in Range(s), x # Head(s)
      PROVE  x \in Range(Tail(s))
  <2>1. PICK i \in 1 .. Len(s) : s[i] = x
    BY <1>3 DEF Range
  <2>2. i - 1 \in 1 .. Len(s) - 1 /\ Tail(s)[i - 1] = x
    BY <1>1, <1>3, <2>1
  <2> QED
    BY <1>1, <2>2, Zenon DEF Range
<1> QED
  BY <1>1, <1>2, <1>3
-----------------------------------------------------------------------------
\* The last elements of a sequence (the window send_tail_repairs reads).
LEMMA LastTyped ==
    ASSUME NEW S, NEW s \in Seq(S), NEW n \in Nat, n <= Len(s)
    PROVE  SubSeq(s, Len(s) - n + 1, Len(s)) \in Seq(S)
  OBVIOUS

\* All but the first (the sources record_sent keeps).
LEMMA TailTyped ==
    ASSUME NEW S, NEW s \in Seq(S), s # <<>>
    PROVE  Tail(s) \in Seq(S) /\ Len(Tail(s)) = Len(s) - 1
  OBVIOUS

\* One sequence after another.
LEMMA ConcatTyped ==
    ASSUME NEW S, NEW s \in Seq(S), NEW t \in Seq(S)
    PROVE  /\ s \o t \in Seq(S) /\ Len(s \o t) = Len(s) + Len(t)
           /\ Len(s) \in Nat /\ Len(t) \in Nat
  OBVIOUS

\* Records of the queue's state before anything was sent.
LEMMA EmptyTyped ==
    /\ NoDatagram \in Datagram /\ <<>> \in Datagram
    /\ NoRepairs \in [left : 0 .. MaxRepairs, window : Datagram]
  BY QueueAssumption DEF NoDatagram, NoRepairs, Datagram

\* The initial state is typed.
LEMMA InitTyped == Init => TypeOK
<1> SUFFICES ASSUME Init PROVE TypeOK
  OBVIOUS
<1>1. /\ pending \in Seq(Datagram) /\ producer_waiters \in Seq(Flows)
      /\ sources \in Datagram /\ sending \in Datagram
      /\ repairs \in [Flows -> [left : 0 .. MaxRepairs, window : Datagram]]
  BY EmptyTyped DEF Init
<1>2. next_symbol \in 0 .. SymbolModulus - 1 /\ send_streak \in 0 .. SendBatch
  BY QueueAssumption DEF Init
<1> QED
  BY <1>1, <1>2, Zenon DEF Init, TypeOK

\* A push keeps the types of the queue and of the driver it wakes.
LEMMA PushTyped ==
    ASSUME TypeOK, NEW datagram \in Datagram, Push(datagram)
    PROVE  /\ pending' \in Seq(Datagram) /\ driver_waker' \in BOOLEAN
           /\ driver' \in {"polled", "parked", "sends", "records", "disables",
                           "stopped", "closed"}
           /\ sending' \in Datagram /\ send_streak' \in 0 .. SendBatch
           /\ read_ready' \in BOOLEAN
<1>1. pending' \in Seq(Datagram)
  BY DEF TypeOK, Push
<1> QED
  BY <1>1, Zenon DEF TypeOK, Push

\* Registering a waker, or not, keeps the list a list of flows (register_producer).
LEMMA RegisterTyped ==
    ASSUME NEW f \in Flows, producer_waiters \in Seq(Flows), register_producer(f)
    PROVE  producer_waiters' \in Seq(Flows)
  BY DEF register_producer

\* What TypeOK needs to be inductive: a window was read for repairs that are left.
RepairsLeft == \A f \in Flows : repairs[f].window # <<>> => repairs[f].left > 0

\* Every action keeps RepairsLeft (the loop of send_tail_repairs).
LEMMA StepLeft == TypeOK /\ RepairsLeft /\ [Next]_vars => RepairsLeft'
<1> SUFFICES ASSUME TypeOK, RepairsLeft, [Next]_vars PROVE RepairsLeft'
  OBVIOUS
<1> USE DEF TypeOK, RepairsLeft
<1>1. CASE UNCHANGED repairs
  BY <1>1
<1>2. ASSUME NEW f \in Flows, PlanRepairs(f) PROVE RepairsLeft'
  <2>1. UNCHANGED repairs
        \/ \E n \in 1 .. MaxRepairs : repairs' = [repairs EXCEPT ![f] = [left |-> n, window |-> <<>>]]
    BY <1>2 DEF PlanRepairs
  <2>2. ASSUME NEW n \in 1 .. MaxRepairs,
               repairs' = [repairs EXCEPT ![f] = [left |-> n, window |-> <<>>]]
        PROVE  RepairsLeft'
    BY <2>2, QueueAssumption
  <2> QED
    BY <1>1, <2>1, <2>2
<1>3. ASSUME NEW f \in Flows, ReadWindow(f) PROVE RepairsLeft'
  BY <1>3 DEF ReadWindow, NoRepairs
<1>4. ASSUME NEW f \in Flows, PushRepair(f) PROVE RepairsLeft'
  <2>1. repairs' = [repairs EXCEPT ![f] = NoRepairs]
        \/ repairs' = [repairs EXCEPT ![f] = OneLess(repairs[f])]
    BY <1>4 DEF PushRepair
  <2>2. repairs[f].left \in Nat /\ repairs[f].left > 0
    BY <1>4, QueueAssumption DEF PushRepair
  <2> QED
    BY <2>1, <2>2 DEF NoRepairs, OneLess
<1> QED
  BY <1>1, <1>2, <1>3, <1>4, Zenon
     DEF Next, Producer, Driver, SendSource, Finish, Event, TakeDatagram, DriverParks,
         Receive, RecordSent, Sent, SendRefused, ConnectionLost, Arrival, Negotiate,
         DisableDatagrams, flowVars, vars

\* Every action keeps TypeOK.
LEMMA StepTyped == TypeOK /\ RepairsLeft /\ [Next]_vars => TypeOK'
<1> SUFFICES ASSUME TypeOK, RepairsLeft, [Next]_vars PROVE TypeOK'
  OBVIOUS
<1> USE DEF TypeOK
<1>a. ASSUME NEW f \in Flows, SendSource(f) PROVE TypeOK'
  <2>1. CASE ~datagram_enabled
    BY <1>a, <2>1, Zenon DEF SendSource, LeaveDatagram, queueVars, driverVars
  <2>2. CASE datagram_enabled /\ Full
    BY <1>a, <2>2, RegisterTyped, Zenon DEF SendSource, driverVars
  <2>3. CASE datagram_enabled /\ ~Full
    <3>1. <<next_symbol>> \in Datagram
      BY DEF Datagram
    <3>2. NextSymbol \in 0 .. SymbolModulus - 1
      BY QueueAssumption DEF NextSymbol
    <3> QED
      BY <1>a, <2>3, <3>1, <3>2, PushTyped, Zenon DEF SendSource
  <2> QED
    BY <2>1, <2>2, <2>3
<1>b. ASSUME NEW f \in Flows, PlanRepairs(f) PROVE TypeOK'
  <2>1. CASE ~datagram_enabled
    BY <1>b, <2>1, Zenon DEF PlanRepairs, LeaveDatagram, queueVars, driverVars
  <2>2. CASE datagram_enabled /\ Full
    BY <1>b, <2>2, RegisterTyped DEF PlanRepairs, driverVars
  <2>3. CASE datagram_enabled /\ ~Full
    <3>1. PICK n \in 1 .. MaxRepairs :
            repairs' = [repairs EXCEPT ![f] = [left |-> n, window |-> <<>>]]
      BY <1>b, <2>3 DEF PlanRepairs
    <3>2. repairs' \in [Flows -> [left : 0 .. MaxRepairs, window : Datagram]]
      BY <3>1, EmptyTyped, QueueAssumption
    <3> QED
      BY <1>b, <2>3, <3>2 DEF PlanRepairs, driverVars
  <2> QED
    BY <2>1, <2>2, <2>3
<1>c. ASSUME NEW f \in Flows, ReadWindow(f) PROVE TypeOK'
  <2> DEFINE span == IF Len(sources) < MaxSpan THEN Len(sources) ELSE MaxSpan
             window == SubSeq(sources, Len(sources) - span + 1, Len(sources))
  <2>1. span \in Nat /\ span <= Len(sources)
    BY QueueAssumption DEF Datagram
  <2>2. window \in Datagram
    BY <2>1, LastTyped, Zenon DEF Datagram
  <2> HIDE DEF window
  <2>4. repairs' \in [Flows -> [left : 0 .. MaxRepairs, window : Datagram]]
    BY <1>c, <2>2, EmptyTyped DEF ReadWindow, window
  <2> QED
    BY <1>c, <2>4 DEF ReadWindow, queueVars, symbolVars, driverVars
<1>d. ASSUME NEW f \in Flows, PushRepair(f) PROVE TypeOK'
  <2>1. CASE ~datagram_enabled
    BY <1>d, <2>1, EmptyTyped, Zenon DEF PushRepair, LeaveDatagram, queueVars, driverVars
  <2>2. CASE datagram_enabled /\ Full
    BY <1>d, <2>2, EmptyTyped, RegisterTyped, Zenon DEF PushRepair, driverVars
  <2>3. CASE datagram_enabled /\ ~Full
    <3>1. repairs[f].window \in Datagram /\ repairs[f].left \in 0 .. MaxRepairs
      OBVIOUS
    <3>2. repairs' \in [Flows -> [left : 0 .. MaxRepairs, window : Datagram]]
      <4>1. repairs[f] \in [left : 0 .. MaxRepairs, window : Datagram]
            /\ repairs[f].left > 0
        BY <1>d DEF PushRepair, RepairsLeft
      <4>2. OneLess(repairs[f]) \in [left : 0 .. MaxRepairs, window : Datagram]
        BY <4>1, EmptyTyped, QueueAssumption DEF OneLess
      <4> QED
        BY <1>d, <2>3, <4>2, SMTT(30) DEF PushRepair
    <3> QED
      BY <1>d, <2>3, <3>1, <3>2, PushTyped, SMTT(30) DEF PushRepair
  <2> QED
    BY <2>1, <2>2, <2>3
<1>e. ASSUME NEW f \in Flows, Finish(f) \/ Event(f) PROVE TypeOK'
  BY <1>e, Zenon DEF Finish, Event, queueVars, symbolVars, driverVars
<1>f. ASSUME NEW c \in Callers, DisableDatagrams(c) PROVE TypeOK'
  <2>1. Woken \in [Flows -> {"idle", "ready", "waiting", "gone"}]
    BY DEF Woken
  <2>2. <<>> \in Seq(Datagram) /\ <<>> \in Datagram
    BY EmptyTyped
  <2>3. CASE disabling[c] = "store"
    BY <1>f, <2>3, Zenon DEF DisableDatagrams, Disable
  <2>4. CASE disabling[c] = "pending"
    BY <1>f, <2>2, <2>4 DEF DisableDatagrams, Disable
  <2>5. CASE disabling[c] = "sources"
    BY <1>f, <2>2, <2>5, Zenon DEF DisableDatagrams, Disable
  <2>6. CASE disabling[c] = "flows"
    BY <1>f, <2>1, <2>6, Zenon DEF DisableDatagrams, Disable
  <2> QED
    BY <1>f, <2>3, <2>4, <2>5, <2>6 DEF DisableDatagrams, Disable
<1>g. CASE Negotiate
  BY <1>g DEF Negotiate, Callers, queueVars, symbolVars, flowVars, driverVars
<1>h. CASE TakeDatagram
  <2>1. sending' \in Datagram /\ pending' \in Seq(Datagram)
    BY <1>h DEF TakeDatagram
  <2>2. producer_waiters' \in Seq(Flows)
        /\ flow' \in [Flows -> {"idle", "ready", "waiting", "gone"}]
    <3>1. CASE WakesProducer /\ producer_waiters # <<>>
      <4>1. Head(producer_waiters) \in Flows /\ Tail(producer_waiters) \in Seq(Flows)
        BY <3>1
      <4>2. Woken[Head(producer_waiters)] \in {"idle", "ready", "waiting", "gone"}
        BY <4>1 DEF Woken
      <4> QED
        BY <1>h, <3>1, <4>1, <4>2, Zenon DEF TakeDatagram
    <3>2. CASE ~(WakesProducer /\ producer_waiters # <<>>)
      BY <1>h, <3>2 DEF TakeDatagram
    <3> QED
      BY <3>1, <3>2
  <2> QED
    BY <1>h, <2>1, <2>2 DEF TakeDatagram, symbolVars
<1>i. CASE DriverParks
  BY <1>i DEF DriverParks, symbolVars, flowVars
<1>j. CASE Receive
  <2>1. driver_waker' \in BOOLEAN /\ send_streak' \in 0 .. SendBatch
    BY <1>j, QueueAssumption DEF Receive
  <2> QED
    BY <1>j, <2>1, Zenon DEF Receive, symbolVars, flowVars
<1>k. CASE ConnectionLost \/ Arrival
  <2>1. send_streak' \in 0 .. SendBatch
    BY <1>k, QueueAssumption DEF ConnectionLost, DriverEnds, Arrival
  <2> QED
    BY <1>k, <2>1, EmptyTyped, Zenon DEF ConnectionLost, DriverEnds, Arrival, queueVars,
                                         symbolVars, flowVars
<1>l. CASE SendRefused
  <2>1. disabling' \in [Callers -> {"no", "store", "pending", "sources", "flows", "done"}]
    BY <1>l DEF SendRefused
  <2>2. send_streak' \in 0 .. SendBatch
    BY <1>l, QueueAssumption DEF SendRefused, DriverEnds
  <2> QED
    BY <1>l, <2>1, <2>2, EmptyTyped, Zenon DEF SendRefused, DriverEnds, queueVars, symbolVars,
                                               flowVars
<1>m. CASE Sent
  <2>1. send_streak' \in 0 .. SendBatch
    BY <1>m, QueueAssumption DEF Sent
  <2> QED
    BY <1>m, <2>1, EmptyTyped DEF Sent, queueVars, symbolVars, flowVars
<1>n. CASE RecordSent
  <2> DEFINE all == sources \o sending
  <2>1. all \in Datagram
    BY DEF Datagram
  <2> HIDE DEF all
  <2>2. Len(all) > MaxSpan => all # <<>>
    BY QueueAssumption
  <2>3. sources' = IF Len(all) > MaxSpan THEN Tail(all) ELSE all
    BY <1>n DEF RecordSent, all
  <2>4. sources' \in Datagram
    BY <2>1, <2>2, <2>3, TailTyped, Zenon DEF Datagram
  <2> QED
    BY <1>n, <2>4, EmptyTyped DEF RecordSent, queueVars, flowVars
<1>o. CASE UNCHANGED vars
  BY <1>o DEF vars, queueVars, symbolVars, flowVars, driverVars
<1> QED
  BY <1>a, <1>b, <1>c, <1>d, <1>e, <1>f, <1>g, <1>h, <1>i, <1>j, <1>k, <1>l, <1>m, <1>n,
     <1>o, Zenon
     DEF Next, Producer, Driver, Callers

\* The egress of a connection keeps its types, for any number of flows and any limits
\* (the queue, its waiters and the state of flows, driver and disable_datagrams).
THEOREM TypeCorrect == Spec => []TypeOK
<1>1. Init => TypeOK /\ RepairsLeft
  BY InitTyped DEF Init, RepairsLeft, NoRepairs
<1> QED
  BY <1>1, StepTyped, StepLeft, PTL DEF Spec
-----------------------------------------------------------------------------
\* The initial state satisfies it.
LEMMA InitQueue == Init => QueueInv
<1> SUFFICES ASSUME Init PROVE QueueInv
  OBVIOUS
<1>1. IsInjective(producer_waiters) /\ Len(producer_waiters) = 0 /\ Len(pending) = 0
  BY DEF Init, IsInjective
<1>2. /\ \A c \in Callers : disabling[c] = "no"
      /\ \A f \in Flows : flow[f] = "idle"
      /\ Len(sources) = 0 /\ pending = <<>> /\ datagram_enabled = TRUE
      /\ driver = "polled" /\ "driver" \in Callers
  BY DEF Init, Callers
<1> QED
  BY <1>1, <1>2, QueueAssumption DEF QueueInv, InUse, DisabledEmpty

\* register_producer with a full queue: the waker of f is there afterwards, because the
\* list has room for every flow.
LEMMA Registered ==
    ASSUME TypeOK, QueueInv, InUse, Full, NEW f \in Flows, register_producer(f)
    PROVE  /\ IsInjective(producer_waiters')
           /\ Len(producer_waiters') <= Len(pending)
           /\ f \in Range(producer_waiters')
           /\ \A x : x \in Range(producer_waiters) => x \in Range(producer_waiters')
<1>1. /\ producer_waiters \in Seq(Flows) /\ IsInjective(producer_waiters)
      /\ Len(producer_waiters) <= Len(pending)
  BY DEF TypeOK, QueueInv
<1>2. CASE f \in Range(producer_waiters)
  BY <1>1, <1>2 DEF register_producer
<1>3. CASE f \notin Range(producer_waiters)
  <2> DEFINE longer == Append(producer_waiters, f)
  <2>1. /\ longer \in Seq(Flows) /\ Len(longer) = Len(producer_waiters) + 1
        /\ IsInjective(longer) /\ f \in Range(longer)
        /\ \A x : x \in Range(producer_waiters) => x \in Range(longer)
    BY <1>1, <1>3, AppendDistinct
  <2>2. Len(longer) <= Cardinality(Flows)
    BY <2>1, DistinctFit, QueueAssumption, Zenon
  <2>3. Cardinality(Flows) \in Nat
    BY FS_CardinalityType, QueueAssumption
  <2>4. Len(producer_waiters) \in Nat
    BY <1>1
  <2>5. Len(longer) <= Capacity
    <3> HIDE DEF longer
    <3> QED
      BY <2>1, <2>2, <2>3, <2>4, QueueAssumption, WaitersAssumption, SMTT(30)
  <2>6. producer_waiters' = longer
    BY <1>3, <2>1, <2>4, <2>5, QueueAssumption, SMTT(30) DEF register_producer
  <2> QED
    BY <2>1, <2>5, <2>6 DEF Full
<1> QED
  BY <1>2, <1>3

\* A push into a queue that is in use and not full.
LEMMA Pushed ==
    ASSUME TypeOK, QueueInv, InUse, ~Full, NEW datagram, Push(datagram),
           UNCHANGED <<datagram_enabled, sources, producer_waiters, disabling>>,
           \A f \in Flows : flow'[f] = "waiting" => flow[f] = "waiting"
    PROVE  QueueInv'
<1>1. /\ Len(pending') = Len(pending) + 1 /\ Len(pending) \in Nat
      /\ Len(producer_waiters) \in Nat
  BY DEF Push, TypeOK
<1>2. InUse' /\ ~(\E c \in Callers : disabling'[c] \in {"pending", "sources", "flows", "done"})
  BY DEF InUse
<1>3. driver' # "parked"
  BY DEF Push, QueueInv, TypeOK
<1>4. /\ disabling'["driver"] # "no" => driver' \in {"disables", "stopped"}
      /\ driver' = "records" => Len(sending') = 1
  BY DEF Push, QueueInv
<1>5. Len(pending') <= Capacity
  BY <1>1, QueueAssumption DEF QueueInv, Full
<1>6. Len(producer_waiters) <= Len(pending')
  BY <1>1 DEF QueueInv
<1> QED
  BY <1>2, <1>3, <1>4, <1>5, <1>6 DEF QueueInv, DisabledEmpty

\* A flow that registers with a full queue and then waits, or does not.
LEMMA Waits ==
    ASSUME TypeOK, QueueInv, InUse, Full, NEW f \in Flows, register_producer(f),
           UNCHANGED <<datagram_enabled, pending, driver_waker, sources, driver, sending,
                       disabling>>,
           \A g \in Flows : flow'[g] = "waiting" => g = f \/ flow[g] = "waiting"
    PROVE  QueueInv'
<1>1. InUse' /\ ~(\E c \in Callers : disabling'[c] \in {"pending", "sources", "flows", "done"})
  BY DEF InUse
<1>2. /\ IsInjective(producer_waiters') /\ Len(producer_waiters') <= Len(pending)
      /\ \A g \in Flows : flow'[g] = "waiting" => g \in Range(producer_waiters')
  BY Registered DEF QueueInv
<1> QED
  BY <1>1, <1>2 DEF QueueInv, DisabledEmpty

\* A step of a flow that neither waits nor touches the queue.
LEMMA Leaves ==
    ASSUME QueueInv,
           UNCHANGED <<datagram_enabled, queueVars, sources, driver, sending, disabling>>,
           \A g \in Flows : flow'[g] = "waiting" => flow[g] = "waiting"
    PROVE  QueueInv'
  BY DEF QueueInv, DisabledEmpty, InUse, queueVars

\* The flow tasks keep the invariant.
LEMMA ProducerStep ==
    ASSUME TypeOK, QueueInv, NEW f \in Flows, Producer(f) \/ Event(f)
    PROVE  QueueInv'
<1>0. flow \in [Flows -> {"idle", "ready", "waiting", "gone"}] /\ (datagram_enabled => InUse)
  BY DEF TypeOK, QueueInv
<1>1. CASE SendSource(f)
  <2>1. CASE ~datagram_enabled
    BY <1>0, <1>1, <2>1, Leaves DEF SendSource, LeaveDatagram, driverVars
  <2>2. CASE datagram_enabled /\ Full
    BY <1>0, <1>1, <2>2, Waits DEF SendSource, driverVars
  <2>3. CASE datagram_enabled /\ ~Full
    <3>1. \A g \in Flows : flow'[g] = "waiting" => flow[g] = "waiting"
      BY <1>0, <1>1, <2>3, SMTT(30) DEF SendSource
    <3> QED
      BY <1>0, <1>1, <2>3, <3>1, Pushed DEF SendSource
  <2> QED
    BY <2>1, <2>2, <2>3
<1>2. CASE PlanRepairs(f)
  <2>1. CASE ~datagram_enabled
    BY <1>0, <1>2, <2>1, Leaves, SMTT(30) DEF PlanRepairs, LeaveDatagram, driverVars
  <2>2. CASE datagram_enabled /\ Full
    BY <1>0, <1>2, <2>2, Waits DEF PlanRepairs, driverVars
  <2>3. CASE datagram_enabled /\ ~Full
    BY <1>0, <1>2, <2>3, Leaves, SMTT(30) DEF PlanRepairs, driverVars, queueVars
  <2> QED
    BY <2>1, <2>2, <2>3
<1>3. CASE PushRepair(f)
  <2>1. CASE ~datagram_enabled
    BY <1>0, <1>3, <2>1, Leaves, SMTT(30) DEF PushRepair, LeaveDatagram, driverVars
  <2>2. CASE datagram_enabled /\ Full
    BY <1>0, <1>3, <2>2, Waits, SMTT(30) DEF PushRepair, driverVars
  <2>3. CASE datagram_enabled /\ ~Full
    BY <1>0, <1>3, <2>3, Pushed, SMTT(30) DEF PushRepair
  <2> QED
    BY <2>1, <2>2, <2>3
<1>4. CASE ReadWindow(f) \/ Finish(f) \/ Event(f)
  BY <1>0, <1>4, Leaves, SMTT(30) DEF ReadWindow, Finish, Event, symbolVars, driverVars
<1> QED
  BY <1>1, <1>2, <1>3, <1>4 DEF Producer

\* take_datagram: above half of the queue the waiters are few enough, below it one of
\* them leaves with the datagram.
LEMMA TakeStep ==
    ASSUME TypeOK, QueueInv, TakeDatagram
    PROVE  QueueInv'
<1>1. /\ pending \in Seq(Datagram) /\ producer_waiters \in Seq(Flows)
      /\ IsInjective(producer_waiters)
      /\ flow \in [Flows -> {"idle", "ready", "waiting", "gone"}]
  BY DEF TypeOK, QueueInv
<1>2. /\ Len(pending) \in Nat /\ Len(pending) > 0 /\ Len(pending') = Len(pending) - 1
  BY <1>1 DEF TakeDatagram
<1>3. /\ IsInjective(producer_waiters')
      /\ \A g \in Flows : flow'[g] = "waiting" =>
           flow[g] = "waiting" /\ (g \in Range(producer_waiters) => g \in Range(producer_waiters'))
      /\ InUse => Len(producer_waiters') <= Len(pending')
  <2>1. CASE WakesProducer /\ producer_waiters # <<>>
    <3>1. /\ Head(producer_waiters) \in Flows
          /\ Len(Tail(producer_waiters)) = Len(producer_waiters) - 1
          /\ IsInjective(Tail(producer_waiters))
          /\ \A x : x \in Range(producer_waiters) =>
               x = Head(producer_waiters) \/ x \in Range(Tail(producer_waiters))
      BY <1>1, <2>1, TailDistinct
    <3>2. /\ producer_waiters' = Tail(producer_waiters)
          /\ flow' = [flow EXCEPT ![Head(producer_waiters)] = Woken[Head(producer_waiters)]]
      BY <2>1 DEF TakeDatagram
    <3>3. Woken[Head(producer_waiters)] # "waiting"
      BY <1>1, <3>1 DEF Woken
    <3>4. \A g \in Flows : flow'[g] = "waiting" =>
             flow[g] = "waiting" /\ g # Head(producer_waiters)
      BY <1>1, <3>1, <3>2, <3>3
    <3>5. Len(producer_waiters) \in Nat
      BY <1>1
    <3>6. InUse => Len(producer_waiters') <= Len(pending')
      BY <1>2, <3>1, <3>2, <3>5 DEF QueueInv
    <3> QED
      BY <3>1, <3>2, <3>4, <3>6
  <2>2. CASE ~(WakesProducer /\ producer_waiters # <<>>)
    <3>1. UNCHANGED <<producer_waiters, flow>>
      BY <2>2 DEF TakeDatagram
    <3>2. Len(producer_waiters) \in Nat /\ Cardinality(Flows) \in Nat
      BY <1>1, FS_CardinalityType, QueueAssumption
    <3>3. CASE producer_waiters = <<>>
      BY <1>1, <1>2, <3>1, <3>3
    <3>4. CASE ~WakesProducer
      <4>1. Len(producer_waiters) <= Cardinality(Flows)
        BY <1>1, DistinctFit, QueueAssumption
      <4>2. Len(pending) - 1 >= (Capacity \div 2) + 1
        BY <1>2, <3>4, QueueAssumption DEF WakesProducer
      <4>3. Len(producer_waiters') <= Len(pending')
        BY <1>2, <3>1, <3>2, <4>1, <4>2, QueueAssumption, WaitersAssumption, SMTT(30)
      <4> QED
        BY <1>1, <3>1, <4>3
    <3> QED
      BY <2>2, <3>3, <3>4
  <2> QED
    BY <2>1, <2>2
<1>4. driver' = "sends" /\ driver = "polled" /\ pending # <<>>
      /\ UNCHANGED <<datagram_enabled, sources, disabling>>
  BY DEF TakeDatagram, symbolVars
<1>5. Len(pending') <= Capacity
  BY <1>2, QueueAssumption DEF QueueInv
<1>6. (InUse' <=> InUse) /\ DisabledEmpty'
  BY <1>4 DEF QueueInv, InUse, DisabledEmpty
<1> QED
  BY <1>3, <1>4, <1>5, <1>6 DEF QueueInv

\* disable_datagrams, step by step.
LEMMA DisableStep ==
    ASSUME TypeOK, QueueInv, NEW c \in Callers, DisableDatagrams(c)
    PROVE  QueueInv'
<1>0. /\ disabling \in [Callers -> {"no", "store", "pending", "sources", "flows", "done"}]
      /\ UNCHANGED <<producer_waiters, driver_waker, sending>>
  BY DEF TypeOK, DisableDatagrams
<1>1. CASE disabling[c] = "store"
  <2>1. /\ disabling' = [disabling EXCEPT ![c] = "pending"] /\ datagram_enabled' = FALSE
        /\ UNCHANGED <<pending, sources, flow, driver>>
    BY <1>1 DEF DisableDatagrams, Disable
  <2>2. /\ ~InUse'
        /\ \A d \in Callers : disabling'[d] \in {"sources", "flows", "done"} =>
             disabling[d] = disabling'[d]
    BY <1>0, <2>1 DEF InUse
  <2>3. disabling'["driver"] # "no" => driver' \in {"disables", "stopped"}
    BY <1>0, <1>1, <2>1 DEF QueueInv, Callers
  <2> QED
    BY <1>0, <2>1, <2>2, <2>3 DEF QueueInv, DisabledEmpty
<1>2. CASE disabling[c] = "pending"
  <2>1. /\ disabling' = [disabling EXCEPT ![c] = "sources"] /\ pending' = <<>>
        /\ UNCHANGED <<datagram_enabled, sources, flow, driver>>
    BY <1>2 DEF DisableDatagrams, Disable
  <2>2. /\ ~InUse /\ ~InUse'
        /\ \A d \in Callers : disabling'[d] = "done" => disabling[d] = "done"
    BY <1>0, <1>2, <2>1 DEF InUse
  <2>3. disabling'["driver"] # "no" => driver' \in {"disables", "stopped"}
    BY <1>0, <1>2, <2>1 DEF QueueInv, Callers
  <2>4. Len(pending') <= Capacity
    BY <2>1, QueueAssumption
  <2> QED
    BY <1>0, <2>1, <2>2, <2>3, <2>4 DEF QueueInv, DisabledEmpty
<1>3. CASE disabling[c] = "sources"
  <2>1. /\ disabling' = [disabling EXCEPT ![c] = "flows"] /\ sources' = <<>>
        /\ UNCHANGED <<datagram_enabled, pending, flow, driver>>
    BY <1>3 DEF DisableDatagrams, Disable
  <2>2. /\ ~InUse /\ ~InUse' /\ pending = <<>>
        /\ \A d \in Callers : disabling'[d] = "done" => disabling[d] = "done"
    BY <1>0, <1>3, <2>1 DEF InUse, QueueInv, DisabledEmpty
  <2>3. disabling'["driver"] # "no" => driver' \in {"disables", "stopped"}
    BY <1>0, <1>3, <2>1 DEF QueueInv, Callers
  <2>4. Len(sources') <= MaxSpan
    BY <2>1, QueueAssumption
  <2> QED
    BY <1>0, <2>1, <2>2, <2>3, <2>4 DEF QueueInv, DisabledEmpty
<1>4. CASE disabling[c] = "flows"
  <2>1. /\ disabling' = [disabling EXCEPT ![c] = "done"] /\ flow' = Woken
        /\ driver' = IF c = "driver" THEN "stopped" ELSE driver
        /\ UNCHANGED <<datagram_enabled, pending, sources>>
    BY <1>4 DEF DisableDatagrams, Disable
  <2>2. ~InUse /\ ~InUse' /\ pending = <<>>
    BY <1>0, <1>4, <2>1 DEF InUse, QueueInv, DisabledEmpty
  <2>3. \A f \in Flows : flow'[f] # "waiting"
    BY <2>1 DEF Woken
  <2>4. disabling'["driver"] # "no" => driver' \in {"disables", "stopped"}
    BY <1>0, <1>4, <2>1 DEF QueueInv, Callers
  <2> QED
    BY <1>0, <2>1, <2>2, <2>3, <2>4 DEF QueueInv, DisabledEmpty
<1> QED
  BY <1>1, <1>2, <1>3, <1>4 DEF DisableDatagrams, Disable

\* The other steps of the driver, and what happens to it.
LEMMA DriverStep ==
    ASSUME TypeOK, QueueInv,
           \/ DriverParks \/ Receive \/ RecordSent \/ Sent \/ SendRefused
           \/ ConnectionLost \/ Arrival \/ Negotiate
    PROVE  QueueInv'
<1>1. CASE DriverParks
  BY <1>1 DEF DriverParks, symbolVars, flowVars, QueueInv, InUse, DisabledEmpty
<1>2. CASE Receive
  BY <1>2 DEF Receive, symbolVars, flowVars, QueueInv, InUse, DisabledEmpty
<1>3. CASE RecordSent
  <2> DEFINE all == sources \o sending
  <2>1. /\ all \in Seq(0 .. SymbolModulus - 1)
        /\ Len(all) = Len(sources) + 1 /\ Len(sources) \in Nat /\ Len(sources) <= MaxSpan
    <3>1. /\ sources \in Seq(0 .. SymbolModulus - 1) /\ sending \in Seq(0 .. SymbolModulus - 1)
          /\ Len(sending) = 1 /\ Len(sources) <= MaxSpan
      BY <1>3 DEF RecordSent, TypeOK, QueueInv, Datagram
    <3> QED
      BY <3>1, ConcatTyped, Zenon
  <2>2. sources' = IF Len(all) > MaxSpan THEN Tail(all) ELSE all
    BY <1>3 DEF RecordSent
  <2> HIDE DEF all
  <2>3. all # <<>>
    BY <2>1
  <2>4. Len(sources') <= MaxSpan
    BY <2>1, <2>2, <2>3, TailTyped, QueueAssumption
  <2>5. /\ driver = "records" /\ driver' = "polled"
        /\ UNCHANGED <<datagram_enabled, queueVars, flow, disabling>>
    BY <1>3, SMTT(30) DEF RecordSent, flowVars
  <2> QED
    BY <2>4, <2>5 DEF QueueInv, InUse, DisabledEmpty, queueVars
<1>4. CASE Sent \/ ConnectionLost
  BY <1>4, SMTT(30) DEF Sent, ConnectionLost, DriverEnds, queueVars, symbolVars, flowVars, QueueInv, InUse,
              DisabledEmpty
<1>5. CASE Arrival
  BY <1>5 DEF Arrival, queueVars, symbolVars, flowVars, QueueInv, InUse, DisabledEmpty
<1>6. CASE SendRefused
  <2>1. /\ driver = "sends" /\ driver' \in {"closed", "disables"}
        /\ \/ disabling' = disabling
           \/ driver' = "disables" /\ disabling' = [disabling EXCEPT !["driver"] = "store"]
        /\ UNCHANGED <<datagram_enabled, queueVars, sources, flow>>
    BY <1>6 DEF SendRefused, symbolVars, flowVars
  <2>2. disabling["driver"] = "no"
    BY <2>1 DEF QueueInv
  <2>3. /\ InUse' <=> InUse
        /\ \A c \in Callers : disabling'[c] = disabling[c] \/ disabling'[c] = "store"
    BY <2>1, <2>2, Zenon DEF TypeOK, InUse
  <2>4. disabling'["driver"] # "no" => driver' \in {"disables", "stopped"}
    BY <2>1, <2>2
  <2> QED
    BY <2>1, <2>3, <2>4 DEF QueueInv, DisabledEmpty, queueVars
<1>7. CASE Negotiate
  <2>1. /\ disabling' = [disabling EXCEPT !["negotiation"] = "store"]
        /\ disabling["negotiation"] = "no"
        /\ UNCHANGED <<datagram_enabled, queueVars, sources, flow, driver, sending>>
    BY <1>7 DEF Negotiate, symbolVars, flowVars, driverVars
  <2>2. /\ InUse' <=> InUse
        /\ disabling'["driver"] = disabling["driver"]
        /\ \A c \in Callers : disabling'[c] = disabling[c] \/ disabling'[c] = "store"
    BY <2>1 DEF TypeOK, InUse
  <2> QED
    BY <2>1, <2>2 DEF QueueInv, DisabledEmpty, queueVars
<1> QED
  BY <1>1, <1>2, <1>3, <1>4, <1>5, <1>6, <1>7, SMTT(30)

\* Every step keeps the invariant.
LEMMA QueueStep == TypeOK /\ QueueInv /\ [Next]_vars => QueueInv'
<1> SUFFICES ASSUME TypeOK, QueueInv, [Next]_vars PROVE QueueInv'
  OBVIOUS
<1>1. CASE UNCHANGED vars
  BY <1>1 DEF vars, queueVars, symbolVars, flowVars, driverVars, QueueInv, InUse,
              DisabledEmpty
<1>2. "driver" \in Callers /\ "negotiation" \in Callers
  BY DEF Callers
<1> QED
  BY <1>1, <1>2, ProducerStep, TakeStep, DisableStep, DriverStep, SMTT(30) DEF Next, Driver

\* It holds in every state.
LEMMA QueueInvariant == Spec => [](TypeOK /\ QueueInv)
<1>1. Init => TypeOK /\ RepairsLeft /\ QueueInv
  BY InitTyped, InitQueue DEF Init, RepairsLeft, NoRepairs
<1> QED
  BY <1>1, StepTyped, StepLeft, QueueStep, PTL DEF Spec

\* The limits of the queue, of its waiters and of the repair window hold for any number
\* of flows that the waiters are dimensioned for (register_producer, record_sent).
THEOREM AlwaysBounded == Spec => []Bounded
<1>1. TypeOK /\ QueueInv => Bounded
  <2> SUFFICES ASSUME TypeOK, QueueInv PROVE Bounded
    OBVIOUS
  <2>1. Len(producer_waiters) <= Cardinality(Flows) /\ Len(producer_waiters) \in Nat
    BY DistinctFit, QueueAssumption DEF TypeOK, QueueInv
  <2>2. Cardinality(Flows) \in Nat
    BY FS_CardinalityType, QueueAssumption
  <2>3. Len(producer_waiters) <= Capacity
    BY <2>1, <2>2, QueueAssumption, WaitersAssumption
  <2> QED
    BY <2>3 DEF Bounded, QueueInv
<1> QED
  BY <1>1, QueueInvariant, PTL

\* No flow that waits for room is forgotten, although a departure wakes at most one flow
\* and none above half of the queue (take_datagram, register_producer and
\* disable_datagrams).
THEOREM NeverLosesWakeup == Spec => []NoLostWakeup
<1>1. TypeOK /\ QueueInv => NoLostWakeup
  <2> SUFFICES ASSUME TypeOK, QueueInv, NEW f \in Flows, flow[f] = "waiting",
                      ~(\E c \in Callers : disabling[c] \in {"pending", "sources", "flows"})
               PROVE  f \in Range(producer_waiters) /\ pending # <<>> /\ driver # "parked"
    BY DEF NoLostWakeup
  <2>1. InUse
    BY DEF InUse, TypeOK, QueueInv
  <2>2. f \in Range(producer_waiters) /\ Len(producer_waiters) <= Len(pending)
    BY <2>1 DEF QueueInv
  <2>3. Len(producer_waiters) > 0
    BY <2>2 DEF Range, TypeOK
  <2>4. pending # <<>>
    BY <2>2, <2>3 DEF TypeOK
  <2> QED
    BY <2>2, <2>4 DEF QueueInv
<1> QED
  BY <1>1, QueueInvariant, PTL

\* Nothing joins the queue after disable_datagrams cleared it, whichever flow was in the
\* middle of a push.
THEOREM StaysDisabled == Spec => []DisabledEmpty
<1>1. QueueInv => DisabledEmpty
  BY DEF QueueInv
<1> QED
  BY <1>1, QueueInvariant, PTL
-----------------------------------------------------------------------------
(***************************************************************************)
(* The symbols of a repair.  Every id from next_symbol back to the newest  *)
(* of the sources is in the queue or in the driver's hands, in order: with *)
(* ids[i] the id that is due after the first i datagrams of the queue,     *)
(* each SOURCE among them takes one and a REPAIR none.                     *)
(***************************************************************************)
Successor(id) == (id + 1) % SymbolModulus

Run(ids) == \A k \in DOMAIN ids : ids[k] = (ids[1] + k - 1) % SymbolModulus

Numbered(ids) ==
    /\ ids[Len(pending)] = next_symbol
    /\ \A i \in 1 .. Len(pending) :
           IF Len(pending[i]) = 1
           THEN pending[i][1] = ids[i - 1] /\ ids[i] = Successor(ids[i - 1])
           ELSE ids[i] = ids[i - 1]
    /\ Len(sending) = 1 => ids[0] = Successor(sending[1])
    /\ Len(sending) # 1 /\ sources # <<>> => ids[0] = Successor(sources[Len(sources)])

Follows == Len(sending) = 1 /\ sources # <<>> => sending[1] = Successor(sources[Len(sources)])

InOrder == \E ids \in [0 .. Len(pending) -> 0 .. SymbolModulus - 1] : Numbered(ids)

Sends == driver \notin {"disables", "stopped", "closed"}

WindowInv ==
    /\ Run(sources) /\ RepairWindow
    /\ \A f \in Flows : repairs[f].window # <<>> =>
           Run(repairs[f].window) /\ Len(repairs[f].window) > 1
    /\ sending # <<>> => driver \in {"sends", "records"}
    /\ datagram_enabled \/ driver = "records" => Follows
    /\ datagram_enabled /\ Sends => InOrder
-----------------------------------------------------------------------------
\* Quotient and remainder by the number of symbol ids.
LEMMA Divided ==
    ASSUME NEW x \in Nat
    PROVE  \E q \in Nat, r \in 0 .. SymbolModulus - 1 : x = SymbolModulus * q + r
<1>1. /\ x % SymbolModulus \in 0 .. SymbolModulus - 1 /\ x \div SymbolModulus \in Nat
      /\ x = SymbolModulus * (x \div SymbolModulus) + (x % SymbolModulus)
  BY QueueAssumption, Z3
<1> QED
  BY <1>1

\* The remainder is the only one.
LEMMA RemainderIs ==
    ASSUME NEW x \in Nat, NEW q \in Int, NEW r \in 0 .. SymbolModulus - 1,
           x = SymbolModulus * q + r
    PROVE  x % SymbolModulus = r
  BY QueueAssumption, Z3

\* Ids may wrap at every step or at the end (next_symbol.fetch_add wraps, the decoder
\* adds to the first id of a repair).
LEMMA WrapOnce ==
    ASSUME NEW x \in Nat, NEW k \in Nat
    PROVE  ((x % SymbolModulus) + k) % SymbolModulus = (x + k) % SymbolModulus
<1>1. PICK q \in Nat, r \in 0 .. SymbolModulus - 1 : x = SymbolModulus * q + r
  BY Divided
<1>2. x % SymbolModulus = r
  BY <1>1, RemainderIs
<1>3. r + k \in Nat /\ x + k \in Nat
  BY QueueAssumption
<1>4. PICK p \in Nat, s \in 0 .. SymbolModulus - 1 : r + k = SymbolModulus * p + s
  BY <1>3, Divided
<1>5. SymbolModulus * (q + p) = SymbolModulus * q + SymbolModulus * p
  BY QueueAssumption
<1>6. q + p \in Int /\ SymbolModulus * q \in Int /\ SymbolModulus * p \in Int
  BY QueueAssumption
<1>7. x + k = SymbolModulus * (q + p) + s
  BY <1>1, <1>4, <1>5, <1>6
<1>8. (x + k) % SymbolModulus = s
  BY <1>3, <1>6, <1>7, RemainderIs
<1>9. (r + k) % SymbolModulus = s
  BY <1>3, <1>4, RemainderIs
<1> QED
  BY <1>2, <1>8, <1>9

\* The ids of a datagram are ids, and sequences of them have the ones of their parts.
LEMMA IdsTyped ==
    ASSUME NEW s \in Datagram, NEW k \in 1 .. Len(s)
    PROVE  s[k] \in 0 .. SymbolModulus - 1 /\ s[k] \in Nat
<1>1. ASSUME NEW S, NEW t \in Seq(S), NEW j \in 1 .. Len(t) PROVE t[j] \in S
  BY <1>1
<1>2. s[k] \in 0 .. SymbolModulus - 1
  BY <1>1, Zenon DEF Datagram
<1> QED
  BY <1>2, QueueAssumption

\* One more element behind a sequence.
LEMMA OneMore ==
    ASSUME NEW S, NEW s \in Seq(S), NEW t \in Seq(S), Len(t) = 1
    PROVE  /\ Len(s) \in Nat /\ DOMAIN s = 1 .. Len(s)
           /\ s \o t \in Seq(S) /\ Len(s \o t) = Len(s) + 1
           /\ DOMAIN (s \o t) = 1 .. Len(s) + 1
           /\ \A k \in 1 .. Len(s) : (s \o t)[k] = s[k]
           /\ (s \o t)[Len(s) + 1] = t[1]
<1>1. Len(s) \in Nat /\ DOMAIN s = 1 .. Len(s)
  OBVIOUS
<1>2. s \o t \in Seq(S) /\ Len(s \o t) = Len(s) + 1
  BY ConcatTyped, Zenon
<1>3. DOMAIN (s \o t) = 1 .. Len(s \o t)
  BY <1>2
<1>4. \A k \in 1 .. Len(s) : (s \o t)[k] = s[k]
  OBVIOUS
<1>5. (s \o t)[Len(s) + 1] = t[1]
  <2> DEFINE st == s \o t
  <2>1. \A i \in 1 .. Len(s) + Len(t) : st[i] = IF i <= Len(s) THEN s[i] ELSE t[i - Len(s)]
    BY ConcatProperties, Zenon
  <2> HIDE DEF st
  <2>2. st[Len(s) + 1] = t[1]
    BY <1>1, <2>1
  <2> QED
    BY <2>2 DEF st
<1> QED
  BY <1>1, <1>2, <1>3, <1>4, <1>5

\* Part of a run is a run (the window of send_tail_repairs, the sources record_sent
\* keeps).
LEMMA PartOfRun ==
    ASSUME NEW s \in Datagram, Run(s), NEW m \in Nat, NEW part \in Datagram,
           Len(part) + m <= Len(s), \A k \in 1 .. Len(part) : part[k] = s[m + k]
    PROVE  Run(part)
<1> SUFFICES ASSUME NEW k \in 1 .. Len(part)
             PROVE  part[k] = (part[1] + k - 1) % SymbolModulus
  BY DEF Run, Datagram
<1>1. /\ Len(part) \in Nat /\ Len(s) \in Nat /\ DOMAIN s = 1 .. Len(s)
      /\ k \in Nat /\ k >= 1
      /\ 1 \in 1 .. Len(part) /\ 1 \in 1 .. Len(s)
      /\ m + 1 \in 1 .. Len(s) /\ m + k \in 1 .. Len(s)
  BY DEF Datagram
<1>a. s[1] \in Nat /\ part[1] \in Nat
  BY <1>1, IdsTyped
<1>2. part[1] = s[m + 1] /\ part[k] = s[m + k]
  BY <1>1
<1>3. s[m + 1] = (s[1] + m) % SymbolModulus /\ s[m + k] = (s[1] + m + (k - 1)) % SymbolModulus
  <2>1. s[m + 1] = (s[1] + (m + 1) - 1) % SymbolModulus
        /\ s[m + k] = (s[1] + (m + k) - 1) % SymbolModulus
    BY <1>1, Zenon DEF Run
  <2>2. s[1] + (m + 1) - 1 = s[1] + m /\ s[1] + (m + k) - 1 = s[1] + m + (k - 1)
    BY <1>1, <1>a
  <2> QED
    BY <2>1, <2>2
<1>4. (part[1] + (k - 1)) % SymbolModulus = (s[1] + m + (k - 1)) % SymbolModulus
  <2>1. s[1] + m \in Nat /\ k - 1 \in Nat
    BY <1>1, <1>a, SMTT(30)
  <2>2. (((s[1] + m) % SymbolModulus) + (k - 1)) % SymbolModulus
           = (s[1] + m + (k - 1)) % SymbolModulus
    BY <2>1, WrapOnce, Zenon
  <2> QED
    BY <1>2, <1>3, <2>2
<1>5. part[1] + k - 1 = part[1] + (k - 1)
  BY <1>1, <1>a
<1> QED
  BY <1>2, <1>3, <1>4, <1>5

\* A run goes on with the successor of its last id.
LEMMA LongerRun ==
    ASSUME NEW s \in Datagram, Run(s), NEW one \in Datagram, Len(one) = 1,
           s # <<>> => one[1] = Successor(s[Len(s)])
    PROVE  Run(s \o one)
<1>0. one[1] \in 0 .. SymbolModulus - 1
  BY IdsTyped
<1>1. /\ Len(s) \in Nat /\ DOMAIN s = 1 .. Len(s)
      /\ Len(s \o one) = Len(s) + 1 /\ DOMAIN (s \o one) = 1 .. Len(s) + 1
      /\ \A k \in 1 .. Len(s) : (s \o one)[k] = s[k]
      /\ (s \o one)[Len(s) + 1] = one[1]
  <2> DEFINE Id == 0 .. SymbolModulus - 1
  <2>2. s \in Seq(Id) /\ one \in Seq(Id)
    BY DEF Datagram
  <2> HIDE DEF Id
  <2> QED
    BY <2>2, OneMore
<1>2. CASE s = <<>>
  <2>1. Len(s) = 0 /\ \A k \in 1 .. 1 : k = 1
    BY <1>2
  <2>2. one[1] = (one[1] + 1 - 1) % SymbolModulus
    BY <1>0, QueueAssumption
  <2> QED
    BY <1>1, <2>1, <2>2 DEF Run
<1>3. CASE s # <<>>
  <2>1. 1 \in 1 .. Len(s) /\ Len(s) \in 1 .. Len(s) /\ s[1] \in Nat /\ (s \o one)[1] = s[1]
    BY <1>1, <1>3, QueueAssumption DEF Datagram
  <2>2. s[Len(s)] = (s[1] + (Len(s) - 1)) % SymbolModulus
    <3>1. s[1] + Len(s) - 1 = s[1] + (Len(s) - 1)
      BY <1>1, <2>1
    <3> QED
      BY <1>1, <2>1, <3>1 DEF Run
  <2>3. s[1] + (Len(s) - 1) \in Nat /\ s[1] + (Len(s) - 1) + 1 = s[1] + (Len(s) + 1) - 1
    BY <1>1, <2>1
  <2>4. one[1] = (s[1] + (Len(s) + 1) - 1) % SymbolModulus
    BY <1>3, <2>2, <2>3, WrapOnce DEF Successor
  <2>5. ASSUME NEW k \in 1 .. Len(s) + 1
        PROVE  (s \o one)[k] = (s[1] + k - 1) % SymbolModulus
    <3>1. CASE k \in 1 .. Len(s)
      BY <1>1, <3>1 DEF Run
    <3>2. CASE k = Len(s) + 1
      BY <1>1, <2>4, <3>2
    <3> QED
      BY <1>1, <3>1, <3>2
  <2> QED
    BY <1>1, <2>1, <2>5 DEF Run
<1> QED
  BY <1>2, <1>3
-----------------------------------------------------------------------------
\* What WindowInv needs of the state: its types, and what keeps the bounds.
Typed ==
    /\ pending \in Seq(Datagram) /\ sources \in Datagram /\ sending \in Datagram
    /\ next_symbol \in 0 .. SymbolModulus - 1
    /\ repairs \in [Flows -> [left : 0 .. MaxRepairs, window : Datagram]]

\* A push keeps the line: a SOURCE takes the id that is due, a REPAIR none (send_source
\* and send_tail_repairs, both under the lock of the queue).
LEMMA PushInOrder ==
    ASSUME Typed, InOrder, NEW datagram \in Datagram, pending' = Append(pending, datagram),
           UNCHANGED <<sending, sources>>,
           \/ datagram = <<next_symbol>> /\ next_symbol' = NextSymbol
           \/ Len(datagram) > 1 /\ UNCHANGED next_symbol
    PROVE  InOrder'
<1>1. PICK ids \in [0 .. Len(pending) -> 0 .. SymbolModulus - 1] : Numbered(ids)
  BY DEF InOrder
<1> DEFINE n == Len(pending)
<1>0. PICK longer : longer = [i \in 0 .. n + 1 |-> IF i <= n THEN ids[i] ELSE next_symbol']
  OBVIOUS
<1>2. /\ n \in Nat /\ Len(pending') = n + 1
      /\ pending'[n + 1] = datagram /\ \A i \in 1 .. n : pending'[i] = pending[i]
  BY DEF Typed
<1>3. next_symbol' \in 0 .. SymbolModulus - 1
  BY QueueAssumption DEF Typed, NextSymbol
<1>4. longer \in [0 .. Len(pending') -> 0 .. SymbolModulus - 1]
  BY <1>0, <1>1, <1>2, <1>3
<1>5. /\ longer[n + 1] = next_symbol' /\ longer[n] = next_symbol /\ longer[0] = ids[0]
      /\ \A i \in 0 .. n : longer[i] = ids[i]
  BY <1>0, <1>1, <1>2, SMTT(30) DEF Numbered
<1>6. ASSUME NEW i \in 1 .. n + 1
      PROVE  IF Len(pending'[i]) = 1
             THEN pending'[i][1] = longer[i - 1] /\ longer[i] = Successor(longer[i - 1])
             ELSE longer[i] = longer[i - 1]
  <2>1. CASE i \in 1 .. n
    <3>1. longer[i] = ids[i] /\ longer[i - 1] = ids[i - 1] /\ pending'[i] = pending[i]
      BY <1>2, <1>5, <2>1
    <3> QED
      BY <1>1, <2>1, <3>1 DEF Numbered
  <2>2. CASE i = n + 1
    <3>1. CASE datagram = <<next_symbol>> /\ next_symbol' = NextSymbol
      <4>1. Len(datagram) = 1 /\ datagram[1] = next_symbol
        BY <3>1
      <4> QED
        BY <1>2, <1>5, <2>2, <3>1, <4>1 DEF Successor, NextSymbol
    <3>2. CASE Len(datagram) > 1 /\ UNCHANGED next_symbol
      <4>1. Len(datagram) # 1 /\ (n + 1) - 1 = n
        BY <1>2, <3>2, SMTT(30) DEF Datagram
      <4> QED
        BY <1>2, <1>5, <2>2, <3>2, <4>1, SMTT(30)
    <3> QED
      BY <3>1, <3>2
  <2> QED
    BY <1>2, <2>1, <2>2
<1>7. Numbered(longer)'
  BY <1>1, <1>2, <1>5, <1>6 DEF Numbered, Successor
<1> QED
  BY <1>4, <1>7, Zenon DEF InOrder

\* take_datagram moves the head of the line into the driver's hands.
LEMMA TakeInOrder ==
    ASSUME Typed, InOrder, pending # <<>>, sending = <<>>, sending' = Head(pending),
           pending' = Tail(pending), UNCHANGED <<sources, next_symbol>>
    PROVE  InOrder' /\ Follows'
<1>1. PICK ids \in [0 .. Len(pending) -> 0 .. SymbolModulus - 1] : Numbered(ids)
  BY DEF InOrder
<1> DEFINE n == Len(pending)
<1>0. PICK shifted : shifted = [i \in 0 .. n - 1 |-> ids[i + 1]]
  BY Zenon
<1>2. /\ n \in Nat /\ n > 0 /\ Len(pending') = n - 1 /\ sending' = pending[1]
      /\ \A i \in 1 .. n - 1 : pending'[i] = pending[i + 1]
  BY DEF Typed
<1>3. Len(sending) # 1
  OBVIOUS
<1>4. shifted \in [0 .. Len(pending') -> 0 .. SymbolModulus - 1]
  BY <1>0, <1>1, <1>2, SMTT(30)
<1>5. /\ shifted[n - 1] = next_symbol
      /\ \A i \in 0 .. n - 1 : shifted[i] = ids[i + 1]
  BY <1>0, <1>1, <1>2, SMTT(30) DEF Numbered
<1>6. ASSUME NEW i \in 1 .. n - 1
      PROVE  IF Len(pending'[i]) = 1
             THEN pending'[i][1] = shifted[i - 1] /\ shifted[i] = Successor(shifted[i - 1])
             ELSE shifted[i] = shifted[i - 1]
  <2>1. /\ shifted[i] = ids[i + 1] /\ shifted[i - 1] = ids[(i + 1) - 1]
        /\ pending'[i] = pending[i + 1] /\ i + 1 \in 1 .. n
    BY <1>2, <1>5
  <2> QED
    BY <1>1, <2>1 DEF Numbered
<1>7. /\ Len(sending') = 1 => sending'[1] = ids[0] /\ shifted[0] = Successor(sending'[1])
      /\ Len(sending') # 1 => shifted[0] = ids[0]
      /\ sources # <<>> => ids[0] = Successor(sources[Len(sources)])
  <2>1. shifted[0] = ids[1] /\ 1 \in 1 .. n /\ 1 - 1 = 0
    BY <1>2, <1>5, SMTT(30)
  <2> QED
    BY <1>1, <1>2, <1>3, <2>1 DEF Numbered
<1>8. Numbered(shifted)'
  BY <1>2, <1>5, <1>6, <1>7 DEF Numbered, Successor
<1>9. Follows'
  BY <1>7 DEF Follows, Successor
<1> QED
  BY <1>4, <1>8, <1>9, Zenon DEF InOrder

\* The initial state satisfies it.
LEMMA InitWindow == Init => WindowInv
<1> SUFFICES ASSUME Init PROVE WindowInv
  OBVIOUS
<1>1. Run(<<>>) /\ Len(<<>>) = 0
  BY DEF Run
<1>2. pending = <<>> /\ sources = <<>> /\ sending = <<>> /\ next_symbol = 0
  BY DEF Init, NoDatagram
<1>3. \A f \in Flows : repairs[f].window = <<>>
  BY DEF Init, NoRepairs
<1>4. InOrder
  <2>1. PICK ids : ids = [i \in 0 .. 0 |-> 0]
    BY Zenon
  <2>2. ids \in [0 .. Len(pending) -> 0 .. SymbolModulus - 1]
    BY <1>1, <1>2, <2>1, QueueAssumption
  <2>3. Numbered(ids)
    BY <1>1, <1>2, <2>1, SMTT(30) DEF Numbered
  <2> QED
    BY <2>2, <2>3 DEF InOrder
<1> QED
  BY <1>1, <1>2, <1>3, <1>4 DEF WindowInv, RepairWindow, Follows

\* A step that moves no datagram.
LEMMA WindowStays ==
    ASSUME WindowInv, UNCHANGED <<pending, sources, sending, next_symbol>>,
           \A f \in Flows : repairs'[f].window # <<>> => repairs'[f].window = repairs[f].window,
           datagram_enabled' => datagram_enabled,
           sending # <<>> => driver' \in {"sends", "records"},
           driver' = "records" => datagram_enabled \/ driver = "records",
           datagram_enabled' /\ Sends' => Sends
    PROVE  WindowInv'
<1>1. (InOrder' <=> InOrder) /\ (Follows' <=> Follows) /\ (RepairWindow' <=> RepairWindow)
  BY DEF InOrder, Numbered, Successor, Follows, RepairWindow
<1>2. Run(sources)' <=> Run(sources)
  BY SMTT(30) DEF Run
<1>3. \A f \in Flows : repairs'[f].window # <<>> =>
         Run(repairs'[f].window) /\ Len(repairs'[f].window) > 1
  BY DEF WindowInv
<1> QED
  BY <1>1, <1>2, <1>3, SMTT(30) DEF WindowInv, Run

\* A step that drops what the driver holds, as it ends.
LEMMA WindowEnds ==
    ASSUME WindowInv, UNCHANGED <<pending, sources, next_symbol, repairs>>,
           sending' = <<>>, ~Sends', driver' # "records"
    PROVE  WindowInv'
<1>1. Follows' /\ (RepairWindow' <=> RepairWindow)
  BY DEF Follows, RepairWindow
<1>2. Run(sources)' <=> Run(sources)
  BY SMTT(30) DEF Run
<1> QED
  BY <1>1, <1>2 DEF WindowInv, Run

\* A push of a source with the next id, or of a repair.
LEMMA WindowPush ==
    ASSUME Typed, WindowInv, NEW datagram \in Datagram, Push(datagram), Run(datagram),
           UNCHANGED <<datagram_enabled, sources>>,
           \/ datagram = <<next_symbol>> /\ next_symbol' = NextSymbol
           \/ Len(datagram) > 1 /\ UNCHANGED next_symbol,
           \A f \in Flows : repairs'[f].window # <<>> => repairs'[f].window = repairs[f].window
    PROVE  WindowInv'
<1>1. pending' = Append(pending, datagram) /\ sending' = sending
  BY DEF Push
<1>2. datagram_enabled' /\ Sends' => InOrder'
  <2> SUFFICES ASSUME datagram_enabled', Sends' PROVE InOrder'
    BY SMTT(30)
  <2>1. InOrder
    BY DEF WindowInv, Push, Sends
  <2> QED
    BY <1>1, <2>1, PushInOrder, SMTT(30)
<1>3. RepairWindow'
  <2> SUFFICES ASSUME NEW i \in DOMAIN pending' PROVE Run(pending'[i])
    BY DEF RepairWindow, Run
  <2>1. /\ Len(pending) \in Nat /\ DOMAIN pending = 1 .. Len(pending)
        /\ DOMAIN pending' = 1 .. Len(pending) + 1
        /\ pending'[Len(pending) + 1] = datagram
        /\ \A j \in 1 .. Len(pending) : pending'[j] = pending[j]
    BY <1>1, SMTT(30) DEF Typed
  <2>2. CASE i \in 1 .. Len(pending)
    BY <2>1, <2>2, SMTT(30) DEF WindowInv, RepairWindow, Run
  <2>3. CASE i = Len(pending) + 1
    BY <2>1, <2>3, SMTT(30)
  <2> QED
    BY <2>1, <2>2, <2>3, SMTT(30)
<1>4. Run(sources)' /\ (Follows' <=> Follows)
  BY <1>1, SMTT(30) DEF WindowInv, Run, Follows, Successor
<1>5. \A f \in Flows : repairs'[f].window # <<>> =>
         Run(repairs'[f].window) /\ Len(repairs'[f].window) > 1
  BY DEF WindowInv
<1>6. /\ sending' # <<>> => driver' \in {"sends", "records"}
      /\ datagram_enabled' \/ driver' = "records" => Follows'
  BY <1>1, <1>4 DEF WindowInv, Push
<1> QED
  BY <1>2, <1>3, <1>4, <1>5, <1>6, SMTT(30) DEF WindowInv, Run

\* The steps of a flow task.
LEMMA ProducerWindow ==
    ASSUME TypeOK, QueueInv, WindowInv, NEW f \in Flows, Producer(f) \/ Event(f)
    PROVE  WindowInv'
<1>0. Typed
  BY DEF TypeOK, Typed
<1>1. CASE SendSource(f)
  <2>1. UNCHANGED <<datagram_enabled, sources, repairs>>
    BY <1>1, SMTT(30) DEF SendSource
  <2>2. CASE UNCHANGED <<pending, sending, next_symbol, driver>>
    BY <2>1, <2>2, WindowStays, SMTT(30) DEF WindowInv, Sends
  <2>3. CASE Push(<<next_symbol>>) /\ next_symbol' = NextSymbol
    <3>1. <<next_symbol>> \in Datagram /\ Run(<<next_symbol>>)
      <4>1. next_symbol \in 0 .. SymbolModulus - 1
        BY DEF TypeOK
      <4>2. next_symbol = (next_symbol + 1 - 1) % SymbolModulus
        BY <4>1, QueueAssumption, SMTT(20)
      <4> QED
        BY <4>1, <4>2 DEF Datagram, Run
    <3> QED
      BY <1>0, <2>1, <2>3, <3>1, WindowPush
  <2> QED
    BY <1>1, <2>2, <2>3, SMTT(30) DEF SendSource, LeaveDatagram, driverVars, queueVars
<1>2. CASE PlanRepairs(f)
  <2>1. /\ UNCHANGED <<datagram_enabled, pending, sources, sending, next_symbol, driver>>
        /\ \/ UNCHANGED repairs
           \/ \E n \in 1 .. MaxRepairs :
                repairs' = [repairs EXCEPT ![f] = [left |-> n, window |-> <<>>]]
    BY <1>2, SMTT(30) DEF PlanRepairs, LeaveDatagram, driverVars, queueVars
  <2>2. \A g \in Flows : repairs'[g].window # <<>> => repairs'[g].window = repairs[g].window
    BY <1>0, <2>1, SMTT(30) DEF Typed
  <2> QED
    BY <2>1, <2>2, WindowStays, SMTT(30) DEF WindowInv, Sends
<1>3. CASE ReadWindow(f)
  <2> DEFINE span == IF Len(sources) < MaxSpan THEN Len(sources) ELSE MaxSpan
             window == SubSeq(sources, Len(sources) - span + 1, Len(sources))
  <2>1. /\ UNCHANGED <<datagram_enabled, pending, sources, sending, next_symbol, driver>>
        /\ repairs' = [repairs EXCEPT ![f] =
                         IF Len(sources) < 2 THEN NoRepairs
                         ELSE [left |-> repairs[f].left, window |-> window]]
    BY <1>3, Zenon DEF ReadWindow, queueVars, symbolVars, driverVars
  <2>2. Len(sources) \in Nat /\ Len(sources) <= MaxSpan /\ sources \in Seq(0 .. SymbolModulus - 1)
    BY <1>0 DEF Typed, Datagram, QueueInv
  <2>3. span = Len(sources) /\ Len(sources) - span + 1 = 1
    BY <2>2, QueueAssumption
  <2>4. window = sources
    BY <2>2, <2>3, SMTT(30)
  <2> HIDE DEF window, span
  <2>5. \A g \in Flows : repairs'[g].window # <<>> =>
          Run(repairs'[g].window) /\ Len(repairs'[g].window) > 1
    <3> SUFFICES ASSUME NEW g \in Flows, repairs'[g].window # <<>>
                 PROVE  Run(repairs'[g].window) /\ Len(repairs'[g].window) > 1
      BY SMTT(30)
    <3>1. CASE g # f
      BY <1>0, <2>1, <3>1, SMTT(30) DEF WindowInv, Typed
    <3>2. CASE g = f
      BY <1>0, <2>1, <2>2, <2>4, <3>2, SMTT(30) DEF WindowInv, Typed, NoRepairs
    <3> QED
      BY <3>1, <3>2, SMTT(30)
  <2>6. (InOrder' <=> InOrder) /\ (Follows' <=> Follows) /\ (RepairWindow' <=> RepairWindow)
    BY <2>1, SMTT(20) DEF InOrder, Numbered, Successor, Follows, RepairWindow
  <2> QED
    BY <2>1, <2>5, <2>6, SMTT(20) DEF WindowInv, Run, Sends
<1>4. CASE PushRepair(f)
  <2>1. UNCHANGED <<datagram_enabled, sources, next_symbol>> /\ repairs[f].window # <<>>
    BY <1>4, SMTT(30) DEF PushRepair, LeaveDatagram
  <2>2. \A g \in Flows : repairs'[g].window # <<>> => repairs'[g].window = repairs[g].window
    BY <1>0, <1>4, SMTT(20) DEF PushRepair, Typed, NoRepairs, OneLess
  <2>3. CASE UNCHANGED <<pending, sending, driver>>
    BY <2>1, <2>2, <2>3, WindowStays, ZenonT(30) DEF WindowInv, Sends
  <2>4. CASE Push(repairs[f].window)
    <3>1. /\ repairs[f].window \in Datagram /\ Run(repairs[f].window)
          /\ Len(repairs[f].window) > 1
      BY <1>0, <2>1, SMTT(20) DEF Typed, WindowInv
    <3> QED
      BY <1>0, <2>1, <2>2, <2>4, <3>1, WindowPush, Zenon
  <2> QED
    BY <1>4, <2>3, <2>4, ZenonT(30) DEF PushRepair, LeaveDatagram, driverVars, queueVars
<1>5. CASE Finish(f) \/ Event(f)
  <2>1. UNCHANGED <<datagram_enabled, pending, sources, sending, next_symbol, repairs, driver>>
    BY <1>5, Zenon DEF Finish, Event, queueVars, symbolVars, driverVars
  <2>2. sending # <<>> => driver \in {"sends", "records"}
    BY Zenon DEF WindowInv
  <2> QED
    BY <2>1, <2>2, WindowStays, ZenonT(30) DEF Sends
<1> QED
  BY <1>1, <1>2, <1>3, <1>4, <1>5, SMTT(30) DEF Producer

\* take_datagram.
LEMMA TakeWindow ==
    ASSUME TypeOK, QueueInv, WindowInv, TakeDatagram
    PROVE  WindowInv'
<1>0. Typed
  BY DEF TypeOK, Typed
<1>1. /\ driver = "polled" /\ driver' = "sends" /\ pending # <<>>
      /\ sending' = Head(pending) /\ pending' = Tail(pending)
      /\ UNCHANGED <<datagram_enabled, sources, next_symbol, repairs>>
  BY DEF TakeDatagram, symbolVars
<1>2. sending = <<>>
  BY <1>1 DEF WindowInv
<1>3. datagram_enabled => InOrder' /\ Follows'
  BY <1>0, <1>1, <1>2, TakeInOrder, SMTT(30) DEF WindowInv, Sends
<1>4. RepairWindow'
  <2> SUFFICES ASSUME NEW i \in DOMAIN pending' PROVE Run(pending'[i])
    BY DEF RepairWindow, Run
  <2>1. i + 1 \in DOMAIN pending /\ pending'[i] = pending[i + 1]
    BY <1>0, <1>1, SMTT(30) DEF Typed
  <2> QED
    BY <2>1 DEF WindowInv, RepairWindow, Run
<1> QED
  BY <1>1, <1>3, <1>4, Zenon DEF WindowInv, Run

\* record_sent: the SOURCE that was sent follows the newest of the sources.
LEMMA RecordWindow ==
    ASSUME TypeOK, QueueInv, WindowInv, RecordSent
    PROVE  WindowInv'
<1> DEFINE all == sources \o sending
<1>1. /\ sources \in Datagram /\ sending \in Datagram /\ Len(sending) = 1
      /\ driver = "records" /\ driver' = "polled" /\ sending' = <<>>
      /\ UNCHANGED <<datagram_enabled, pending, next_symbol, repairs>>
  BY DEF RecordSent, TypeOK, QueueInv, queueVars, flowVars, NoDatagram
<1>2. sources' = IF Len(all) > MaxSpan THEN Tail(all) ELSE all
  BY DEF RecordSent
<1>3. Run(all)
  BY <1>1, LongerRun, SMTT(30) DEF WindowInv, Follows
<1>4. /\ Len(sources) \in Nat /\ all \in Datagram /\ Len(all) = Len(sources) + 1
      /\ all[Len(sources) + 1] = sending[1]
  <2> DEFINE Id == 0 .. SymbolModulus - 1
  <2>1. sources \in Seq(Id) /\ sending \in Seq(Id)
    BY <1>1 DEF Datagram
  <2> HIDE DEF Id
  <2>2. /\ Len(sources) \in Nat /\ all \in Seq(Id) /\ Len(all) = Len(sources) + 1
        /\ all[Len(sources) + 1] = sending[1]
    BY <1>1, <2>1, OneMore, SMTT(30)
  <2> QED
    BY <2>2 DEF Datagram, Id
<1> HIDE DEF all
<1>5. /\ Tail(all) \in Datagram /\ Len(Tail(all)) = Len(sources)
      /\ \A k \in 1 .. Len(sources) : Tail(all)[k] = all[1 + k]
  <2>1. all \in Seq(0 .. SymbolModulus - 1) /\ all # <<>>
    BY <1>4 DEF Datagram
  <2>2. Tail(all) \in Seq(0 .. SymbolModulus - 1) /\ Len(Tail(all)) = Len(all) - 1
    BY <2>1, TailTyped
  <2>3. \A k \in 1 .. Len(sources) : Tail(all)[k] = all[1 + k]
    BY <1>4, <2>1
  <2> QED
    BY <1>4, <2>2, <2>3 DEF Datagram
<1>6. Run(sources')
  <2>1. 1 \in Nat /\ Len(Tail(all)) + 1 <= Len(all)
    BY <1>4, <1>5
  <2>2. Run(Tail(all))
    BY <1>3, <1>4, <1>5, <2>1, PartOfRun, Zenon
  <2> QED
    BY <1>2, <1>3, <2>2, Zenon
<1>7. sources' # <<>> => sources'[Len(sources')] = sending[1]
  <2>1. CASE sources' = all
    BY <1>4, <2>1, SMTT(30)
  <2>2. CASE sources' = Tail(all) /\ Len(sources) > 0
    BY <1>4, <1>5, <2>2
  <2>3. CASE sources' = Tail(all) /\ Len(sources) = 0
    <3>1. Tail(all) = <<>>
      BY <1>5, <2>3 DEF Datagram
    <3> QED
      BY <2>3, <3>1
  <2> QED
    BY <1>2, <1>4, <2>1, <2>2, <2>3, SMTT(30)
<1>8. datagram_enabled => InOrder'
  <2> SUFFICES ASSUME datagram_enabled PROVE InOrder'
    OBVIOUS
  <2>1. PICK ids \in [0 .. Len(pending) -> 0 .. SymbolModulus - 1] : Numbered(ids)
    BY <1>1, SMTT(30) DEF WindowInv, Sends, InOrder
  <2>2. ids[0] = Successor(sending[1])
    BY <1>1, <2>1, SMTT(30) DEF Numbered
  <2>3. Numbered(ids)'
    BY <1>1, <1>7, <2>1, <2>2, SMTT(30) DEF Numbered, Successor
  <2> QED
    BY <1>1, <2>1, <2>3, Zenon DEF InOrder
<1>9. Follows' /\ (RepairWindow' <=> RepairWindow)
  BY <1>1, SMTT(20) DEF Follows, RepairWindow
<1> QED
  BY <1>1, <1>6, <1>8, <1>9, SMTT(30) DEF WindowInv, Run

\* disable_datagrams: nothing is in line from its first store on.
LEMMA DisableWindow ==
    ASSUME TypeOK, QueueInv, WindowInv, NEW c \in Callers, DisableDatagrams(c)
    PROVE  WindowInv'
<1>1. /\ UNCHANGED <<next_symbol, repairs, sending>> /\ ~datagram_enabled'
      /\ pending' = pending \/ pending' = <<>>
      /\ sources' = sources \/ sources' = <<>>
      /\ driver' = driver \/ (driver' = "stopped" /\ sending = <<>>)
  <2>1. disabling[c] # "store" /\ disabling[c] # "no" => ~datagram_enabled
    BY SMTT(30) DEF QueueInv, InUse, TypeOK
  <2>2. disabling["driver"] # "no" => sending = <<>>
    BY SMTT(30) DEF QueueInv, WindowInv
  <2> QED
    BY <2>1, <2>2, SMTT(30) DEF DisableDatagrams, Disable
<1>2. RepairWindow' /\ Run(sources)' /\ (driver' = "records" => Follows')
  BY <1>1 DEF RepairWindow, Run, WindowInv, Follows, Successor
<1> QED
  BY <1>1, <1>2, SMTT(30) DEF WindowInv, Run

\* The other steps of the driver, and what happens to it.
LEMMA DriverWindow ==
    ASSUME TypeOK, QueueInv, WindowInv,
           \/ DriverParks \/ Receive \/ Sent \/ SendRefused
           \/ ConnectionLost \/ Arrival \/ Negotiate
    PROVE  WindowInv'
<1>1. CASE DriverParks \/ Receive \/ Arrival \/ Negotiate
  <2>1. /\ UNCHANGED <<datagram_enabled, pending, sources, sending, next_symbol, repairs>>
        /\ \/ UNCHANGED driver
           \/ driver = "polled" /\ driver' = "parked"
           \/ driver = "parked" /\ driver' = "polled"
    <3>1. CASE DriverParks
      BY <3>1 DEF DriverParks, symbolVars, flowVars
    <3>2. CASE Receive
      BY <3>2 DEF Receive, symbolVars, flowVars
    <3>3. CASE Arrival
      BY <3>3 DEF Arrival, queueVars, symbolVars, flowVars
    <3>4. CASE Negotiate
      BY <3>4, SMTT(30) DEF Negotiate, queueVars, symbolVars, flowVars, driverVars
    <3> QED
      BY <1>1, <3>1, <3>2, <3>3, <3>4, SMTT(30)
  <2> QED
    BY <2>1, WindowStays DEF WindowInv, Sends
<1>2. CASE SendRefused \/ ConnectionLost
  BY <1>2, WindowEnds DEF SendRefused, ConnectionLost, DriverEnds, NoDatagram, queueVars,
       symbolVars, flowVars, Sends
<1>3. CASE Sent
  <2>1. UNCHANGED <<datagram_enabled, pending, sources, next_symbol, repairs>> /\ driver = "sends"
    BY <1>3, SMTT(30) DEF Sent, queueVars, symbolVars, flowVars
  <2>2. CASE datagram_enabled /\ driver' = "records" /\ UNCHANGED sending
    BY <2>1, <2>2, WindowStays, SMTT(20) DEF WindowInv, Sends
  <2>3. CASE ~(Len(sending) = 1 /\ datagram_enabled) /\ driver' = "polled" /\ sending' = <<>>
    <3>1. datagram_enabled => InOrder'
      BY <2>1, <2>3, SMTT(30) DEF WindowInv, Sends, InOrder, Numbered, Successor
    <3>2. Follows' /\ (RepairWindow' <=> RepairWindow) /\ (Run(sources)' <=> Run(sources))
      BY <2>1, <2>3 DEF Follows, RepairWindow, Run
    <3> QED
      BY <2>1, <2>3, <3>1, <3>2, SMTT(30) DEF WindowInv, Run
  <2> QED
    BY <1>3, <2>2, <2>3, SMTT(30) DEF Sent, NoDatagram
<1> QED
  BY <1>1, <1>2, <1>3, SMTT(30)

\* Every step keeps the line.
LEMMA WindowStep == TypeOK /\ QueueInv /\ WindowInv /\ [Next]_vars => WindowInv'
<1> SUFFICES ASSUME TypeOK, QueueInv, WindowInv, [Next]_vars PROVE WindowInv'
  BY SMTT(30)
<1>1. CASE UNCHANGED vars
  BY <1>1, WindowStays DEF vars, queueVars, symbolVars, flowVars, driverVars, WindowInv, Sends
<1>2. "driver" \in Callers /\ "negotiation" \in Callers
  BY DEF Callers
<1> QED
  BY <1>1, <1>2, ProducerWindow, TakeWindow, RecordWindow, DisableWindow, DriverWindow, SMTT(30)
     DEF Next, Driver

\* The symbols of every repair in the queue are consecutive, whatever is sent, dropped,
\* repaired and disabled in between, and however ids wrap (send_source, record_sent,
\* send_tail_repairs and disable_datagrams).
THEOREM RepairsConsecutive == Spec => []RepairWindow
<1>1. WindowInv => RepairWindow
  BY DEF WindowInv
<1> QED
  BY <1>1, InitWindow, WindowStep, QueueInvariant, PTL DEF Spec
=============================================================================
