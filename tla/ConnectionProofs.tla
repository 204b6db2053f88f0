-------------------------- MODULE ConnectionProofs --------------------------
(***************************************************************************)
(* Proofs about the two parts a connection is set up from: the view of the *)
(* path manager, for any modes, any size of the event stream and any       *)
(* number of statuses and retries, and the handshake of the no-security    *)
(* profile.                                                                *)
(***************************************************************************)
EXTENDS PathMonitor, NoSecurity, FiniteSetTheorems, TLAPS

-----------------------------------------------------------------------------
(***************************************************************************)
(* The view trails the transport: as long as the stream has lost nothing,  *)
(* applying the events it holds, in order, leads from the one to the       *)
(* other.                                                                  *)
(***************************************************************************)
InstallerStages == {"subscribe", "open", "validating", "validated", "done", "failed"}
\* What the transport reports of a path beside its status.
Lifecycle == {"established", "abandoned", "discarded"}
PathEvents ==
    [kind : Lifecycle, id : PathRoles]
        \cup [kind : {"status"}, id : PathRoles, status : PathStatuses]

PathView == [state : {"none", "validating", "established", "lost"},
             remote_status : {"none"} \cup PathStatuses]
TransportStates == {"none", "validating", "open", "abandoned", "discarded"}

PathTyped ==
    /\ mode \in {"off", "failover"}
    /\ paths \in [PathRoles -> PathView]
    /\ reliable \in BOOLEAN
    /\ installer \in [pc : InstallerStages, attempts : Int]
    /\ transport \in [open : BOOLEAN, primary : TransportStates, backup : TransportStates]
    /\ events \in [queue : Seq(PathEvents), subscribed : BOOLEAN, lagged : BOOLEAN]

\* The order in which the transport reports a path.
Before(first, second) ==
    \/ first = "established" /\ second \in {"abandoned", "discarded"}
    \/ first = "abandoned" /\ second = "discarded"

\* The stream holds the event for the path.
Has(queue, id, what) == \E i \in DOMAIN queue : queue[i].kind = what /\ queue[i].id = id

\* What the stream holds for a path is in the order of its life, each event once.
InOrder(queue, id) ==
    \A i, j \in DOMAIN queue :
        /\ i < j /\ queue[i].id = id /\ queue[j].id = id
        /\ queue[i].kind \in Lifecycle /\ queue[j].kind \in Lifecycle
        => Before(queue[i].kind, queue[j].kind)

\* The view is behind the transport by exactly the events in the stream.  An established
\* event may also be there when begin_path has already been applied.
Installed(state, real, queue, id) ==
    \/ /\ state = "established" /\ real \in {"open", "abandoned", "discarded"}
       /\ Has(queue, id, "abandoned") <=> real # "open"
       /\ Has(queue, id, "discarded") <=> real = "discarded"
    \/ /\ state = "lost" /\ real \in {"abandoned", "discarded"}
       /\ ~Has(queue, id, "established") /\ ~Has(queue, id, "abandoned")
       /\ Has(queue, id, "discarded") <=> real = "discarded"
    \/ /\ state = "none" /\ real \in {"none", "validating", "discarded"}
       /\ \A what \in Lifecycle : ~Has(queue, id, what)

Follows(state, real, queue, id) == InOrder(queue, id) /\ Installed(state, real, queue, id)

\* A backup that is validated counts as seen: begin_path will install it as established.
State(id) == IF id = "backup" /\ installer.pc = "validated" THEN "established" ELSE paths[id].state

\* Both paths are behind by their events only, except a backup whose validation failed.
Caught ==
    /\ Follows(State("primary"), transport.primary, events.queue, "primary")
    /\ \/ installer.pc = "validating" /\ transport.backup # "validating"
       \/ Follows(State("backup"), transport.backup, events.queue, "backup")

\* How far the installation has come, while the connection is open.
Stage ==
    /\ installer.pc # "failed"
    /\ installer.pc = "subscribe" <=> ~events.subscribed
    /\ ~events.subscribed =>
           events.queue = <<>> /\ ~events.lagged /\ transport.primary = "open"
    /\ transport.primary \in {"open", "abandoned", "discarded"}
    /\ installer.pc \in {"subscribe", "open"} => transport.backup = "none"
    /\ installer.pc = "validating" => transport.backup \in {"validating", "abandoned", "discarded"}
    /\ installer.pc = "validated" => transport.backup \in {"open", "abandoned", "discarded"}
    /\ installer.pc \in {"open", "validating", "validated"} => mode = "failover"
    /\ installer.pc # "done" => paths["backup"] = NoPath
    /\ installer.pc = "done" /\ mode = "off" => transport.backup = "none"
    /\ installer.pc = "done" /\ mode = "failover" => transport.backup \notin {"none", "validating"}

\* The inductive invariant: with the connection open and no event lost, the events in the
\* stream lead from the view to the transport.
PathInv ==
    /\ PathTyped
    /\ transport.open => reliable /\ Stage /\ (~events.lagged => Caught)

\* An event is added to what the stream holds.
LEMMA HasAppend ==
    ASSUME NEW queue \in Seq(PathEvents), NEW event \in PathEvents, NEW id, NEW what
    PROVE  Has(Append(queue, event), id, what)
               <=> Has(queue, id, what) \/ (event.kind = what /\ event.id = id)
<1> DEFINE longer == Append(queue, event)
<1>1. /\ DOMAIN queue = 1 .. Len(queue) /\ Len(queue) \in Nat
      /\ DOMAIN longer = 1 .. Len(queue) + 1 /\ longer[Len(queue) + 1] = event
      /\ \A i \in 1 .. Len(queue) : longer[i] = queue[i]
    OBVIOUS
<1>2. ASSUME Has(longer, id, what) PROVE Has(queue, id, what) \/ (event.kind = what /\ event.id = id)
    BY <1>1, <1>2 DEF Has
<1>3. ASSUME Has(queue, id, what) PROVE Has(longer, id, what)
    BY <1>1, <1>3 DEF Has
<1>4. ASSUME event.kind = what, event.id = id PROVE Has(longer, id, what)
    BY <1>1, <1>4 DEF Has
<1> QED BY <1>2, <1>3, <1>4, Zenon

\* The stream stays in order if the new event is later than those it holds.
LEMMA OrderAppend ==
    ASSUME NEW queue \in Seq(PathEvents), NEW event \in PathEvents, NEW id, InOrder(queue, id),
           event.id = id /\ event.kind \in Lifecycle =>
               \A what \in Lifecycle : Has(queue, id, what) => Before(what, event.kind)
    PROVE  InOrder(Append(queue, event), id)
<1> DEFINE longer == Append(queue, event)
<1>1. /\ DOMAIN queue = 1 .. Len(queue) /\ Len(queue) \in Nat
      /\ DOMAIN longer = 1 .. Len(queue) + 1 /\ longer[Len(queue) + 1] = event
      /\ \A i \in 1 .. Len(queue) : longer[i] = queue[i]
    OBVIOUS
<1> HIDE DEF longer
<1>2. ASSUME NEW i \in DOMAIN longer, NEW j \in DOMAIN longer, i < j,
             longer[i].id = id, longer[j].id = id,
             longer[i].kind \in Lifecycle, longer[j].kind \in Lifecycle
      PROVE  Before(longer[i].kind, longer[j].kind)
  <2>1. i \in DOMAIN queue /\ longer[i] = queue[i]
      BY <1>1, <1>2
  <2>2. CASE j \in DOMAIN queue
      BY <1>1, <1>2, <2>1, <2>2, Zenon DEF InOrder
  <2>3. CASE j \notin DOMAIN queue
    <3>1. longer[j] = event
        BY <1>1, <2>3
    <3>2. Has(queue, id, longer[i].kind)
        BY <2>1, <1>2, Zenon DEF Has
    <3> QED BY <3>1, <3>2, <1>2, Zenon
  <2> QED BY <2>2, <2>3, Zenon
<1> QED BY <1>2, Zenon DEF InOrder, longer

\* The monitor takes the oldest event: the others stay, and are later than it.
LEMMA QueueTail ==
    ASSUME NEW queue \in Seq(PathEvents), queue # <<>>, NEW id, InOrder(queue, id)
    PROVE  /\ Tail(queue) \in Seq(PathEvents) /\ Head(queue) \in PathEvents
           /\ InOrder(Tail(queue), id)
           /\ \A what : Has(queue, id, what)
                  <=> Has(Tail(queue), id, what) \/ (Head(queue).kind = what /\ Head(queue).id = id)
           /\ Head(queue).id = id /\ Head(queue).kind \in Lifecycle =>
                  \A what \in Lifecycle : Has(Tail(queue), id, what) => Before(Head(queue).kind, what)
<1> DEFINE rest == Tail(queue)
           first == Head(queue)
<1>1. /\ DOMAIN queue = 1 .. Len(queue) /\ Len(queue) \in Nat \ {0}
      /\ DOMAIN rest = 1 .. Len(queue) - 1 /\ first = queue[1]
      /\ \A i \in 1 .. Len(queue) - 1 : rest[i] = queue[i + 1]
    OBVIOUS
<1>2. rest \in Seq(PathEvents) /\ first \in PathEvents
    OBVIOUS
<1> HIDE DEF rest, first
<1>3. InOrder(rest, id)
  <2>1. ASSUME NEW i \in DOMAIN rest, NEW j \in DOMAIN rest, i < j
        PROVE  /\ i + 1 \in DOMAIN queue /\ j + 1 \in DOMAIN queue /\ i + 1 < j + 1
               /\ rest[i] = queue[i + 1] /\ rest[j] = queue[j + 1]
      BY <1>1, <2>1
  <2> QED BY <2>1 DEF InOrder
<1>4. ASSUME NEW what, Has(rest, id, what) PROVE Has(queue, id, what)
  <2>1. PICK i \in DOMAIN rest : rest[i].kind = what /\ rest[i].id = id
      BY <1>4, Zenon DEF Has
  <2>2. i + 1 \in DOMAIN queue /\ queue[i + 1] = rest[i]
      BY <1>1
  <2> QED BY <2>1, <2>2, Zenon DEF Has
<1>5. ASSUME NEW what, first.kind = what, first.id = id PROVE Has(queue, id, what)
  <2>1. 1 \in DOMAIN queue
      BY <1>1
  <2> QED BY <1>1, <1>5, <2>1, Zenon DEF Has
<1>6. ASSUME NEW what, Has(queue, id, what), ~(first.kind = what /\ first.id = id)
      PROVE  Has(rest, id, what)
  <2>1. PICK i \in DOMAIN queue : queue[i].kind = what /\ queue[i].id = id
      BY <1>6, Zenon DEF Has
  <2>2. i # 1
      BY <1>1, <1>6, <2>1, Zenon
  <2>3. i - 1 \in DOMAIN rest /\ rest[i - 1] = queue[i]
      BY <1>1, <2>2
  <2> QED BY <2>1, <2>3, Zenon DEF Has
<1>7. ASSUME first.id = id, first.kind \in Lifecycle, NEW what \in Lifecycle, Has(rest, id, what)
      PROVE  Before(first.kind, what)
  <2>1. PICK i \in DOMAIN rest : rest[i].kind = what /\ rest[i].id = id
      BY <1>7, Zenon DEF Has
  <2>2. 1 \in DOMAIN queue /\ i + 1 \in DOMAIN queue /\ 1 < i + 1 /\ queue[i + 1] = rest[i]
      BY <1>1
  <2> QED BY <1>1, <1>7, <2>1, <2>2, Zenon DEF InOrder
<1> QED BY <1>2, <1>3, <1>4, <1>5, <1>6, <1>7, Zenon DEF rest, first

\* An event of another path, or a status, changes nothing for a path.
LEMMA Elsewhere ==
    ASSUME NEW queue \in Seq(PathEvents), NEW event \in PathEvents, NEW id, NEW state, NEW real,
           Follows(state, real, queue, id), event.id # id \/ event.kind \notin Lifecycle
    PROVE  Follows(state, real, Append(queue, event), id)
<1>1. \A what \in Lifecycle : Has(Append(queue, event), id, what) <=> Has(queue, id, what)
    BY HasAppend, Zenon DEF Follows
<1>2. InOrder(Append(queue, event), id)
    BY OrderAppend, Zenon DEF Follows
<1> QED BY <1>1, <1>2, Zenon DEF Follows, Installed, Lifecycle

\* An event reported as the transport takes its step keeps the view behind by the stream.
LEMMA Reported ==
    ASSUME NEW queue \in Seq(PathEvents), NEW event \in PathEvents, NEW id, NEW state, NEW real,
           Follows(state, real, queue, id), event.id = id
    PROVE  /\ event.kind = "established" /\ state = "none" =>
                  Follows("established", "open", Append(queue, event), id)
           /\ event.kind = "abandoned" /\ real = "open" =>
                  Follows(state, "abandoned", Append(queue, event), id)
           /\ event.kind = "discarded" /\ real = "abandoned" =>
                  Follows(state, "discarded", Append(queue, event), id)
<1>1. \A what \in Lifecycle :
          Has(Append(queue, event), id, what) <=> Has(queue, id, what) \/ event.kind = what
    BY HasAppend, Zenon DEF Follows
<1>2. ASSUME \A what \in Lifecycle : Has(queue, id, what) => Before(what, event.kind)
      PROVE  InOrder(Append(queue, event), id)
    BY <1>2, OrderAppend, Zenon DEF Follows
<1>3. ASSUME event.kind = "established", state = "none"
      PROVE  Follows("established", "open", Append(queue, event), id)
  <2>1. \A what \in Lifecycle : ~Has(queue, id, what)
      BY <1>3, Zenon DEF Follows, Installed
  <2>2. InOrder(Append(queue, event), id)
      BY <1>2, <2>1, Zenon
  <2> QED BY <1>1, <1>3, <2>1, <2>2, Zenon DEF Follows, Installed, Lifecycle
<1>4. ASSUME event.kind = "abandoned", real = "open"
      PROVE  Follows(state, "abandoned", Append(queue, event), id)
  <2>1. state = "established" /\ ~Has(queue, id, "abandoned") /\ ~Has(queue, id, "discarded")
      BY <1>4, Zenon DEF Follows, Installed
  <2>2. InOrder(Append(queue, event), id)
      BY <1>2, <1>4, <2>1, Zenon DEF Before, Lifecycle
  <2> QED BY <1>1, <1>4, <2>1, <2>2, Zenon DEF Follows, Installed, Lifecycle
<1>5. ASSUME event.kind = "discarded", real = "abandoned"
      PROVE  Follows(state, "discarded", Append(queue, event), id)
  <2>1. ~Has(queue, id, "discarded")
      BY <1>5, Zenon DEF Follows, Installed
  <2>2. InOrder(Append(queue, event), id)
      BY <1>2, <1>5, <2>1, Zenon DEF Before, Lifecycle
  <2> QED BY <1>1, <1>5, <2>1, <2>2, Zenon DEF Follows, Installed, Lifecycle
<1> QED BY <1>3, <1>4, <1>5, Zenon

\* An event that is read moves the view by what it reports, never out of turn.
LEMMA Consumed ==
    ASSUME NEW queue \in Seq(PathEvents), queue # <<>>, NEW id, NEW state, NEW real,
           Follows(state, real, queue, id)
    PROVE  /\ Head(queue).id # id \/ Head(queue).kind \notin Lifecycle =>
                  Follows(state, real, Tail(queue), id)
           /\ Head(queue).id = id /\ Head(queue).kind = "established" =>
                  state = "established" /\ Follows(state, real, Tail(queue), id)
           /\ Head(queue).id = id /\ Head(queue).kind = "abandoned" =>
                  state = "established" /\ Follows("lost", real, Tail(queue), id)
           /\ Head(queue).id = id /\ Head(queue).kind = "discarded" =>
                  state = "lost" /\ Follows("none", real, Tail(queue), id)
<1> DEFINE rest == Tail(queue)
           first == Head(queue)
<1>1. InOrder(rest, id)
    BY QueueTail, Zenon DEF Follows
<1>2. \A what \in Lifecycle :
          Has(queue, id, what) <=> Has(rest, id, what) \/ (first.kind = what /\ first.id = id)
    BY QueueTail, Zenon DEF Follows
<1>3. first.id = id /\ first.kind \in Lifecycle =>
          \A what \in Lifecycle : Has(rest, id, what) => Before(first.kind, what)
    BY QueueTail, Zenon DEF Follows
<1> HIDE DEF rest, first
<1>4. ASSUME first.id # id \/ first.kind \notin Lifecycle PROVE Follows(state, real, rest, id)
    BY <1>1, <1>2, <1>4, Zenon DEF Follows, Installed, Lifecycle
<1>5. ASSUME first.id = id, first.kind = "established"
      PROVE  state = "established" /\ Follows(state, real, rest, id)
    BY <1>1, <1>2, <1>5, Zenon DEF Follows, Installed, Lifecycle
<1>6. ASSUME first.id = id, first.kind = "abandoned"
      PROVE  state = "established" /\ Follows("lost", real, rest, id)
    BY <1>1, <1>2, <1>3, <1>6, Zenon DEF Follows, Installed, Lifecycle, Before
<1>7. ASSUME first.id = id, first.kind = "discarded"
      PROVE  state = "lost" /\ Follows("none", real, rest, id)
    BY <1>1, <1>2, <1>3, <1>7, Zenon DEF Follows, Installed, Lifecycle, Before
<1> QED BY <1>4, <1>5, <1>6, <1>7, Zenon DEF rest, first

\* PathManager::new.
LEMMA PathFirst == ASSUME PathInit PROVE PathInv
<1>0. <<>> \in Seq(PathEvents)
    OBVIOUS
<1>1. PathTyped
    BY <1>0, PathsAssumption DEF PathInit, PathTyped, PathRoles, PathView, NoPath, InstallerStages,
       TransportStates, PathStatuses, expected_status
<1>2. \A id, what : ~Has(<<>>, id, what)
    BY DEF Has
<1>3. \A id : InOrder(<<>>, id)
    BY DEF InOrder
<1>4. Stage /\ reliable
    BY PathsAssumption, Zenon DEF PathInit, Stage, PathRoles
<1>5. Caught
    BY <1>2, <1>3, Zenon DEF PathInit, Caught, Follows, Installed, State, PathRoles, NoPath
<1> QED BY <1>1, <1>4, <1>5, Zenon DEF PathInv

\* What a report does to the stream: an event is lost only if the stream says so.
LEMMA ReportStep ==
    ASSUME PathTyped, NEW event \in PathEvents, Report(event)
    PROVE  /\ events' \in [queue : Seq(PathEvents), subscribed : BOOLEAN, lagged : BOOLEAN]
           /\ events'.subscribed <=> events.subscribed
           /\ ~events.subscribed => events' = events
           /\ events.subscribed /\ ~events'.lagged =>
                  ~events.lagged /\ events'.queue = Append(events.queue, event)
<1> DEFINE queue == events.queue
<1>1. queue \in Seq(PathEvents) /\ Append(queue, event) \in Seq(PathEvents)
    BY DEF PathTyped
<1>2. CASE ~events.subscribed
    BY <1>2, Zenon DEF Report, PathTyped
<1>3. CASE events.subscribed /\ Len(queue) < EventCapacity
    BY <1>1, <1>3, Zenon DEF Report, PathTyped
<1>4. CASE events.subscribed /\ ~(Len(queue) < EventCapacity)
  <2>1. queue # <<>>
      BY <1>1, <1>4, PathsAssumption
  <2>2. Append(Tail(queue), event) \in Seq(PathEvents)
      BY <1>1, <2>1
  <2> QED BY <1>4, <2>2, Zenon DEF Report, PathTyped
<1> QED BY <1>2, <1>3, <1>4, Zenon

\* The steps that report an event, by what the transport now has.
LEMMA ReportingStep ==
    ASSUME PathInv, transport.open, NEW event \in PathEvents, Report(event),
           transport' \in [open : BOOLEAN, primary : TransportStates, backup : TransportStates],
           installer' \in [pc : InstallerStages, attempts : Int],
           UNCHANGED <<mode, manager>>,
           transport'.open => Stage',
           ~events.subscribed => UNCHANGED <<installer, transport>> \/ ~transport'.open,
           \A queue \in Seq(PathEvents) :
               Caught /\ queue = events.queue /\ events'.queue = Append(queue, event) /\ transport'.open
                   => Caught'
    PROVE  PathInv'
<1>1. PathTyped'
    BY ReportStep, Zenon DEF PathInv, PathTyped, manager
<1>2. ASSUME transport'.open PROVE reliable'
    BY <1>2, Zenon DEF PathInv, manager
<1>3. ASSUME transport'.open, ~events'.lagged PROVE Caught'
  <2>1. CASE events.subscribed
    <3>1. ~events.lagged /\ events'.queue = Append(events.queue, event)
        BY <1>3, <2>1, ReportStep, Zenon DEF PathInv
    <3> QED BY <1>3, <3>1, Zenon DEF PathInv, PathTyped
  <2>2. CASE ~events.subscribed
    <3>1. UNCHANGED <<events, installer, transport, paths>>
        BY <1>3, <2>2, ReportStep, Zenon DEF PathInv, manager
    <3>2. Caught
        BY <1>3, <3>1, Zenon DEF PathInv
    <3> QED BY <3>1, <3>2, Zenon DEF Caught, State
  <2> QED BY <2>1, <2>2, Zenon
<1> QED BY <1>1, <1>2, <1>3, Zenon DEF PathInv

\* The backup is validated.
LEMMA ValidatedStep == ASSUME PathInv, Validated PROVE PathInv'
<1> DEFINE event == [kind |-> "established", id |-> "backup"]
<1>1. event \in PathEvents /\ Report(event) /\ transport.open
    BY Zenon DEF Validated, PathEvents, Lifecycle, PathRoles
<1>2. /\ transport' \in [open : BOOLEAN, primary : TransportStates, backup : TransportStates]
      /\ transport'.open = transport.open /\ transport'.primary = transport.primary
      /\ transport'.backup = "open" /\ transport.backup = "validating"
      /\ installer' \in [pc : InstallerStages, attempts : Int] /\ installer'.pc = "validated"
      /\ UNCHANGED <<mode, manager, paths, reliable>>
    BY Zenon DEF Validated, PathInv, PathTyped, TransportStates, InstallerStages, manager
<1>3. Stage /\ installer.pc = "validating" /\ events.subscribed /\ mode = "failover"
    BY <1>1, <1>2, Zenon DEF Stage, PathInv, PathTyped, InstallerStages
<1>4. Stage'
    BY <1>1, <1>2, <1>3, ReportStep, Zenon DEF Stage, PathInv
<1>5. ASSUME NEW queue \in Seq(PathEvents), Caught, queue = events.queue,
             events'.queue = Append(queue, event)
      PROVE  Caught'
  <2>1. Follows(State("primary"), transport.primary, queue, "primary")
        /\ Follows("none", "validating", queue, "backup")
        /\ State("primary") = paths["primary"].state
      BY <1>2, <1>3, <1>5 DEF Caught, State, Stage, NoPath
  <2>2. Follows(State("primary"), transport.primary, Append(queue, event), "primary")
      BY <1>1, <2>1, Elsewhere, Zenon
  <2>3. Follows("established", "open", Append(queue, event), "backup")
      BY <1>1, <2>1, Reported, Zenon
  <2>4. State("primary")' = State("primary") /\ State("backup")' = "established"
      BY <1>2, <2>1, Zenon DEF State
  <2> QED BY <1>2, <1>5, <2>2, <2>3, <2>4, Zenon DEF Caught
<1> HIDE DEF event
<1> QED BY <1>1, <1>2, <1>3, <1>4, <1>5, ReportingStep, Zenon

\* A path is abandoned.
LEMMA AbandonedStep == ASSUME PathInv, NEW id \in PathRoles, Abandoned(id) PROVE PathInv'
<1> DEFINE event == [kind |-> "abandoned", id |-> id]
<1>1. event \in PathEvents /\ Report(event) /\ transport.open
    BY Zenon DEF Abandoned, PathEvents, Lifecycle, PathRoles
<1>2. /\ transport' \in [open : BOOLEAN, primary : TransportStates, backup : TransportStates]
      /\ id = "primary" => /\ transport'.primary = "abandoned" /\ transport'.backup = transport.backup
                           /\ transport'.open => transport.backup = "open"
                           /\ transport.primary \in {"validating", "open"}
      /\ id = "backup" => /\ transport'.backup = "abandoned" /\ transport'.primary = transport.primary
                          /\ transport.backup \in {"validating", "open"}
      /\ UNCHANGED <<mode, manager, paths, reliable, installer>>
      /\ id = "primary" \/ id = "backup"
    BY Zenon DEF Abandoned, PathInv, PathTyped, TransportStates, InstallerStages, manager, PathRoles
<1>3. Stage /\ installer' \in [pc : InstallerStages, attempts : Int]
    BY <1>1, <1>2, Zenon DEF PathInv, PathTyped
<1>4. ASSUME transport'.open PROVE Stage'
    BY <1>1, <1>2, <1>3, <1>4, ReportStep, Zenon DEF Stage, PathInv
<1>5. ASSUME NEW queue \in Seq(PathEvents), Caught, queue = events.queue,
             events'.queue = Append(queue, event), transport'.open
      PROVE  Caught'
  <2>1. State("primary")' = State("primary") /\ State("backup")' = State("backup")
      BY <1>2, Zenon DEF State
  <2>2. CASE id = "primary"
    <3>1. transport.primary = "open"
        BY <1>2, <1>3, <2>2, Zenon DEF Stage
    <3>2. Follows(State("primary"), "abandoned", Append(queue, event), "primary")
        BY <1>1, <1>5, <2>2, <3>1, Reported, Zenon DEF Caught
    <3>3. Follows(State("backup"), transport.backup, queue, "backup")
              => Follows(State("backup"), transport.backup, Append(queue, event), "backup")
        BY <1>1, <2>2, Elsewhere, Zenon
    <3> QED BY <1>2, <1>5, <2>1, <2>2, <3>2, <3>3, Zenon DEF Caught
  <2>3. CASE id = "backup"
    <3>1. Follows(State("primary"), transport.primary, Append(queue, event), "primary")
        BY <1>1, <1>5, <2>3, Elsewhere, Zenon DEF Caught
    <3>2. CASE transport.backup = "open"
      <4>1. installer.pc # "validating"
          BY <1>3, <3>2, Zenon DEF Stage
      <4>2. Follows(State("backup"), "abandoned", Append(queue, event), "backup")
          BY <1>1, <1>5, <2>3, <3>2, <4>1, Reported, Zenon DEF Caught
      <4> QED BY <1>2, <1>5, <2>1, <2>3, <3>1, <4>2, Zenon DEF Caught
    <3>3. CASE transport.backup = "validating"
      <4>1. installer.pc = "validating"
          BY <1>3, <3>3, Zenon DEF Stage, PathInv, PathTyped, InstallerStages
      <4> QED BY <1>2, <1>5, <2>1, <2>3, <3>1, <4>1, Zenon DEF Caught
    <3> QED BY <1>2, <2>3, <3>2, <3>3, Zenon
  <2> QED BY <1>2, <2>2, <2>3, Zenon
<1>6. ~events.subscribed => ~transport'.open
    BY <1>2, <1>3, Zenon DEF Stage
<1> HIDE DEF event
<1> QED BY <1>1, <1>2, <1>3, <1>4, <1>5, <1>6, ReportingStep, Zenon

\* A path is discarded.
LEMMA DiscardedStep == ASSUME PathInv, NEW id \in PathRoles, Discarded(id) PROVE PathInv'
<1> DEFINE event == [kind |-> "discarded", id |-> id]
<1>1. event \in PathEvents /\ Report(event) /\ transport.open
    BY Zenon DEF Discarded, PathEvents, Lifecycle, PathRoles
<1>2. /\ transport' \in [open : BOOLEAN, primary : TransportStates, backup : TransportStates]
      /\ id = "primary" => /\ transport'.primary = "discarded" /\ transport'.backup = transport.backup
                           /\ transport.primary = "abandoned"
      /\ id = "backup" => /\ transport'.backup = "discarded" /\ transport'.primary = transport.primary
                          /\ transport.backup = "abandoned"
      /\ UNCHANGED <<mode, manager, paths, reliable, installer>>
      /\ id = "primary" \/ id = "backup"
    BY Zenon DEF Discarded, PathInv, PathTyped, TransportStates, InstallerStages, manager, PathRoles
<1>3. Stage /\ installer' \in [pc : InstallerStages, attempts : Int]
    BY <1>1, <1>2, Zenon DEF PathInv, PathTyped
<1>4. events.subscribed
    BY <1>2, <1>3, Zenon DEF Stage
<1>5. Stage'
    BY <1>1, <1>2, <1>3, <1>4, ReportStep, Zenon DEF Stage, PathInv
<1>6. ASSUME NEW queue \in Seq(PathEvents), Caught, queue = events.queue,
             events'.queue = Append(queue, event)
      PROVE  Caught'
  <2>1. State("primary")' = State("primary") /\ State("backup")' = State("backup")
      BY <1>2, Zenon DEF State
  <2>2. CASE id = "primary"
    <3>2. Follows(State("primary"), "discarded", Append(queue, event), "primary")
        BY <1>1, <1>2, <1>6, <2>2, Reported, Zenon DEF Caught
    <3>3. Follows(State("backup"), transport.backup, queue, "backup")
              => Follows(State("backup"), transport.backup, Append(queue, event), "backup")
        BY <1>1, <2>2, Elsewhere, Zenon
    <3> QED BY <1>2, <1>6, <2>1, <2>2, <3>2, <3>3, Zenon DEF Caught
  <2>3. CASE id = "backup"
    <3>1. Follows(State("primary"), transport.primary, Append(queue, event), "primary")
        BY <1>1, <1>6, <2>3, Elsewhere, Zenon DEF Caught
    <3>2. Follows(State("backup"), transport.backup, queue, "backup")
              => Follows(State("backup"), "discarded", Append(queue, event), "backup")
        BY <1>1, <1>2, <2>3, Reported, Zenon
    <3> QED BY <1>2, <1>6, <2>1, <2>3, <3>1, <3>2, Zenon DEF Caught
  <2> QED BY <1>2, <2>2, <2>3, Zenon
<1> HIDE DEF event
<1> QED BY <1>1, <1>2, <1>3, <1>4, <1>5, <1>6, ReportingStep, Zenon

\* A status of the peer comes.
LEMMA StatusStep ==
    ASSUME PathInv, NEW id \in PathRoles, NEW status \in PathStatuses, PeerStatus(id, status)
    PROVE  PathInv'
<1> DEFINE event == [kind |-> "status", id |-> id, status |-> status]
<1>1. event \in PathEvents /\ Report(event) /\ transport.open /\ event.kind \notin Lifecycle
    BY Zenon DEF PeerStatus, PathEvents, Lifecycle, PathRoles
<1>2. /\ transport' \in [open : BOOLEAN, primary : TransportStates, backup : TransportStates]
      /\ UNCHANGED <<mode, manager, paths, reliable, installer, transport>>
    BY Zenon DEF PeerStatus, PathInv, PathTyped, manager
<1>3. Stage /\ installer' \in [pc : InstallerStages, attempts : Int]
    BY <1>1, <1>2, Zenon DEF PathInv, PathTyped
<1>4. Stage'
    BY <1>1, <1>2, <1>3, ReportStep, Zenon DEF Stage, PathInv
<1>5. ASSUME NEW queue \in Seq(PathEvents), Caught, queue = events.queue,
             events'.queue = Append(queue, event)
      PROVE  Caught'
  <2>1. State("primary")' = State("primary") /\ State("backup")' = State("backup")
      BY <1>2, Zenon DEF State
  <2>2. Follows(State("primary"), transport.primary, Append(queue, event), "primary")
      BY <1>1, <1>5, Elsewhere, Zenon DEF Caught
  <2>3. Follows(State("backup"), transport.backup, queue, "backup")
              => Follows(State("backup"), transport.backup, Append(queue, event), "backup")
      BY <1>1, Elsewhere, Zenon
  <2> QED BY <1>2, <1>5, <2>1, <2>2, <2>3, Zenon DEF Caught
<1> HIDE DEF event
<1> QED BY <1>1, <1>2, <1>3, <1>4, <1>5, ReportingStep, Zenon

\* Steps of the installer that leave the stream alone.
LEMMA InstallerStep == ASSUME PathInv, OpenPath \/ OpenPathFails \/ Closed PROVE PathInv'
<1>1. CASE OpenPathFails \/ Closed
    BY <1>1, Zenon DEF OpenPathFails, Closed, InstallerOnly, PathInv, PathTyped, InstallerStages,
       manager
<1>2. CASE OpenPath
  <2>1. /\ UNCHANGED <<mode, manager, paths, reliable, events>>
        /\ transport' \in [open : BOOLEAN, primary : TransportStates, backup : TransportStates]
        /\ installer' \in [pc : InstallerStages, attempts : Int]
        /\ transport.open /\ installer.pc = "open" /\ Stage
      BY <1>2 DEF OpenPath, InstallerOnly, PathInv, PathTyped, InstallerStages, manager,
         TransportStates
  <2>2. PathTyped' /\ reliable'
      BY <2>1, Zenon DEF PathInv, PathTyped
  <2>3. \/ installer'.pc = "open" /\ transport' = transport
        \/ /\ installer'.pc = "validating" /\ transport'.primary = transport.primary
           /\ transport'.backup = "validating"
      BY <1>2, <2>1, Zenon DEF OpenPath, PathInv, PathTyped
  <2>4. Stage'
      BY <2>1, <2>3, Zenon DEF Stage
  <2>5. ASSUME ~events'.lagged PROVE Caught'
    <3>1. /\ State("primary")' = State("primary")
          /\ State("backup")' = "none" /\ State("backup") = "none"
        BY <2>1, <2>3 DEF State, Stage, NoPath
    <3>2. Caught /\ transport.backup = "none"
        BY <2>1, <2>5, Zenon DEF PathInv, Stage
    <3>3. Follows("none", "none", events.queue, "backup")
              => Follows("none", "validating", events.queue, "backup")
        BY Zenon DEF Follows, Installed
    <3> QED BY <2>1, <2>3, <3>1, <3>2, <3>3, Zenon DEF Caught
  <2> QED BY <2>2, <2>4, <2>5, Zenon DEF PathInv
<1> QED BY <1>1, <1>2, Zenon

\* install_required_backup subscribes to the stream before it opens the path.
LEMMA SubscribeStep == ASSUME PathInv, Subscribe PROVE PathInv'
<1>1. /\ UNCHANGED <<mode, manager, paths, reliable, transport>>
      /\ events' \in [queue : Seq(PathEvents), subscribed : BOOLEAN, lagged : BOOLEAN]
      /\ events'.queue = events.queue /\ events'.lagged = events.lagged /\ events'.subscribed
      /\ installer' \in [pc : InstallerStages, attempts : Int]
      /\ installer'.pc = IF mode = "off" THEN "done" ELSE "open"
      /\ transport.open /\ installer.pc = "subscribe" /\ Stage
    BY Zenon DEF Subscribe, PathInv, PathTyped, InstallerStages, manager
<1>2. PathTyped' /\ reliable' /\ mode \in {"off", "failover"}
    BY <1>1, Zenon DEF PathInv, PathTyped
<1>3. Stage'
    BY <1>1, <1>2, Zenon DEF Stage
<1>4. ASSUME ~events'.lagged PROVE Caught'
  <2>1. Caught /\ State("primary")' = State("primary") /\ State("backup")' = State("backup")
      BY <1>1, <1>4, Zenon DEF PathInv, State
  <2> QED BY <1>1, <2>1, Zenon DEF Caught
<1> QED BY <1>2, <1>3, <1>4, Zenon DEF PathInv

\* The validated backup enters the view.
LEMMA BeginStep == ASSUME PathInv, BeginPath PROVE PathInv'
<1> DEFINE begun == begin_path("backup")
           outcome == IF begun.error THEN begun ELSE established(begun.view, "backup")
           opened == [state |-> "established", remote_status |-> "none"]
<1>0. paths \in [PathRoles -> PathView] /\ "backup" \in PathRoles /\ opened \in PathView
    BY Zenon DEF PathInv, PathTyped, PathRoles, PathView
<1>1. begun = Unsound \/ begun = Sound([paths EXCEPT !["backup"] = Validating])
    BY Zenon DEF begin_path
<1> HIDE DEF begun
<1>2. outcome = Unsound \/ outcome = Sound([paths EXCEPT !["backup"] = opened])
  <2>1. CASE begun = Unsound
      BY <2>1, Zenon DEF Unsound
  <2>2. CASE begun = Sound([paths EXCEPT !["backup"] = Validating])
    <3> DEFINE view == [paths EXCEPT !["backup"] = Validating]
    <3>1. begun.view = view /\ ~begun.error
        BY <2>2, Zenon DEF Sound
    <3>2. /\ view["backup"] = Validating
          /\ [view EXCEPT !["backup"].state = "established"] = [paths EXCEPT !["backup"] = opened]
        BY <1>0 DEF Validating
    <3> HIDE DEF view
    <3>3. outcome = Sound([view EXCEPT !["backup"].state = "established"])
        BY <3>1, <3>2 DEF established, Validating
    <3> QED BY <3>2, <3>3, Zenon
  <2> QED BY <1>1, <2>1, <2>2, Zenon
<1>3. /\ installer.pc = "validated" /\ UNCHANGED <<mode, events>>
      /\ paths' = outcome.view /\ reliable' = (reliable /\ ~outcome.error)
      /\ installer' = [installer EXCEPT !.pc = IF outcome.error THEN "failed" ELSE "done"]
      /\ transport' = [transport EXCEPT !.open = @ /\ ~outcome.error]
    BY Zenon DEF BeginPath, Managed, begun
<1> HIDE DEF outcome, opened
<1>4. paths' \in [PathRoles -> PathView] /\ outcome.error \in BOOLEAN
  <2>1. CASE outcome = Unsound
      BY <1>0, <1>3, <2>1, Zenon DEF Unsound
  <2>2. CASE outcome = Sound([paths EXCEPT !["backup"] = opened])
      BY <1>0, <1>3, <2>2, Zenon DEF Sound
  <2> QED BY <1>2, <2>1, <2>2, Zenon
<1>5. PathTyped'
    BY <1>3, <1>4, Zenon DEF PathInv, PathTyped, InstallerStages
<1>6. CASE outcome = Unsound
    BY <1>3, <1>5, <1>6, Zenon DEF PathInv, PathTyped, Unsound
<1>7. CASE outcome = Sound([paths EXCEPT !["backup"] = opened]) /\ transport.open
  <2>1. /\ ~outcome.error /\ paths'["backup"].state = "established"
        /\ paths'["primary"] = paths["primary"] /\ reliable' /\ installer'.pc = "done"
        /\ transport'.open /\ transport'.primary = transport.primary
        /\ transport'.backup = transport.backup
        /\ Stage
      BY <1>0, <1>3, <1>7, Zenon DEF PathInv, PathTyped, Sound, PathRoles, opened
  <2>2. Stage'
      BY <1>3, <2>1, Zenon DEF Stage
  <2>3. ASSUME ~events'.lagged PROVE Caught'
    <3>1. Caught /\ State("primary")' = State("primary") /\ State("backup")' = State("backup")
        BY <1>3, <1>7, <2>1, <2>3, Zenon DEF PathInv, State
    <3> QED BY <1>3, <2>1, <3>1, Zenon DEF Caught
  <2> QED BY <1>5, <2>1, <2>2, <2>3, Zenon DEF PathInv
<1>8. CASE ~transport.open
    BY <1>3, <1>5, <1>8, Zenon DEF PathInv, PathTyped
<1> QED BY <1>2, <1>6, <1>7, <1>8, Zenon

\* What apply_noq_event does to the view: the event's path only.
LEMMA Applied ==
    ASSUME paths \in [PathRoles -> PathView], NEW event \in PathEvents
    PROVE  \E view \in [PathRoles -> PathView] :
               /\ apply_noq_event(event) \in {Sound(view), [view |-> view, error |-> TRUE]}
               /\ \A id \in PathRoles \ {event.id} : view[id] = paths[id]
               /\ event.kind = "status" => view[event.id].state = paths[event.id].state
               /\ event.kind = "established" => view = paths \/ paths[event.id].state = "validating"
               /\ event.kind = "abandoned" /\ paths[event.id].state = "established" =>
                      view[event.id].state = "lost"
               /\ event.kind = "discarded" /\ paths[event.id].state = "lost" =>
                      view[event.id].state = "none"
<1> DEFINE id == event.id
<1>1. /\ id \in PathRoles /\ event.kind \in Lifecycle \cup {"status"}
      /\ event.kind = "status" => event.status \in PathStatuses
      /\ paths[id] \in PathView
    BY Zenon DEF PathEvents, Lifecycle
<1>2. Unsound = [view |-> paths, error |-> TRUE]
    BY Zenon DEF Unsound, Sound
<1> HIDE DEF id
<1>3. CASE event.kind = "established"
  <2>1. CASE paths[id].state = "validating"
    <3> DEFINE view == [paths EXCEPT ![id].state = "established"]
    <3>1. view \in [PathRoles -> PathView] /\ \A other \in PathRoles \ {id} : view[other] = paths[other]
        BY <1>1, Zenon DEF PathView
    <3>2. apply_noq_event(event) = Sound(view)
        BY <1>3, <2>1, Zenon DEF apply_noq_event, established, id
    <3> QED BY <1>3, <2>1, <3>1, <3>2, Zenon DEF id
  <2>2. CASE paths[id].state = "established"
    <3>1. apply_noq_event(event) = Sound(paths)
        BY <1>3, <2>2, Zenon DEF apply_noq_event, established, id
    <3> QED BY <1>3, <3>1, Zenon DEF id
  <2>3. CASE paths[id].state \notin {"validating", "established"}
    <3>1. apply_noq_event(event) = Unsound
        BY <1>3, <2>3, Zenon DEF apply_noq_event, established, id
    <3> QED BY <1>2, <1>3, <3>1, Zenon DEF id
  <2> QED BY <2>1, <2>2, <2>3, Zenon
<1>4. CASE event.kind = "abandoned"
  <2>1. CASE paths[id].state \in {"validating", "established"}
    <3> DEFINE view == [paths EXCEPT ![id].state = "lost"]
    <3>1. /\ view \in [PathRoles -> PathView] /\ view[id].state = "lost"
          /\ \A other \in PathRoles \ {id} : view[other] = paths[other]
        BY <1>1, Zenon DEF PathView
    <3>2. apply_noq_event(event) = Sound(view)
        BY <1>4, <2>1, Zenon DEF apply_noq_event, lost, id
    <3> HIDE DEF view
    <3> QED BY <1>4, <3>1, <3>2, Zenon DEF id
  <2>2. CASE paths[id].state \notin {"validating", "established"}
    <3>1. apply_noq_event(event) = Unsound
        BY <1>4, <2>2, Zenon DEF apply_noq_event, lost, id
    <3> QED BY <1>2, <1>4, <2>2, <3>1, Zenon DEF id
  <2> QED BY <2>1, <2>2, Zenon
<1>5. CASE event.kind = "discarded"
  <2>1. CASE paths[id].state = "lost"
    <3> DEFINE view == [paths EXCEPT ![id] = NoPath]
    <3>1. /\ view \in [PathRoles -> PathView] /\ view[id].state = "none"
          /\ \A other \in PathRoles \ {id} : view[other] = paths[other]
        BY <1>1, Zenon DEF PathView, NoPath
    <3>2. apply_noq_event(event) = Sound(view)
        BY <1>5, <2>1, Zenon DEF apply_noq_event, discarded_event, id
    <3> HIDE DEF view
    <3> QED BY <1>5, <3>1, <3>2, Zenon DEF id
  <2>2. CASE paths[id].state # "lost"
    <3>1. apply_noq_event(event) = Unsound
        BY <1>5, <2>2, Zenon DEF apply_noq_event, discarded_event, id
    <3> QED BY <1>2, <1>5, <2>2, <3>1, Zenon DEF id
  <2> QED BY <2>1, <2>2, Zenon
<1>6. CASE event.kind = "status"
  <2> DEFINE status == event.status
  <2>1. CASE paths[id].state \in {"validating", "established"} /\ status = expected_status
    <3> DEFINE view == [paths EXCEPT ![id].remote_status = status]
    <3>1. /\ view \in [PathRoles -> PathView] /\ view[id].state = paths[id].state
          /\ \A other \in PathRoles \ {id} : view[other] = paths[other]
        BY <1>1, <1>6, Zenon DEF PathView
    <3>2. apply_noq_event(event) = Sound(view)
        BY <1>6, <2>1, Zenon DEF apply_noq_event, remote_status, id
    <3> HIDE DEF view
    <3> QED BY <1>6, <3>1, <3>2, Zenon DEF id
  <2>2. CASE ~(paths[id].state \in {"validating", "established"} /\ status = expected_status)
    <3>1. apply_noq_event(event) = Unsound
        BY <1>6, <2>2, Zenon DEF apply_noq_event, remote_status, id
    <3> QED BY <1>2, <1>6, <3>1, Zenon DEF id
  <2> QED BY <2>1, <2>2, Zenon
<1> QED BY <1>1, <1>3, <1>4, <1>5, <1>6, Zenon DEF Lifecycle

\* The monitor reads one event, or learns that some were lost.
LEMMA MonitorStep == ASSUME PathInv, Monitor PROVE PathInv'
<1> DEFINE outcome == IF events.lagged THEN Unsound ELSE apply_noq_event(Head(events.queue))
           queue == events.queue
           first == Head(queue)
<1>1. /\ installer.pc = "done" /\ reliable /\ UNCHANGED <<mode, installer>>
      /\ events.lagged \/ queue # <<>>
      /\ paths' = outcome.view /\ reliable' = (reliable /\ ~outcome.error)
      /\ transport' = [transport EXCEPT !.open = @ /\ ~outcome.error]
      /\ events' = IF events.lagged THEN [events EXCEPT !.lagged = FALSE]
                                    ELSE [events EXCEPT !.queue = Tail(@)]
    BY Zenon DEF Monitor, Managed
<1>2. CASE events.lagged
  <2>1. outcome = Unsound
      BY <1>2, Zenon
  <2> HIDE DEF outcome
  <2>2. outcome.view = paths /\ outcome.error
      BY <2>1, Zenon DEF Unsound
  <2> QED BY <1>1, <1>2, <2>2, ZenonT(60) DEF PathInv, PathTyped
<1>3. CASE ~events.lagged
  <2>0. queue \in Seq(PathEvents) /\ queue # <<>> /\ first \in PathEvents
        /\ Tail(queue) \in Seq(PathEvents) /\ paths \in [PathRoles -> PathView]
      BY <1>1, <1>3 DEF PathInv, PathTyped
  <2>1. PICK view \in [PathRoles -> PathView] :
            /\ outcome \in {Sound(view), [view |-> view, error |-> TRUE]}
            /\ \A id \in PathRoles \ {first.id} : view[id] = paths[id]
            /\ first.kind = "status" => view[first.id].state = paths[first.id].state
            /\ first.kind = "established" => view = paths \/ paths[first.id].state = "validating"
            /\ first.kind = "abandoned" /\ paths[first.id].state = "established" =>
                      view[first.id].state = "lost"
            /\ first.kind = "discarded" /\ paths[first.id].state = "lost" =>
                      view[first.id].state = "none"
      BY <1>3, <2>0, Applied, Zenon
  <2> HIDE DEF outcome, first
  <2>2. outcome.view = view /\ outcome.error \in BOOLEAN
    <3>1. CASE outcome = Sound(view)
        BY <3>1, Zenon DEF Sound
    <3>2. CASE outcome = [view |-> view, error |-> TRUE]
        BY <3>2, Zenon
    <3> QED BY <2>1, <3>1, <3>2, Zenon
  <2>3. /\ PathTyped' /\ events'.queue = Tail(queue) /\ ~events'.lagged
        /\ events'.subscribed = events.subscribed /\ paths' = view
        /\ transport'.primary = transport.primary /\ transport'.backup = transport.backup
        /\ transport'.open => transport.open /\ reliable'
      BY <1>1, <1>3, <2>0, <2>2, Zenon DEF PathInv, PathTyped
  <2>4. ASSUME transport'.open PROVE Stage' /\ Caught'
    <3>1. Stage /\ Caught
        BY <1>3, <2>3, <2>4, Zenon DEF PathInv
    <3>2. Stage'
        BY <1>1, <2>3, <3>1, Zenon DEF Stage
    <3>3. ASSUME NEW id \in PathRoles, NEW real, Follows(paths[id].state, real, queue, id)
          PROVE  Follows(view[id].state, real, Tail(queue), id)
      <4>1. first \in PathEvents /\ first = Head(queue) /\ first.kind \in Lifecycle \cup {"status"}
          BY <2>0, Zenon DEF first, PathEvents
      <4>2. CASE first.id # id
          BY <2>0, <2>1, <3>3, <4>1, <4>2, Consumed, Zenon
      <4>3. CASE first.id = id /\ first.kind = "status"
          BY <2>0, <2>1, <3>3, <4>1, <4>3, Consumed, Zenon DEF Lifecycle
      <4>4. CASE first.id = id /\ first.kind = "established"
        <5>1. paths[id].state = "established" /\ Follows(paths[id].state, real, Tail(queue), id)
            BY <2>0, <3>3, <4>1, <4>4, Consumed
        <5> QED BY <2>1, <4>4, <5>1, Zenon
      <4>5. CASE first.id = id /\ first.kind = "abandoned"
        <5>1. paths[id].state = "established" /\ Follows("lost", real, Tail(queue), id)
            BY <2>0, <3>3, <4>1, <4>5, Consumed, Zenon
        <5> QED BY <2>1, <4>5, <5>1, Zenon
      <4>6. CASE first.id = id /\ first.kind = "discarded"
        <5>1. paths[id].state = "lost" /\ Follows("none", real, Tail(queue), id)
            BY <2>0, <3>3, <4>1, <4>6, Consumed, Zenon
        <5> QED BY <2>1, <4>6, <5>1, Zenon
      <4> QED BY <4>1, <4>2, <4>3, <4>4, <4>5, <4>6, Zenon DEF Lifecycle
    <3>4. /\ State("primary") = paths["primary"].state /\ State("backup") = paths["backup"].state
          /\ State("primary")' = view["primary"].state /\ State("backup")' = view["backup"].state
          /\ "primary" \in PathRoles /\ "backup" \in PathRoles
        BY <1>1, <2>3, Zenon DEF State, PathRoles
    <3>5. /\ Follows(paths["primary"].state, transport.primary, queue, "primary")
          /\ Follows(paths["backup"].state, transport.backup, queue, "backup")
        BY <1>1, <3>1, <3>4, Zenon DEF Caught
    <3>6. /\ Follows(view["primary"].state, transport.primary, Tail(queue), "primary")
          /\ Follows(view["backup"].state, transport.backup, Tail(queue), "backup")
        BY <3>3, <3>4, <3>5, Zenon
    <3> QED BY <2>3, <3>2, <3>4, <3>6, Zenon DEF Caught
  <2> QED BY <2>3, <2>4, Zenon DEF PathInv
<1> QED BY <1>2, <1>3, Zenon

\* Every step keeps the invariant.
LEMMA PathKeeps == ASSUME PathInv, [PathNext]_pathVars PROVE PathInv'
<1>1. CASE PathNext
  <2>1. ASSUME NEW id \in PathRoles, Abandoned(id) \/ Discarded(id) PROVE PathInv'
      BY <2>1, AbandonedStep, DiscardedStep, Zenon
  <2>2. ASSUME NEW id \in PathRoles, NEW status \in PathStatuses, PeerStatus(id, status)
        PROVE  PathInv'
      BY <2>2, StatusStep, Zenon
  <2> QED BY <1>1, <2>1, <2>2, SubscribeStep, InstallerStep, BeginStep, MonitorStep, ValidatedStep, Zenon
          DEF PathNext, ClientPathStep
<1>2. CASE UNCHANGED pathVars
    BY <1>2, Zenon DEF pathVars, manager, PathInv, PathTyped, Stage, Caught, State
<1> QED BY <1>1, <1>2, Zenon

\* The count of usable paths.
LEMMA UsableSets ==
    ASSUME paths \in [PathRoles -> PathView]
    PROVE  /\ UsableCount(paths) \in {0, 1, 2}
           /\ UsableCount(paths) = 2 <=> usable(paths["primary"]) /\ usable(paths["backup"])
           /\ UsableCount(paths) = 0 <=> ~usable(paths["primary"]) /\ ~usable(paths["backup"])
<1> DEFINE able == {role \in PathRoles : usable(paths[role])}
<1>1. CASE usable(paths["primary"]) /\ usable(paths["backup"])
  <2>1. able = {"primary"} \cup {"backup"}
      BY <1>1, Zenon DEF PathRoles
  <2>2. IsFiniteSet({"primary"}) /\ Cardinality({"primary"}) = 1
      BY FS_Singleton, Zenon
  <2>3. Cardinality({"primary"} \cup {"backup"}) = Cardinality({"primary"}) + 1
      BY <2>2, FS_AddElement, "backup" \notin {"primary"}, Zenon
  <2>4. Cardinality(able) = 2
      BY <2>1, <2>2, <2>3
  <2> QED BY <1>1, <2>4 DEF UsableCount
<1>2. CASE usable(paths["primary"]) /\ ~usable(paths["backup"])
  <2>1. able = {"primary"}
      BY <1>2, Zenon DEF PathRoles
  <2>2. Cardinality(able) = 1
      BY <2>1, FS_Singleton, Zenon
  <2> QED BY <1>2, <2>2 DEF UsableCount
<1>3. CASE ~usable(paths["primary"]) /\ usable(paths["backup"])
  <2>1. able = {"backup"}
      BY <1>3, Zenon DEF PathRoles
  <2>2. Cardinality(able) = 1
      BY <2>1, FS_Singleton, Zenon
  <2> QED BY <1>3, <2>2 DEF UsableCount
<1>4. CASE ~usable(paths["primary"]) /\ ~usable(paths["backup"])
  <2>1. able = {}
      BY <1>4, Zenon DEF PathRoles
  <2>2. Cardinality(able) = 0
      BY <2>1, FS_EmptySet, Zenon
  <2> QED BY <1>4, <2>2 DEF UsableCount
<1> QED BY <1>1, <1>2, <1>3, <1>4, Zenon

\* With the stream empty the view is the transport.
LEMMA InvGivesSync == ASSUME PathInv PROVE PathsInSync
<1>1. ~reliable => ~transport.open
    BY Zenon DEF PathInv
<1>2. ASSUME installer.pc = "done", transport.open, events.queue = <<>>, ~events.lagged
      PROVE  /\ \A id \in PathRoles : Believed(id)
             /\ path_health = "Ready" =>
                    transport.primary = "open" /\ (mode = "failover" => transport.backup = "open")
             /\ path_health = "Degraded" => \E id \in PathRoles : transport[id] = "open"
  <2>1. \A id, what : ~Has(events.queue, id, what)
      BY <1>2 DEF Has
  <2>2. /\ Installed(paths["primary"].state, transport.primary, events.queue, "primary")
        /\ Installed(paths["backup"].state, transport.backup, events.queue, "backup")
      BY <1>2, Zenon DEF PathInv, Caught, State, Follows
  <2>3. Stage /\ PathTyped
      BY <1>2, Zenon DEF PathInv
  <2>4. /\ transport.primary = "open" => paths["primary"].state = "established"
        /\ transport.primary = "abandoned" => paths["primary"].state = "lost"
        /\ transport.primary \notin {"open", "abandoned"} => paths["primary"].state = "none"
        /\ transport.backup = "open" => paths["backup"].state = "established"
        /\ transport.backup = "abandoned" => paths["backup"].state = "lost"
        /\ transport.backup \notin {"open", "abandoned"} => paths["backup"].state = "none"
      BY <2>1, <2>2, Zenon DEF Installed
  <2>5. Believed("primary") /\ Believed("backup")
      BY <2>4, Zenon DEF Believed
  <2>6. /\ usable(paths["primary"]) => transport.primary = "open"
        /\ usable(paths["backup"]) => transport.backup = "open"
      BY <2>4, Zenon DEF usable
  <2>7. ASSUME path_health = "Ready"
        PROVE  transport.primary = "open" /\ (mode = "failover" => transport.backup = "open")
    <3>1. UsableCount(paths) = path_limit
        BY <1>2, <2>7, Zenon DEF path_health, health
    <3>2. CASE mode = "off"
      <4>1. UsableCount(paths) # 0 /\ transport.backup = "none"
          BY <1>2, <2>3, <3>1, <3>2 DEF path_limit, Stage
      <4> QED BY <2>3, <2>6, <3>2, <4>1, UsableSets, Zenon DEF PathTyped
    <3>3. CASE mode = "failover"
      <4>1. UsableCount(paths) = 2
          BY <3>1, <3>3, Zenon DEF path_limit
      <4> QED BY <2>3, <2>6, <4>1, UsableSets, Zenon DEF PathTyped
    <3> QED BY <2>3, <3>2, <3>3, Zenon DEF PathTyped
  <2>8. ASSUME path_health = "Degraded" PROVE \E id \in PathRoles : transport[id] = "open"
    <3>1. UsableCount(paths) # 0
        BY <1>2, <2>8, Zenon DEF path_health, health
    <3> QED BY <2>3, <2>6, <3>1, UsableSets, Zenon DEF PathTyped, PathRoles
  <2> QED BY <2>5, <2>7, <2>8, Zenon DEF PathRoles
<1> QED BY <1>1, <1>2, Zenon DEF PathsInSync

(***************************************************************************)
(* Whatever order the events come in, and wherever the installation of the *)
(* backup is when they do, a monitor that has read its stream has the      *)
(* transport's view of both paths and reports its health accordingly, or   *)
(* the connection is closed (PathManager in multipath.rs,                  *)
(* install_required_backup and spawn_path_event_monitor in transport.rs).  *)
(***************************************************************************)
THEOREM ViewFollows == PathSpec => []PathsInSync
<1>1. PathSpec => []PathInv
    BY PathFirst, PathKeeps, PTL DEF PathSpec
<1> QED BY <1>1, InvGivesSync, PTL

-----------------------------------------------------------------------------
(***************************************************************************)
(* That the two sides of a handshake agree, for any sessions, transport    *)
(* parameters, tokens and sizes of message.                                *)
(*                                                                         *)
(* A session is in one of the seven states it goes through, or has failed  *)
(* on both sides.  In each the fragments a side has taken and those on     *)
(* their way make up one message.                                          *)
(***************************************************************************)
SideTokens == ClientTokens \cup {"none"}
ParamValues == Sessions \cup Params \cup {"none"}

Stages ==
    {"none", "New", "HelloSent", "ServerKeysReady", "AwaitingConfirm", "Established", "failed"}
Amounts == Int
Kinds == {"CLIENT_HELLO", "SERVER_HELLO", "CLIENT_CONFIRM"}

SideState ==
    [stage : Stages, profile_token : SideTokens, params : ParamValues,
     peer_token : SideTokens, peer_params : ParamValues, input : Amounts]
Messages == [kind : Kinds, units : Int, token : SideTokens, params : ParamValues]

Lines == {NoMessage} \cup Messages

SecurityTyped ==
    /\ session \in [Sessions -> [Sides -> SideState]]
    /\ wire \in [Sessions -> [Sides -> Lines]]
    /\ remembered \in ParamValues /\ server_params \in Params

\* A message of the sender is on its way, and the receiver has the rest of it.
Arriving(kind, token, sender, receiver, incoming) ==
    /\ incoming \in Messages
    /\ incoming.kind = kind /\ incoming.token = token /\ incoming.params = sender.params
    /\ incoming.units \in 1 .. MessageUnits
    /\ receiver.input = MessageUnits - incoming.units

\* The server has the client's message and has checked its token.
Greeted(client, server) ==
    /\ client.profile_token = QUICP_PROFILE
    /\ server.peer_token = QUICP_PROFILE /\ server.peer_params = client.params

\* The states of a session, with what is on its way to the client and to the server.
Fails(client, server) == client.stage = "failed" /\ server.stage = "failed"

Begins(client, server, toClient, toServer) ==
    /\ client = Absent \/ client.stage = "New"
    /\ server = Absent
    /\ client.peer_token = "none" /\ client.input = 0
    /\ toClient = NoMessage /\ toServer = NoMessage

HelloSent(client, server, toClient, toServer) ==
    /\ client.stage = "HelloSent" /\ client.peer_token = "none" /\ client.input = 0
    /\ server = Absent \/ server.stage = "New"
    /\ server.peer_token = "none"
    /\ Arriving("CLIENT_HELLO", client.profile_token, client, server, toServer)
    /\ toClient = NoMessage

HelloRead(client, server, toClient, toServer) ==
    /\ client.stage = "HelloSent" /\ client.peer_token = "none" /\ client.input = 0
    /\ server.stage \in {"New", "ServerKeysReady"} /\ server.input = 0
    /\ Greeted(client, server)
    /\ toClient = NoMessage /\ toServer = NoMessage

ReplySent(client, server, toClient, toServer) ==
    /\ client.stage = "HelloSent" /\ client.peer_token = "none"
    /\ server.stage = "AwaitingConfirm" /\ server.input = 0
    /\ Greeted(client, server)
    /\ Arriving("SERVER_HELLO", QUICP_PROFILE, server, client, toClient)
    /\ toServer = NoMessage

ReplyRead(client, server, toClient, toServer) ==
    /\ client.stage = "HelloSent" /\ client.peer_token # "none"
    /\ client.peer_params = server.params
    /\ server.stage = "AwaitingConfirm" /\ server.input = 0
    /\ Greeted(client, server)
    /\ toClient = NoMessage /\ toServer = NoMessage

ConfirmSent(client, server, toClient, toServer) ==
    /\ client.stage = "Established" /\ client.peer_params = server.params
    /\ server.stage = "AwaitingConfirm" /\ Greeted(client, server)
    /\ toClient = NoMessage
    /\ Arriving("CLIENT_CONFIRM", client.peer_token, client, server, toServer)

ConfirmRead(client, server, toClient, toServer) ==
    /\ client.stage = "Established" /\ client.peer_params = server.params
    /\ server.stage = "Established" /\ Greeted(client, server)
    /\ toClient = NoMessage /\ toServer = NoMessage

Progress(client, server, toClient, toServer) ==
    \/ Fails(client, server)
    \/ Begins(client, server, toClient, toServer)
    \/ HelloSent(client, server, toClient, toServer)
    \/ HelloRead(client, server, toClient, toServer)
    \/ ReplySent(client, server, toClient, toServer)
    \/ ReplyRead(client, server, toClient, toServer)
    \/ ConfirmSent(client, server, toClient, toServer)
    \/ ConfirmRead(client, server, toClient, toServer)

SecurityInv ==
    /\ SecurityTyped
    /\ \A s \in Sessions : Progress(session[s]["client"], session[s]["server"],
                                    wire[s]["client"], wire[s]["server"])

\* A side that enters another stage.
Staged(me, stage) == [me EXCEPT !.stage = stage]

\* What entering a stage leaves alone.
LEMMA StageSet ==
    ASSUME NEW me \in SideState, NEW stage \in Stages
    PROVE  /\ Staged(me, stage) \in SideState /\ Staged(me, stage).stage = stage
           /\ Staged(me, stage).profile_token = me.profile_token
           /\ Staged(me, stage).params = me.params
           /\ Staged(me, stage).peer_token = me.peer_token
           /\ Staged(me, stage).peer_params = me.peer_params
           /\ Staged(me, stage).input = me.input
BY Zenon DEF SideState, Staged

\* A message as it is written.
LEMMA MessageSent ==
    ASSUME NEW kind \in Kinds, NEW token \in SideTokens, NEW me \in SideState
    PROVE  /\ message(kind, token, me) \in Messages /\ message(kind, token, me) # NoMessage
           /\ message(kind, token, me).kind = kind /\ message(kind, token, me).token = token
           /\ message(kind, token, me).params = me.params
           /\ message(kind, token, me).units = MessageUnits
<1>1. me.params \in ParamValues /\ MessageUnits \in Int
  BY SecurityAssumption DEF SideState
<1>2. message(kind, token, me).kind = kind /\ NoMessage.kind = "none"
  BY Zenon DEF message, NoMessage
<1>3. kind # "none"
  BY Zenon DEF Kinds
<1> QED
  BY <1>1, <1>2, <1>3, Zenon DEF message, Messages

\* The client writes: its greeting, or its confirmation once it has the server's.
LEMMA ClientWrites ==
    ASSUME NEW client \in SideState, NEW server \in SideState, NEW toClient, NEW toServer,
           Progress(client, server, toClient, toServer),
           NEW next, next = write_handshake("client", client), next.stage # client.stage,
           NEW me, me = Staged(client, next.stage)
    PROVE  /\ next.message # NoMessage /\ next.message \in Messages /\ me \in SideState
           /\ Progress(me, server, toClient, next.message)
<1>1. \/ /\ client.stage = "New" /\ next.stage = "HelloSent"
         /\ next.message = message("CLIENT_HELLO", client.profile_token, client)
      \/ /\ client.stage = "HelloSent" /\ client.peer_token # "none" /\ next.stage = "Established"
         /\ next.message = message("CLIENT_CONFIRM", client.peer_token, client)
  BY Zenon DEF write_handshake, expected_token
<1>2. /\ me \in SideState /\ me.stage = next.stage /\ me.profile_token = client.profile_token
      /\ me.peer_token = client.peer_token /\ me.peer_params = client.peer_params
      /\ me.params = client.params /\ me.input = client.input
  <2>1. next.stage \in Stages
    BY <1>1, Zenon DEF Stages
  <2> QED
    BY <2>1, StageSet, Zenon
<1>3. /\ next.message \in Messages /\ next.message # NoMessage
      /\ next.message.units = MessageUnits /\ next.message.params = client.params
  <2>1. client.profile_token \in SideTokens /\ client.peer_token \in SideTokens
    BY Zenon DEF SideState
  <2>2. PICK kind \in Kinds, token \in SideTokens : next.message = message(kind, token, client)
    BY <1>1, <2>1, Zenon DEF Kinds
  <2> QED
    BY <2>2, MessageSent
<1>4. CASE client.stage = "New"
  <2>1. Begins(client, server, toClient, toServer)
    BY <1>4, Zenon DEF Progress, Fails, HelloSent, HelloRead, ReplySent, ReplyRead, ConfirmSent,
       ConfirmRead
  <2>2. next.message.kind = "CLIENT_HELLO" /\ next.message.token = client.profile_token
    BY <1>1, <1>4 DEF message
  <2>3. HelloSent(me, server, toClient, next.message)
    BY <1>1, <1>2, <1>3, <1>4, <2>1, <2>2, SecurityAssumption
       DEF Begins, HelloSent, Arriving, Absent
  <2> QED
    BY <1>2, <1>3, <2>3, Zenon DEF Progress
<1>5. CASE client.stage = "HelloSent"
  <2>1. ReplyRead(client, server, toClient, toServer)
    BY <1>1, <1>5, Zenon DEF Progress, Fails, Begins, Absent, HelloSent, HelloRead, ReplySent,
       ConfirmSent, ConfirmRead
  <2>2. next.message.kind = "CLIENT_CONFIRM" /\ next.message.token = client.peer_token
    BY <1>1, <1>5 DEF message
  <2>3. ConfirmSent(me, server, toClient, next.message)
    BY <1>1, <1>2, <1>3, <1>5, <2>1, <2>2, SecurityAssumption
       DEF ReplyRead, ConfirmSent, Arriving, Greeted
  <2> QED
    BY <1>2, <1>3, <2>3, Zenon DEF Progress
<1> QED
  BY <1>1, <1>4, <1>5, Zenon

\* The server writes: its keys are ready, or its greeting.
LEMMA ServerWrites ==
    ASSUME NEW client \in SideState, NEW server \in SideState, NEW toClient, NEW toServer,
           Progress(client, server, toClient, toServer),
           NEW next, next = write_handshake("server", server), next.stage # server.stage,
           NEW me, me = Staged(server, next.stage)
    PROVE  /\ me \in SideState
           /\ next.message = NoMessage => Progress(client, me, toClient, toServer)
           /\ next.message # NoMessage =>
                  next.message \in Messages /\ Progress(client, me, next.message, toServer)
<1>1. \/ /\ server.stage = "New" /\ server.peer_token # "none" /\ next.stage = "ServerKeysReady"
         /\ next.message = NoMessage
      \/ /\ server.stage = "ServerKeysReady" /\ next.stage = "AwaitingConfirm"
         /\ next.message = message("SERVER_HELLO", expected_token(server), server)
  BY Zenon DEF write_handshake
<1>2. /\ me \in SideState /\ me.stage = next.stage
      /\ me.peer_token = server.peer_token /\ me.peer_params = server.peer_params
      /\ me.params = server.params /\ me.input = server.input
  <2>1. next.stage \in Stages
    BY <1>1, Zenon DEF Stages
  <2> QED
    BY <2>1, StageSet, Zenon
<1>3. HelloRead(client, server, toClient, toServer)
  BY <1>1 DEF Progress, Fails, Begins, Absent, HelloSent, ReplySent, ReplyRead, ConfirmSent,
     ConfirmRead
<1>4. CASE server.stage = "New"
  <2>1. HelloRead(client, me, toClient, toServer)
    BY <1>1, <1>2, <1>3, <1>4, Zenon DEF HelloRead, Greeted
  <2> QED
    BY <1>1, <1>2, <1>4, <2>1, Zenon DEF Progress
<1>5. CASE server.stage = "ServerKeysReady"
  <2>1. expected_token(server) = QUICP_PROFILE
    BY <1>3, SecurityAssumption, Zenon DEF HelloRead, Greeted, expected_token
  <2>2. /\ next.message.kind = "SERVER_HELLO" /\ next.message.token = QUICP_PROFILE
        /\ next.message.units = MessageUnits /\ next.message.params = server.params
        /\ next.message \in Messages /\ next.message # NoMessage
    <3>1. expected_token(server) \in SideTokens
      BY <1>3, <2>1, Zenon DEF HelloRead, Greeted, SideState
    <3>2. PICK kind \in Kinds : kind = "SERVER_HELLO"
      BY Zenon DEF Kinds
    <3>3. next.message = message(kind, QUICP_PROFILE, server) /\ QUICP_PROFILE \in SideTokens
      BY <1>1, <1>5, <2>1, <3>1, <3>2, Zenon
    <3> QED
      BY <3>2, <3>3, MessageSent
  <2>3. ReplySent(client, me, next.message, toServer)
    BY <1>1, <1>2, <1>3, <1>5, <2>2, SecurityAssumption DEF HelloRead, ReplySent, Greeted, Arriving
  <2> QED
    BY <1>2, <2>2, <2>3, Zenon DEF Progress
<1> QED
  BY <1>1, <1>4, <1>5, Zenon

\* A fragment taken, a confirmation and a greeting read to the end, and what is left of a
\* message on its way.
Took(me, input) == [me EXCEPT !.input = input]
Confirmed(me) == [me EXCEPT !.input = 0, !.stage = "Established"]
Met(me, incoming) ==
    [me EXCEPT !.input = 0, !.peer_token = incoming.token, !.peer_params = incoming.params]
Left(incoming, units) ==
    IF incoming.units = units THEN NoMessage ELSE [incoming EXCEPT !.units = @ - units]

\* What a fragment leaves alone.
LEMMA SideTook ==
    ASSUME NEW me \in SideState, NEW input \in Amounts
    PROVE  /\ Took(me, input) \in SideState /\ Took(me, input).input = input
           /\ Took(me, input).stage = me.stage /\ Took(me, input).params = me.params
           /\ Took(me, input).profile_token = me.profile_token
           /\ Took(me, input).peer_token = me.peer_token
           /\ Took(me, input).peer_params = me.peer_params
BY Zenon DEF SideState, Took

\* What a confirmation leaves alone.
LEMMA SideConfirmed ==
    ASSUME NEW me \in SideState
    PROVE  /\ Confirmed(me) \in SideState /\ Confirmed(me).stage = "Established"
           /\ Confirmed(me).params = me.params /\ Confirmed(me).peer_token = me.peer_token
           /\ Confirmed(me).peer_params = me.peer_params
<1>1. Confirmed(me) = Staged(Took(me, 0), "Established")
  BY Zenon DEF Confirmed, Staged, Took
<1>2. "Established" \in Stages /\ 0 \in Amounts
  BY DEF Stages, Amounts
<1> QED
  BY <1>1, <1>2, SideTook, StageSet

\* What a greeting leaves alone.
LEMMA SideMet ==
    ASSUME NEW me \in SideState, NEW incoming \in Messages
    PROVE  /\ Met(me, incoming) \in SideState /\ Met(me, incoming).stage = me.stage
           /\ Met(me, incoming).profile_token = me.profile_token
           /\ Met(me, incoming).params = me.params
           /\ Met(me, incoming).peer_token = incoming.token
           /\ Met(me, incoming).peer_params = incoming.params
           /\ Met(me, incoming).input = 0
<1>1. PICK token \in SideTokens, params \in ParamValues :
          token = incoming.token /\ params = incoming.params
  BY Zenon DEF Messages
<1>2. PICK taken \in SideState :
          /\ taken = Took(me, 0) /\ taken.stage = me.stage /\ taken.params = me.params
          /\ taken.profile_token = me.profile_token /\ taken.input = 0
  <2>1. 0 \in Amounts
    BY DEF Amounts
  <2> QED
    BY <2>1, SideTook, Zenon
<1>3. PICK known \in SideState : known = [taken EXCEPT !.peer_token = token]
  BY Zenon DEF SideState
<1>4. /\ known.params = me.params /\ known.profile_token = me.profile_token
      /\ known.stage = me.stage /\ known.input = 0 /\ known.peer_token = token
  BY <1>2, <1>3, Zenon DEF SideState
<1>5. Met(me, incoming) = [known EXCEPT !.peer_params = params]
  BY <1>1, <1>2, <1>3, Zenon DEF Met, Took
<1> QED
  BY <1>1, <1>4, <1>5, Zenon DEF SideState

\* The rest of a message is of the same kind.
LEMMA MessageLeft ==
    ASSUME NEW incoming \in Messages, NEW units \in 1 .. incoming.units - 1
    PROVE  /\ Left(incoming, units) \in Messages
           /\ Left(incoming, units).kind = incoming.kind
           /\ Left(incoming, units).token = incoming.token
           /\ Left(incoming, units).params = incoming.params
           /\ Left(incoming, units).units = incoming.units - units
<1>1. incoming.units \in Int /\ incoming.units # units
  BY DEF Messages
<1>2. PICK rest \in Int : rest = incoming.units - units
  BY <1>1
<1>3. Left(incoming, units) = [incoming EXCEPT !.units = rest]
  BY <1>1, <1>2, Zenon DEF Left
<1> QED
  BY <1>2, <1>3, Zenon DEF Messages

\* The outcomes of read_handshake.
LEMMA ReadOutcomes ==
    ASSUME NEW side, NEW me \in SideState, me.stage # "failed", NEW input \in 1 .. MessageUnits,
           NEW incoming, NEW next, next = read_handshake(side, me, input, incoming),
           next.stage # "failed"
    PROVE  /\ input < MessageUnits => next = Took(me, input)
           /\ input = MessageUnits /\ me.stage = "AwaitingConfirm" => next = Confirmed(me)
           /\ input = MessageUnits /\ me.stage # "AwaitingConfirm" =>
                  next = Met(me, incoming) /\ validate_peer_token(side, me, incoming.token)
<1>1. [me EXCEPT !.stage = "failed"].stage = "failed"
  BY Zenon DEF SideState
<1>2. /\ ~(input = MessageUnits /\ ~validate_peer_token(side, me, incoming.token))
      /\ next = IF input < MessageUnits THEN Took(me, input)
                ELSE IF me.stage = "AwaitingConfirm" THEN Confirmed(me) ELSE Met(me, incoming)
  BY <1>1, Zenon DEF read_handshake, Took, Confirmed, Met
<1> QED
  BY <1>2, SecurityAssumption

\* Whatever a side reads, it stays a side.
LEMMA ReadTyped ==
    ASSUME NEW side, NEW me \in SideState, NEW input \in Amounts, NEW incoming \in Messages
    PROVE  read_handshake(side, me, input, incoming) \in SideState
<1>1. read_handshake(side, me, input, incoming)
          \in {Staged(me, "failed"), Took(me, input), Confirmed(me), Met(me, incoming)}
  BY Zenon DEF read_handshake, Staged, Took, Confirmed, Met
<1>2. "failed" \in Stages
  BY Zenon DEF Stages
<1> QED
  BY <1>1, <1>2, StageSet, SideTook, SideConfirmed, SideMet, SMTT(30)

\* The server's session, which begins with the first fragment.
LEMMA NewTyped ==
    ASSUME server_params \in Params
    PROVE  NewServer \in SideState /\ Absent.stage = "none"
<1>1. Absent \in SideState /\ "New" \in Stages /\ server_params \in ParamValues
  BY DEF Absent, SideState, Stages, SideTokens, ParamValues, Amounts
<1>2. PICK new \in SideState : new = Staged(Absent, "New")
  BY <1>1, StageSet, Zenon
<1>3. NewServer = [new EXCEPT !.params = server_params]
  BY <1>2, Zenon DEF NewServer, Staged
<1> QED
  BY <1>1, <1>3, Zenon DEF SideState, Absent

\* The server reads a fragment, its first included.
LEMMA ServerReads ==
    ASSUME NEW client \in SideState, NEW server \in SideState, NEW toClient,
           NEW toServer \in Lines,
           Progress(client, server, toClient, toServer),
           NEW units \in 1 .. toServer.units, server_params \in Params,
           NEW me, me = IF server = Absent THEN NewServer ELSE server, me.stage # "failed",
           NEW next, next = read_handshake("server", me, me.input + units, toServer),
           next.stage # "failed"
    PROVE  /\ next \in SideState /\ Left(toServer, units) \in Lines
           /\ Progress(client, next, toClient, Left(toServer, units))
<1>1. toServer \in Messages /\ toServer # NoMessage /\ toServer.units \in Int
  BY DEF NoMessage, Messages, Lines
<1>2. server.stage # "failed" /\ me \in SideState
  BY NewTyped, Zenon
<1>3. CASE HelloSent(client, server, toClient, toServer)
  <2>1. /\ me.stage = "New" /\ me.peer_token = "none"
        /\ me.input = MessageUnits - toServer.units /\ toServer.units \in 1 .. MessageUnits
    BY <1>3, Zenon DEF HelloSent, Arriving, NewServer, Absent
  <2>2. me.input + units \in 1 .. MessageUnits
    BY <1>1, <2>1, SecurityAssumption, SMTT(30)
  <2>3. CASE units = toServer.units
    <3>1. next = Met(me, toServer) /\ toServer.token = QUICP_PROFILE
      BY <1>1, <1>2, <2>1, <2>2, <2>3, SecurityAssumption, ReadOutcomes DEF validate_peer_token
    <3>2. Left(toServer, units) = NoMessage
      BY <2>3, Zenon DEF Left
    <3>3. /\ next \in SideState /\ next.stage = "New" /\ next.input = 0
          /\ next.peer_token = toServer.token /\ next.peer_params = toServer.params
      BY <1>1, <1>2, <2>1, <3>1, SideMet
    <3>4. HelloRead(client, next, toClient, NoMessage)
      BY <1>3, <3>1, <3>3, Zenon DEF HelloSent, HelloRead, Arriving, Greeted
    <3> QED
      BY <3>2, <3>3, <3>4, Zenon DEF Progress, Lines
  <2>4. CASE units # toServer.units
    <3>1. units \in 1 .. toServer.units - 1 /\ me.input + units < MessageUnits
      BY <1>1, <2>1, <2>4, SecurityAssumption
    <3>2. next = Took(me, me.input + units)
      BY <1>2, <2>1, <2>2, <3>1, ReadOutcomes
    <3>3. /\ next \in SideState /\ next.stage = "New" /\ next.input = me.input + units
          /\ next.peer_token = "none"
      <4>1. PICK input \in Amounts : input = me.input + units
        BY <2>2 DEF Amounts
      <4>2. next = Took(me, input)
        BY <3>2, <4>1, Zenon
      <4>3. /\ next \in SideState /\ next.input = input /\ next.stage = me.stage
            /\ next.params = me.params /\ next.peer_token = me.peer_token
            /\ next.peer_params = me.peer_params
        BY <1>2, <4>1, <4>2, SideTook
      <4> QED
        BY <2>1, <4>1, <4>3, Zenon
    <3>4. PICK rest \in Messages :
             /\ rest = Left(toServer, units) /\ rest.kind = toServer.kind
             /\ rest.token = toServer.token /\ rest.params = toServer.params
             /\ rest.units = toServer.units - units
      BY <1>1, <3>1, MessageLeft, Zenon
    <3>5. rest.units \in 1 .. MessageUnits /\ next.input = MessageUnits - rest.units
      BY <1>1, <2>1, <3>1, <3>3, <3>4, SecurityAssumption
    <3>6. HelloSent(client, next, toClient, rest)
      BY <1>3, <3>3, <3>4, <3>5, Zenon DEF HelloSent, Arriving
    <3> QED
      BY <3>3, <3>4, <3>6, Zenon DEF Progress, Lines
  <2> QED
    BY <2>3, <2>4, Zenon
<1>4. CASE ConfirmSent(client, server, toClient, toServer)
  <2>1. /\ me = server /\ me.stage = "AwaitingConfirm"
        /\ me.input = MessageUnits - toServer.units /\ toServer.units \in 1 .. MessageUnits
    BY <1>4 DEF ConfirmSent, Arriving, Absent
  <2>2. me.input + units \in 1 .. MessageUnits
    BY <1>1, <2>1, SecurityAssumption
  <2>3. CASE units = toServer.units
    <3>1. next = Confirmed(me)
      BY <1>1, <1>2, <2>1, <2>2, <2>3, SecurityAssumption, ReadOutcomes, SMTT(30)
    <3>2. Left(toServer, units) = NoMessage
      BY <2>3, Zenon DEF Left
    <3>3. /\ next \in SideState /\ next.stage = "Established" /\ next.params = server.params
          /\ next.peer_token = server.peer_token /\ next.peer_params = server.peer_params
      BY <1>1, <1>2, <2>1, <3>1, SideConfirmed
    <3>4. ConfirmRead(client, next, toClient, NoMessage)
      BY <1>4, <3>3, Zenon DEF ConfirmSent, ConfirmRead, Greeted
    <3> QED
      BY <3>2, <3>3, <3>4, Zenon DEF Progress, Lines
  <2>4. CASE units # toServer.units
    <3>1. units \in 1 .. toServer.units - 1 /\ me.input + units < MessageUnits
      BY <1>1, <2>1, <2>4, SecurityAssumption
    <3>2. next = Took(me, me.input + units)
      BY <1>2, <2>1, <2>2, <3>1, ReadOutcomes
    <3>3. /\ next \in SideState /\ next.stage = "AwaitingConfirm"
          /\ next.input = me.input + units /\ next.params = server.params
          /\ next.peer_token = server.peer_token /\ next.peer_params = server.peer_params
      <4>1. PICK input \in Amounts : input = me.input + units
        BY <2>2 DEF Amounts
      <4>2. next = Took(me, input)
        BY <3>2, <4>1, Zenon
      <4>3. /\ next \in SideState /\ next.input = input /\ next.stage = me.stage
            /\ next.params = me.params /\ next.peer_token = me.peer_token
            /\ next.peer_params = me.peer_params
        BY <1>2, <4>1, <4>2, SideTook
      <4> QED
        BY <2>1, <4>1, <4>3, Zenon
    <3>4. PICK rest \in Messages :
             /\ rest = Left(toServer, units) /\ rest.kind = toServer.kind
             /\ rest.token = toServer.token /\ rest.params = toServer.params
             /\ rest.units = toServer.units - units
      BY <1>1, <3>1, MessageLeft, Zenon
    <3>5. rest.units \in 1 .. MessageUnits /\ next.input = MessageUnits - rest.units
      BY <1>1, <2>1, <3>1, <3>3, <3>4, SecurityAssumption
    <3>6. ConfirmSent(client, next, toClient, rest)
      BY <1>4, <3>3, <3>4, <3>5, Zenon DEF ConfirmSent, Arriving, Greeted
    <3> QED
      BY <3>3, <3>4, <3>6, Zenon DEF Progress, Lines
  <2> QED
    BY <2>3, <2>4, Zenon
<1> QED
  BY <1>1, <1>2, <1>3, <1>4, Zenon DEF Progress, Fails, Begins, HelloRead, ReplySent, ReplyRead,
     ConfirmRead

\* The client reads a fragment.
LEMMA ClientReads ==
    ASSUME NEW client \in SideState, NEW server \in SideState, NEW toServer,
           NEW toClient \in Lines,
           Progress(client, server, toClient, toServer),
           NEW units \in 1 .. toClient.units,
           NEW me, me = IF client = Absent THEN NewServer ELSE client, me.stage # "failed",
           NEW next, next = read_handshake("client", me, me.input + units, toClient),
           next.stage # "failed"
    PROVE  /\ next \in SideState /\ Left(toClient, units) \in Lines
           /\ Progress(next, server, Left(toClient, units), toServer)
<1>1. toClient \in Messages /\ toClient # NoMessage /\ toClient.units \in Int
  BY DEF NoMessage, Messages, Lines
<1>2. client.stage # "failed"
  BY DEF Absent, NewServer
<1>3. ReplySent(client, server, toClient, toServer)
  BY <1>1, <1>2, Zenon DEF Progress, Fails, Begins, HelloSent, HelloRead, ReplyRead, ConfirmSent,
     ConfirmRead
<1>4. /\ me = client /\ me.stage = "HelloSent"
      /\ me.input = MessageUnits - toClient.units /\ toClient.units \in 1 .. MessageUnits
  BY <1>3 DEF ReplySent, Arriving, Absent
<1>5. me.input + units \in 1 .. MessageUnits
  BY <1>1, <1>4, SecurityAssumption, SMTT(30)
<1>6. CASE units = toClient.units
  <2>1. next = Met(me, toClient)
    BY <1>1, <1>4, <1>5, <1>6, SecurityAssumption, ReadOutcomes
  <2>2. Left(toClient, units) = NoMessage
    BY <1>6, Zenon DEF Left
  <2>3. /\ next \in SideState /\ next.stage = "HelloSent" /\ next.params = client.params
        /\ next.peer_token = toClient.token /\ next.peer_params = toClient.params
        /\ next.profile_token = client.profile_token
    BY <1>1, <1>4, <2>1, SideMet
  <2>4. ReplyRead(next, server, NoMessage, toServer)
    BY <1>3, <2>3, SecurityAssumption, Zenon DEF ReplySent, ReplyRead, Arriving, Greeted
  <2> QED
    BY <2>2, <2>3, <2>4, Zenon DEF Progress, Lines
<1>7. CASE units # toClient.units
  <2>1. units \in 1 .. toClient.units - 1 /\ me.input + units < MessageUnits
    BY <1>1, <1>4, <1>7, SecurityAssumption
  <2>2. next = Took(me, me.input + units)
    BY <1>4, <1>5, <2>1, ReadOutcomes
  <2>3. /\ next \in SideState /\ next.stage = "HelloSent" /\ next.params = client.params
        /\ next.peer_token = client.peer_token /\ next.profile_token = client.profile_token
        /\ next.input = me.input + units
    <3>1. PICK input \in Amounts : input = me.input + units
      BY <1>5 DEF Amounts
    <3>2. next = Took(me, input)
      BY <2>2, <3>1, Zenon
    <3>3. /\ next \in SideState /\ next.input = input /\ next.stage = me.stage
          /\ next.params = me.params /\ next.peer_token = me.peer_token
          /\ next.profile_token = me.profile_token
      BY <1>4, <3>1, <3>2, SideTook
    <3> QED
      BY <1>4, <3>1, <3>3, Zenon
  <2>4. PICK rest \in Messages :
           /\ rest = Left(toClient, units) /\ rest.kind = toClient.kind
           /\ rest.token = toClient.token /\ rest.params = toClient.params
           /\ rest.units = toClient.units - units
    BY <1>1, <2>1, MessageLeft, Zenon
  <2>5. rest.units \in 1 .. MessageUnits /\ next.input = MessageUnits - rest.units
    BY <1>1, <1>4, <2>1, <2>3, <2>4, SecurityAssumption
  <2>6. ReplySent(next, server, rest, toServer)
    BY <1>3, <2>3, <2>4, <2>5, Zenon DEF ReplySent, Arriving, Greeted
  <2> QED
    BY <2>3, <2>4, <2>6, Zenon DEF Progress, Lines
<1> QED
  BY <1>6, <1>7, Zenon

\* A session in which a step changes nothing.
LEMMA SessionStays ==
    ASSUME SecurityInv, SecurityTyped', NEW s,
           \A other \in Sessions \ {s} : session'[other] = session[other] /\ wire'[other] = wire[other],
           s \in Sessions => Progress(session'[s]["client"], session'[s]["server"],
                                      wire'[s]["client"], wire'[s]["server"])
    PROVE  SecurityInv'
BY Zenon DEF SecurityInv

\* The client begins a session of its own.
LEMMA StartInv ==
    ASSUME SecurityInv, NEW s \in Sessions, NEW token \in ClientTokens, StartClient(s, token)
    PROVE  SecurityInv'
<1>1. PICK begun \in SideState :
         /\ begun = [Absent EXCEPT !.stage = "New", !.profile_token = token, !.params = s,
                                   !.peer_params = remembered]
         /\ begun.stage = "New" /\ begun.peer_token = "none" /\ begun.input = 0
  <2>1. Absent \in SideState /\ "New" \in Stages /\ token \in SideTokens /\ s \in ParamValues
        /\ Absent.peer_token = "none" /\ Absent.input = 0
    BY DEF Absent, SideState, Stages, SideTokens, ParamValues, Amounts
  <2>2. PICK params \in ParamValues : params = remembered
    BY Zenon DEF SecurityInv, SecurityTyped
  <2>3. PICK new \in SideState : /\ new = Staged(Absent, "New") /\ new.stage = "New"
                                 /\ new.peer_token = "none" /\ new.input = 0
    BY <2>1, StageSet
  <2>4. PICK named : named = [new EXCEPT !.profile_token = token]
    BY Zenon
  <2>5. /\ named \in SideState /\ named.stage = "New"
        /\ named.peer_token = "none" /\ named.input = 0
    BY <2>1, <2>3, <2>4, Zenon DEF SideState
  <2>6. PICK own : own = [named EXCEPT !.params = s]
    BY Zenon
  <2>7. own \in SideState /\ own.stage = "New" /\ own.peer_token = "none" /\ own.input = 0
    BY <2>1, <2>5, <2>6, Zenon DEF SideState
  <2>8. PICK all : all = [own EXCEPT !.peer_params = params]
    BY Zenon
  <2>9. all \in SideState /\ all.stage = "New" /\ all.peer_token = "none" /\ all.input = 0
    BY <2>2, <2>7, <2>8, Zenon DEF SideState
  <2> QED
    BY <2>2, <2>3, <2>4, <2>6, <2>8, <2>9, Zenon DEF Staged
<1>2. /\ session' = [session EXCEPT ![s]["client"] = begun] /\ session[s]["client"] = Absent
      /\ UNCHANGED <<wire, remembered, server_params>>
  BY <1>1, Zenon DEF StartClient
<1>3. SecurityTyped'
  BY <1>2, Zenon DEF SecurityInv, SecurityTyped, Sides
<1>4. /\ \A other \in Sessions \ {s} : session'[other] = session[other] /\ wire'[other] = wire[other]
      /\ session'[s]["client"] = begun /\ session'[s]["server"] = session[s]["server"]
      /\ wire'[s] = wire[s]
  BY <1>2, Zenon DEF SecurityInv, SecurityTyped, Sides
<1>5. Begins(Absent, session[s]["server"], wire[s]["client"], wire[s]["server"])
  BY <1>2 DEF SecurityInv, Progress, Fails, Begins, HelloSent, HelloRead, ReplySent, ReplyRead,
     ConfirmSent,
     ConfirmRead, Absent
<1>6. Begins(begun, session[s]["server"], wire[s]["client"], wire[s]["server"])
  BY <1>1, <1>5, Zenon DEF Begins
<1> QED
  BY <1>3, <1>4, <1>6, SessionStays, Zenon DEF Progress

\* The session and the wire of one session change, on the given sides.
LEMMA SessionSet ==
    ASSUME SecurityInv, NEW s \in Sessions, NEW pair \in [Sides -> SideState],
           NEW line \in [Sides -> Lines],
           session' = [session EXCEPT ![s] = pair], wire' = [wire EXCEPT ![s] = line],
           remembered' \in ParamValues, server_params' \in Params,
           Progress(pair["client"], pair["server"], line["client"], line["server"])
    PROVE  SecurityInv'
<1>1. SecurityTyped' /\ session'[s] = pair /\ wire'[s] = line
  BY Zenon DEF SecurityInv, SecurityTyped
<1>2. \A other \in Sessions \ {s} : session'[other] = session[other] /\ wire'[other] = wire[other]
  BY Zenon DEF SecurityInv, SecurityTyped
<1> QED
  BY <1>1, <1>2, SessionStays, Zenon

\* One side of a pair changes.
With(pair, side, value) == [pair EXCEPT ![side] = value]

\* What that leaves alone.
LEMMA PairSet ==
    ASSUME NEW S, NEW pair \in [Sides -> S], NEW value \in S
    PROVE  /\ \A side \in Sides : With(pair, side, value) \in [Sides -> S]
           /\ With(pair, "client", value)["client"] = value
           /\ With(pair, "client", value)["server"] = pair["server"]
           /\ With(pair, "server", value)["server"] = value
           /\ With(pair, "server", value)["client"] = pair["client"]
BY Zenon DEF Sides, With

\* A side writes.
LEMMA WriteInv ==
    ASSUME SecurityInv, NEW s \in Sessions, NEW side \in Sides, Write(s, side)
    PROVE  SecurityInv'
<1>1. /\ session \in [Sessions -> [Sides -> SideState]]
      /\ wire \in [Sessions -> [Sides -> Lines]]
      /\ session[s] \in [Sides -> SideState] /\ wire[s] \in [Sides -> Lines]
      /\ remembered' \in ParamValues /\ server_params' \in Params
  BY Zenon DEF SecurityInv, SecurityTyped, Write
<1>2. PICK me \in SideState : me = session[s][side]
  BY <1>1, Zenon
<1>3. PICK next : next = write_handshake(side, me)
  BY Zenon
<1>4. PICK now : now = Staged(me, next.stage)
  BY Zenon
<1>5. /\ next.stage # me.stage
      /\ session' = [session EXCEPT ![s] = With(session[s], side, now)]
      /\ wire' = IF next.message = NoMessage THEN wire
                 ELSE [wire EXCEPT ![s] = With(wire[s], Other(side), next.message)]
  BY <1>1, <1>2, <1>3, <1>4, Zenon DEF Write, Staged, With
<1>6. Progress(session[s]["client"], session[s]["server"], wire[s]["client"], wire[s]["server"])
  BY Zenon DEF SecurityInv
<1>7. PICK pair : pair = With(session[s], side, now)
  BY Zenon
<1>8. PICK line : line = IF next.message = NoMessage THEN wire[s]
                         ELSE With(wire[s], Other(side), next.message)
  BY Zenon
<1>9. session' = [session EXCEPT ![s] = pair] /\ wire' = [wire EXCEPT ![s] = line]
  BY <1>1, <1>5, <1>7, <1>8, Zenon
<1>a. /\ pair \in [Sides -> SideState] /\ line \in [Sides -> Lines]
      /\ Progress(pair["client"], pair["server"], line["client"], line["server"])
  <2>1. session[s]["client"] \in SideState /\ session[s]["server"] \in SideState
    BY <1>1, Zenon DEF Sides
  <2>2. CASE side = "client"
    <3>1. /\ next.message # NoMessage /\ next.message \in Messages /\ now \in SideState
          /\ Progress(now, session[s]["server"], wire[s]["client"], next.message)
      BY <1>2, <1>3, <1>4, <1>5, <1>6, <2>1, <2>2, ClientWrites
    <3>2. line = With(wire[s], "server", next.message) /\ pair = With(session[s], "client", now)
      BY <1>7, <1>8, <2>2, <3>1, Zenon DEF Other
    <3>3. /\ pair \in [Sides -> SideState]
          /\ pair["client"] = now /\ pair["server"] = session[s]["server"]
      BY <1>1, <3>1, <3>2, PairSet DEF Sides
    <3>4. /\ line \in [Sides -> Lines]
          /\ line["server"] = next.message /\ line["client"] = wire[s]["client"]
      <4>1. next.message \in Lines
        BY <3>1, Zenon DEF Lines
      <4> QED
        BY <1>1, <3>2, <4>1, PairSet DEF Sides
    <3> QED
      BY <3>1, <3>3, <3>4, Zenon
  <2>3. CASE side = "server"
    <3>1. /\ now \in SideState
          /\ next.message = NoMessage =>
                 Progress(session[s]["client"], now, wire[s]["client"], wire[s]["server"])
          /\ next.message # NoMessage =>
                 /\ next.message \in Messages
                 /\ Progress(session[s]["client"], now, next.message, wire[s]["server"])
      BY <1>2, <1>3, <1>4, <1>5, <1>6, <2>1, <2>3, ServerWrites, SMTT(30)
    <3>2. /\ next.message # NoMessage => line = With(wire[s], "client", next.message)
          /\ pair = With(session[s], "server", now)
      BY <1>7, <1>8, <2>3, <3>1, Zenon DEF Other
    <3>3. /\ pair \in [Sides -> SideState]
          /\ pair["server"] = now /\ pair["client"] = session[s]["client"]
      BY <1>1, <3>1, <3>2, PairSet DEF Sides
    <3>4. /\ line \in [Sides -> Lines] /\ line["server"] = wire[s]["server"]
          /\ line["client"] = IF next.message = NoMessage THEN wire[s]["client"] ELSE next.message
      <4>1. CASE next.message = NoMessage
        BY <1>1, <1>8, <4>1, Zenon
      <4>2. CASE next.message # NoMessage
        <5>1. next.message \in Lines
          BY <3>1, <4>2, Zenon DEF Lines
        <5> QED
          BY <1>1, <3>2, <4>2, <5>1, PairSet DEF Sides
      <4> QED
        BY <4>1, <4>2, Zenon
    <3> QED
      BY <3>1, <3>3, <3>4, Zenon
  <2> QED
    BY <2>2, <2>3, Zenon DEF Sides
<1> QED
  BY <1>1, <1>9, <1>a, SessionSet, Zenon

\* A session fails on both sides.
LEMMA FailedPair ==
    ASSUME NEW pair \in [Sides -> SideState],
           NEW failed, failed = [each \in Sides |-> [pair[each] EXCEPT !.stage = "failed"]]
    PROVE  failed \in [Sides -> SideState] /\ Fails(failed["client"], failed["server"])
<1>1. \A each \in Sides : failed[each] = Staged(pair[each], "failed") /\ pair[each] \in SideState
  BY Zenon DEF Staged
<1>2. "failed" \in Stages
  BY Zenon DEF Stages
<1>3. \A each \in Sides : failed[each] \in SideState /\ failed[each].stage = "failed"
  BY <1>1, <1>2, StageSet, SMTT(30)
<1> QED
  BY <1>3, Zenon DEF Fails, Sides

\* A side reads a fragment.
LEMMA ReceiveInv ==
    ASSUME SecurityInv, NEW s \in Sessions, NEW side \in Sides, NEW units, Receive(s, side, units)
    PROVE  SecurityInv'
<1>1. /\ session \in [Sessions -> [Sides -> SideState]]
      /\ wire \in [Sessions -> [Sides -> Lines]]
      /\ session[s] \in [Sides -> SideState] /\ wire[s] \in [Sides -> Lines]
      /\ session[s]["client"] \in SideState /\ session[s]["server"] \in SideState
      /\ wire[s]["client"] \in Lines /\ wire[s]["server"] \in Lines
      /\ server_params \in Params
  BY Zenon DEF SecurityInv, SecurityTyped, Sides
<1>2. PICK incoming \in Lines : incoming = wire[s][side]
  BY <1>1, Zenon
<1>3. PICK me : me = IF session[s][side] = Absent THEN NewServer ELSE session[s][side]
  BY Zenon
<1>4. PICK next : next = read_handshake(side, me, me.input + units, incoming)
  BY Zenon
<1>5. PICK failed : failed = [each \in Sides |-> [session[s][each] EXCEPT !.stage = "failed"]]
  BY Zenon
<1>6. /\ units \in 1 .. incoming.units /\ me.stage # "failed"
      /\ session' = [session EXCEPT ![s] = IF next.stage = "failed" THEN failed
                                           ELSE With(session[s], side, next)]
      /\ wire' = [wire EXCEPT ![s] = With(wire[s], side, Left(incoming, units))]
      /\ remembered' \in {remembered, next.peer_params} /\ server_params' = server_params
  BY <1>1, <1>2, <1>3, <1>4, <1>5, Zenon DEF Receive, With, Left
<1>7. Progress(session[s]["client"], session[s]["server"], wire[s]["client"], wire[s]["server"])
  BY Zenon DEF SecurityInv
<1>8. PICK pair : pair = IF next.stage = "failed" THEN failed ELSE With(session[s], side, next)
  BY Zenon
<1>9. PICK line : line = With(wire[s], side, Left(incoming, units))
  BY Zenon
<1>10. session' = [session EXCEPT ![s] = pair] /\ wire' = [wire EXCEPT ![s] = line]
  BY <1>6, <1>8, <1>9, Zenon
<1>11. incoming \in Messages /\ me \in SideState /\ next \in SideState
  <2>1. incoming \in Messages /\ incoming.units \in Int
    BY <1>2, <1>6 DEF Lines, NoMessage, Messages
  <2>2. me \in SideState
    BY <1>1, <1>3, NewTyped, Zenon
  <2>3. me.input + units \in Amounts
    BY <1>6, <2>1, <2>2 DEF SideState, Amounts
  <2> QED
    BY <1>4, <2>1, <2>2, <2>3, ReadTyped, Zenon
<1>12. remembered' \in ParamValues /\ server_params' \in Params
  BY <1>6, <1>11, Zenon DEF SideState, SecurityInv, SecurityTyped
<1>13. Left(incoming, units) \in Lines
  <2>1. CASE units = incoming.units
    BY <2>1, Zenon DEF Left, Lines
  <2>2. CASE units # incoming.units
    <3>1. units \in 1 .. incoming.units - 1
      BY <1>6, <1>11, <2>2 DEF Messages
    <3> QED
      BY <1>11, <3>1, MessageLeft, Zenon DEF Lines
  <2> QED
    BY <2>1, <2>2, Zenon
<1>14. /\ pair \in [Sides -> SideState] /\ line \in [Sides -> Lines]
       /\ Progress(pair["client"], pair["server"], line["client"], line["server"])
  <2>1. line \in [Sides -> Lines]
    BY <1>1, <1>9, <1>13, PairSet, Zenon
  <2>2. CASE next.stage = "failed"
    BY <1>1, <1>5, <1>8, <2>1, <2>2, FailedPair, Zenon DEF Progress
  <2>3. CASE next.stage # "failed" /\ side = "server"
    <3>1. Progress(session[s]["client"], next, wire[s]["client"], Left(incoming, units))
      BY <1>1, <1>2, <1>3, <1>4, <1>6, <1>7, <2>3, ServerReads, Zenon
    <3>2. /\ pair \in [Sides -> SideState]
          /\ pair["server"] = next /\ pair["client"] = session[s]["client"]
      <4>1. pair = With(session[s], "server", next)
        BY <1>8, <2>3, Zenon
      <4> QED
        BY <1>1, <1>11, <4>1, PairSet DEF Sides
    <3>3. line["server"] = Left(incoming, units) /\ line["client"] = wire[s]["client"]
      <4>1. line = With(wire[s], "server", Left(incoming, units))
        BY <1>9, <2>3, Zenon
      <4> QED
        BY <1>1, <1>13, <4>1, PairSet DEF Sides
    <3> QED
      BY <2>1, <3>1, <3>2, <3>3, Zenon
  <2>4. CASE next.stage # "failed" /\ side = "client"
    <3>1. Progress(next, session[s]["server"], Left(incoming, units), wire[s]["server"])
      BY <1>1, <1>2, <1>3, <1>4, <1>6, <1>7, <2>4, ClientReads, Zenon
    <3>2. /\ pair \in [Sides -> SideState]
          /\ pair["client"] = next /\ pair["server"] = session[s]["server"]
      <4>1. pair = With(session[s], "client", next)
        BY <1>8, <2>4, Zenon
      <4> QED
        BY <1>1, <1>11, <4>1, PairSet DEF Sides
    <3>3. line["client"] = Left(incoming, units) /\ line["server"] = wire[s]["server"]
      <4>1. line = With(wire[s], "client", Left(incoming, units))
        BY <1>9, <2>4, Zenon
      <4> QED
        BY <1>1, <1>13, <4>1, PairSet DEF Sides
    <3> QED
      BY <2>1, <3>1, <3>2, <3>3, Zenon
  <2> QED
    BY <2>2, <2>3, <2>4, Zenon DEF Sides
<1> QED
  BY <1>10, <1>12, <1>14, SessionSet, Zenon

(***************************************************************************)
(* What the two sides of a handshake agree on, for any number of sessions, *)
(* tokens and parameters, any fragments and any restarts of the server     *)
(* (write_handshake, read_handshake and validate_peer_token in             *)
(* no_security.rs).                                                        *)
(***************************************************************************)
THEOREM SidesAgree == SecuritySpec => []HandshakeAgrees
<1>1. SecurityInit => SecurityInv
  <2> SUFFICES ASSUME SecurityInit PROVE SecurityInv
    BY Zenon
  <2>1. Absent \in SideState /\ NoMessage \in Lines /\ Absent.peer_token = "none" /\ Absent.input = 0
    BY DEF Absent, SideState, Stages, SideTokens, ParamValues, Amounts, Lines
  <2>2. SecurityTyped
    BY <2>1, Zenon DEF SecurityInit, SecurityTyped, ParamValues
  <2>3. \A s \in Sessions : Begins(session[s]["client"], session[s]["server"],
                                   wire[s]["client"], wire[s]["server"])
    BY <2>1, Zenon DEF SecurityInit, Begins, Sides
  <2> QED
    BY <2>2, <2>3, Zenon DEF SecurityInv, Progress
<1>2. SecurityInv /\ [SecurityNext]_securityVars => SecurityInv'
  <2> SUFFICES ASSUME SecurityInv, [SecurityNext]_securityVars PROVE SecurityInv'
    BY Zenon
  <2>1. CASE UNCHANGED securityVars
    BY <2>1, Zenon DEF securityVars, SecurityInv, SecurityTyped
  <2>2. ASSUME NEW params \in Params, RestartedServer(params) PROVE SecurityInv'
    BY <2>2, Zenon DEF RestartedServer, SecurityInv, SecurityTyped
  <2>3. CASE SecuritySteps
    BY <2>3, WriteInv, ReceiveInv, Zenon DEF SecuritySteps, SecurityStep
  <2> QED
    BY <2>1, <2>2, <2>3, StartInv, Zenon DEF SecurityNext
<1>3. SecurityInv => HandshakeAgrees
  <2> SUFFICES ASSUME SecurityInv, NEW s \in Sessions, NEW client, client = session[s]["client"],
                      NEW server, server = session[s]["server"]
               PROVE  /\ client.stage = "Established" =>
                             /\ client.peer_params = server.params
                             /\ server.stage \in {"AwaitingConfirm", "Established"}
                      /\ server.stage = "Established" => client.stage = "Established"
                      /\ handshake_data(server) =>
                             server.peer_params = client.params /\ client.profile_token = QUICP_PROFILE
    BY Zenon DEF HandshakeAgrees
  <2>1. Progress(client, server, wire[s]["client"], wire[s]["server"])
    BY Zenon DEF SecurityInv
  <2> QED
    BY <2>1 DEF Progress, Fails, Begins, HelloSent, HelloRead, ReplySent, ReplyRead, ConfirmSent,
       ConfirmRead, Greeted, handshake_data, Absent
<1> QED
  BY <1>1, <1>2, <1>3, PTL DEF SecuritySpec
=============================================================================
