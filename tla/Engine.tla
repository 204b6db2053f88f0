------------------------------- MODULE Engine -------------------------------
(***************************************************************************)
(* The C interface (ffi.rs): engines of one process, each with one         *)
(* connection, at most one OPEN of its own and one OPEN of the peer under  *)
(* way, and flows the application reaches by handles.  An operation that   *)
(* takes time is started by one call, runs as a task of the engine's       *)
(* runtime while the owner drives it, and is reported by a later call.     *)
(*                                                                         *)
(* Calls on one engine are serialized by its owner.  A call that is        *)
(* refused or finds its operation pending changes nothing and is no step.  *)
(* A runtime refuses to spawn only after its shutdown, which is the end of *)
(* its engine, so no call meets that refusal.                              *)
(***************************************************************************)
EXTENDS Integers, Sequences, SequencesExt, FiniteSets

CONSTANTS
    Clients, Servers,   \* the engines, by role
    Operations,         \* the inputs of an OPEN: host, port, and token with initial data
    PanicTasks,         \* the tasks that may panic
    MaxFlows,           \* bounds the flows of the process
    MaxRequests         \* bounds the incoming requests

Engines == Clients \cup Servers
Handles == 1 .. MaxFlows
Flows == 1 .. MaxFlows      \* a flow's identity, in the order they come to exist

VARIABLES
    owner,          \* the engines the application still owns
    connection,     \* what the engine knows of its connection
    ended,           \* the engines whose connection is closed
    open,           \* the OPEN of a client: its stage, inputs and flow handle
    accept,         \* the OPEN a server is asked to decide
    flows,          \* the slots: a handle and at most one flow
    policy,         \* the servers with replay admission installed
    tasks,          \* the tasks of each engine's runtime
    next,           \* NEXT_FLOW_HANDLE, NEXT_REQUEST_HANDLE
    born,           \* flows that have come to exist
    given,          \* the flows the application was given, with their handles
    closed          \* the handles it has closed

engineVars == <<owner, connection, ended, open, accept, flows, policy, tasks, next, born,
                given, closed>>

IdleOpen == [stage |-> "Idle"]
IdleAccept == [stage |-> "Idle"]

EngineInit ==
    /\ owner = Engines
    /\ connection = [e \in Engines |-> "Connecting"]
    /\ ended = {}
    /\ open = [e \in Engines |-> IdleOpen]
    /\ accept = [e \in Engines |-> IdleAccept]
    /\ flows = [e \in Engines |-> <<>>]
    /\ policy = {}
    /\ tasks = [e \in Engines |-> {"connect", "driver"}]
    /\ next = [flow |-> 1, request |-> 1]
    /\ born = 0
    /\ given = {}
    /\ closed = {}

\* A connection on which a call may start an operation.
Usable(e) == connection[e] = "Ready" /\ e \notin ended

Spawn(e, task) == tasks' = [tasks EXCEPT ![e] = @ \cup {task}]
Ends(e, task) == task \in tasks[e] /\ tasks' = [tasks EXCEPT ![e] = @ \ {task}]

\* start: the task that connects, or accepts and completes a handshake.
ConnectEnds(e) ==
    /\ Ends(e, "connect")
    /\ connection' \in {[connection EXCEPT ![e] = end] : end \in {"Ready", "Failed"}}
    /\ ended' = ended
    /\ UNCHANGED <<owner, open, accept, flows, policy, next, born, given, closed>>

-----------------------------------------------------------------------------
(* The flows and their handles.                                            *)

FreeSlot(slots) == SelectInSeq(slots, LAMBDA slot : slot.flow = {})

\* Bug: a slot that is used again keeps its handle.
InsertedUnderOldHandle(slots, handle, flow) ==
    LET free == FreeSlot(slots)
    IN  IF free # 0 THEN [slots EXCEPT ![free].flow = {flow}]
        ELSE Append(slots, [handle |-> handle, flow |-> {flow}])

\* insert_flow, of a flow that has just come to exist.
Inserted(slots, handle, flow) ==
    LET free == FreeSlot(slots)
        slot == [handle |-> handle, flow |-> {flow}]
    IN  IF free # 0 THEN [slots EXCEPT ![free] = slot] ELSE Append(slots, slot)

InsertFlow(e) ==
    /\ born < MaxFlows
    /\ born' = born + 1
    /\ next' = [next EXCEPT !.flow = @ + 1]
    /\ flows' = [flows EXCEPT ![e] = Inserted(@, next.flow, born + 1)]

\* The slot of a handle, which is none for a handle the engine never had or reused.
SlotOf(e, handle) == SelectInSeq(flows[e], LAMBDA slot : slot.handle = handle)

\* flow_mut: the flow a handle leads to, as a set of at most one.
FlowOf(e, handle) ==
    IF SlotOf(e, handle) = 0 THEN {} ELSE flows[e][SlotOf(e, handle)].flow

\* What flow_read, flow_write, flow_flush and flow_shutdown poll; without a flow they
\* answer Closed.  What they do to the flow is FlowSend's and FlowReceive's.
FlowCall(e, handle) == IF e \in owner THEN FlowOf(e, handle) ELSE {}

\* flow_close: remove_flow, then a reset of what was there.
FlowClose(e, handle) ==
    /\ e \in owner
    /\ FlowOf(e, handle) # {}
    /\ flows' = [flows EXCEPT ![e][SlotOf(e, handle)].flow = {}]
    /\ closed' = closed \cup {handle}
    /\ UNCHANGED <<owner, connection, ended, open, accept, policy, tasks, next, born, given>>

\* A call returns a handle to the application, which now holds its flow.
Give(e, handle) ==
    given' = given \cup {[engine |-> e, handle |-> handle, flow |-> flow] : flow \in FlowOf(e, handle)}

-----------------------------------------------------------------------------
(* The OPEN of a client.                                                   *)

\* open_matches
OpenMatches(active, operation) == active.operation = operation

\* poll_open on an idle engine: the inputs are kept and a task is spawned.
OpenFlow(e, operation) ==
    /\ e \in owner \cap Clients
    /\ open[e].stage = "Idle"
    /\ Usable(e)
    /\ open' = [open EXCEPT ![e] = [stage |-> "Pending", operation |-> operation]]
    /\ Spawn(e, "open")
    /\ UNCHANGED <<owner, connection, ended, accept, flows, policy, next, born, given, closed>>

\* The task's end: the flow is put in a slot before its handle can be polled.
OpenEnds(e) ==
    /\ Ends(e, "open")
    /\ LET operation == open[e].operation
       IN  \/ /\ InsertFlow(e)
              /\ open' = [open EXCEPT ![e] = [stage |-> "Ready", operation |-> operation,
                                              handle |-> next.flow]]
           \/ /\ open' = [open EXCEPT ![e] = [stage |-> "Failed", operation |-> operation]]
              /\ UNCHANGED <<flows, next, born>>
    /\ UNCHANGED <<owner, connection, ended, accept, policy, given, closed>>

\* Bug: the OPEN is idle again before its handle was returned.
PollOpenForgets(e) ==
    /\ open[e].stage \in {"Ready", "Failed"}
    /\ open' = [open EXCEPT ![e] = IdleOpen]
    /\ given' = given

\* OpenState::poll, of an outcome.
PollOpen(e) ==
    /\ open[e].stage \in {"Ready", "Failed"}
    /\ open' = [open EXCEPT ![e] = IdleOpen]
    /\ IF open[e].stage = "Ready" THEN Give(e, open[e].handle) ELSE given' = given

\* poll_open_flow
PollOpenFlow(e) ==
    /\ e \in owner \cap Clients
    /\ PollOpen(e)
    /\ UNCHANGED <<owner, connection, ended, accept, flows, policy, tasks, next, born, closed>>

\* open_flow or open_replay_safe_flow, called again with the inputs of the OPEN under way.
RepeatOpenFlow(e, operation) ==
    /\ e \in owner \cap Clients
    /\ open[e].stage # "Idle"
    /\ OpenMatches(open[e], operation)
    /\ PollOpen(e)
    /\ UNCHANGED <<owner, connection, ended, accept, flows, policy, tasks, next, born, closed>>

-----------------------------------------------------------------------------
(* The OPEN of the peer, at a server.                                      *)

SetAccept(e, state) == accept' = [accept EXCEPT ![e] = state]

\* configure_replay_admission: once.
Configure(e) ==
    /\ e \in (owner \cap Servers) \ policy
    /\ policy' = policy \cup {e}
    /\ UNCHANGED <<owner, connection, ended, open, accept, flows, tasks, next, born, given, closed>>

\* The two calls a server may make for the peer's OPEN; the replay-safe one needs an
\* admission policy.
MayRequest(e, replay) ==
    /\ e \in owner \cap Servers
    /\ replay => e \in policy

\* poll_flow_request and poll_replay_safe_flow_request on an idle engine.  An offer
\* that is already there is copied out and stays.
PollRequest(e, replay) ==
    /\ MayRequest(e, replay)
    /\ accept[e].stage = "Idle"
    /\ Usable(e)
    /\ SetAccept(e, [stage |-> "Receiving", replay |-> replay])
    /\ Spawn(e, "receive")
    /\ UNCHANGED <<owner, connection, ended, open, flows, policy, next, born, given, closed>>

\* The task's end.
ReceiveEnds(e) ==
    /\ Ends(e, "receive")
    /\ \/ /\ next.request <= MaxRequests
          /\ SetAccept(e, [stage |-> "Offered", replay |-> accept[e].replay,
                           request |-> next.request])
          /\ next' = [next EXCEPT !.request = @ + 1]
       \/ /\ SetAccept(e, [stage |-> "ReceiveFailed", replay |-> accept[e].replay])
          /\ next' = next
    /\ UNCHANGED <<owner, connection, ended, open, flows, policy, born, given, closed>>

\* The failure is reported to a poll of the same kind.
PollReceiveFailed(e, replay) ==
    /\ MayRequest(e, replay)
    /\ accept[e].stage = "ReceiveFailed"
    /\ accept[e].replay = replay
    /\ SetAccept(e, IdleAccept)
    /\ UNCHANGED <<owner, connection, ended, open, flows, policy, tasks, next, born, given, closed>>

\* accept_pending_flow and reject_pending_flow are calls of a server.
MayDecide(e) == e \in owner \cap Servers

\* poll_flow_decision on the request that is offered: the decision cannot be taken back.
Decide(e, request, accepts) ==
    /\ MayDecide(e)
    /\ accept[e].stage = "Offered"
    /\ accept[e].request = request
    /\ SetAccept(e, [stage |-> "Resolving", request |-> request, accepts |-> accepts])
    /\ Spawn(e, "resolve")
    /\ UNCHANGED <<owner, connection, ended, open, flows, policy, next, born, given, closed>>

\* The task's end.
ResolveEnds(e) ==
    /\ Ends(e, "resolve")
    /\ LET request == accept[e].request
       IN  \/ /\ accept[e].accepts
              /\ InsertFlow(e)
              /\ SetAccept(e, [stage |-> "Accepted", request |-> request, handle |-> next.flow])
           \/ /\ ~accept[e].accepts
              /\ SetAccept(e, [stage |-> "Rejected", request |-> request])
              /\ UNCHANGED <<flows, next, born>>
           \/ /\ SetAccept(e, [stage |-> "ResolveFailed", request |-> request])
              /\ UNCHANGED <<flows, next, born>>
    /\ UNCHANGED <<owner, connection, ended, open, policy, given, closed>>

\* The stages in which a call with the same decision reports the outcome.
ReportedBy(accepts) == {"ResolveFailed", IF accepts THEN "Accepted" ELSE "Rejected"}

\* accept_pending_flow and reject_pending_flow, called again.
PollDecision(e, request, accepts) ==
    /\ MayDecide(e)
    /\ accept[e].stage \in ReportedBy(accepts)
    /\ accept[e].request = request
    /\ IF accept[e].stage = "Accepted" THEN Give(e, accept[e].handle) ELSE given' = given
    /\ SetAccept(e, IdleAccept)
    /\ UNCHANGED <<owner, connection, ended, open, flows, policy, tasks, next, born, closed>>

-----------------------------------------------------------------------------
(* What ends an engine's connection, and the engine.                       *)

\* The connection is closed by the peer or by a timeout.
Lost(e) ==
    /\ Usable(e)
    /\ ended' = ended \cup {e}
    /\ UNCHANGED <<owner, connection, open, accept, flows, policy, tasks, next, born, given, closed>>

\* Bug: the connection is not closed.
PanickedStaysOpen(e, task) ==
    /\ e \in owner
    /\ task \in PanicTasks
    /\ Ends(e, task)
    /\ connection' = [connection EXCEPT ![e] = "Failed"]
    /\ UNCHANGED <<owner, ended, open, accept, flows, policy, next, born, given, closed>>

\* drive, when a task panics: the runtime has dropped the task, and the connection is closed.
Panicked(e, task) ==
    /\ e \in owner
    /\ task \in PanicTasks
    /\ Ends(e, task)
    /\ ended' = IF connection[e] = "Ready" THEN ended \cup {e} ELSE ended
    /\ connection' = [connection EXCEPT ![e] = "Failed"]
    /\ UNCHANGED <<owner, open, accept, flows, policy, next, born, given, closed>>

\* engine_close: Drop closes the connection, drops the flows and shuts the runtime down,
\* which drops the tasks; nothing of the engine is left.
EngineClose(e) ==
    /\ e \in owner
    /\ owner' = owner \ {e}
    /\ connection' = [connection EXCEPT ![e] = "Failed"]
    /\ ended' = ended \cup {e}
    /\ flows' = [flows EXCEPT ![e] = <<>>]
    /\ tasks' = [tasks EXCEPT ![e] = {}]
    /\ open' = [open EXCEPT ![e] = IdleOpen]
    /\ SetAccept(e, IdleAccept)
    /\ policy' = policy \ {e}
    /\ UNCHANGED <<next, born, given, closed>>

\* The steps of an engine's tasks.
TaskEnds(e) == ConnectEnds(e) \/ OpenEnds(e) \/ ReceiveEnds(e) \/ ResolveEnds(e)

\* The calls that report an outcome.
Polls(e) ==
    \/ PollOpenFlow(e)
    \/ \E operation \in Operations : RepeatOpenFlow(e, operation)
    \/ \E replay \in BOOLEAN : PollReceiveFailed(e, replay)
    \/ \E request \in 1 .. MaxRequests, accepts \in BOOLEAN : PollDecision(e, request, accepts)

EngineNext ==
    \E e \in Engines :
        \/ TaskEnds(e)
        \/ Polls(e)
        \/ \E operation \in Operations : OpenFlow(e, operation)
        \/ Configure(e)
        \/ \E replay \in BOOLEAN : PollRequest(e, replay)
        \/ \E request \in 1 .. MaxRequests, accepts \in BOOLEAN : Decide(e, request, accepts)
        \/ \E handle \in {flow.handle : flow \in given} : FlowClose(e, handle)
        \/ Lost(e)
        \/ \E task \in PanicTasks : Panicked(e, task)
        \/ EngineClose(e)

\* A step of an engine whose connection is closed, on which no operation starts any more.
EndedStep == \E e \in ended : TaskEnds(e)

\* The owner keeps driving, and an operation on a connection that is closed ends: each of
\* them waits on something the close of the connection completes.  On a live connection an
\* operation may wait for the peer for ever.
EngineFairness ==
    WF_engineVars(EndedStep)

EngineSpec == EngineInit /\ [][EngineNext]_engineVars /\ EngineFairness

-----------------------------------------------------------------------------
\* The handle of an outcome not yet reported.
Unclaimed(e) ==
    {open[e].handle : stage \in {open[e].stage} \cap {"Ready"}}
    \cup {accept[e].handle : stage \in {accept[e].stage} \cap {"Accepted"}}

\* What the application holds: it was given the flow's handle and has not closed it.
Held == {flow \in given : flow.engine \in owner /\ flow.handle \notin closed}

\* A call on a flow acts on the flow its handle was given for, whatever engine it names and
\* whatever slots were freed and reused since (flow_mut, insert_flow): a handle that was
\* closed or is of another engine reaches nothing, and one that is held reaches its flow.
HandleReaches ==
    \A flow \in given, e \in owner :
        FlowCall(e, flow.handle) = IF flow \in Held /\ flow.engine = e THEN {flow.flow} ELSE {}

\* No flow is out of reach: the application holds its handle, or the outcome that carries
\* the handle is still there to be polled (poll_open_flow, accept_pending_flow), not both.
FlowsClaimed ==
    \A e \in owner :
        LET holds == {flow.handle : flow \in {held \in Held : held.engine = e}}
            slots == {i \in DOMAIN flows[e] : flows[e][i].flow # {}}
        IN  /\ holds \cap Unclaimed(e) = {}
            /\ {flows[e][i].handle : i \in slots} = holds \cup Unclaimed(e)
            /\ Cardinality(slots) = Cardinality(holds \cup Unclaimed(e))

UnderWay(e) == open[e].stage = "Pending" \/ accept[e].stage \in {"Receiving", "Resolving"}

\* Once the connection is over, an operation under way gets its outcome, whether the peer
\* closed it or the owner's drive met a panic.
Settles == []<>(\A e \in owner : e \in ended \/ connection[e] = "Failed" => ~UnderWay(e))
=============================================================================
