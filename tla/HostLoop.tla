------------------------------ MODULE HostLoop ------------------------------
(***************************************************************************)
(* An endpoint whose packets, clock and processor time come from a host:   *)
(* its tasks run on a HostRuntime and use a HostDatagramSocket.  The host  *)
(* has one thread that drives and one that moves packets.                  *)
(***************************************************************************)
EXTENDS HostCarrier

CONSTANT Events     \* which of "panic", "shutdown" and "unavailable" may happen

vars == <<runtimeVars, carrierVars>>

Init == RuntimeInit /\ CarrierInit

\* A step of the runtime, between the steps of the carrier.
Runtime(A) == A /\ UNCHANGED carrierVars

\* A step of the runtime by a task, at the given place of its poll.
InPoll(t, from, to, A) ==
    /\ Polls(t) /\ call \in from /\ call' = to
    /\ A
    /\ UNCHANGED <<ringVars, wakerVars, unavailable, host, blocked>>

WakesItself(t) == Wake({t}) /\ UNCHANGED <<clock, timerVars, future, stopped, driveVars>>

\* One poll of the endpoint's task (noq): it receives, and wakes itself for more.
Endpoint ==
    \/ ReceiverCalls
    \/ InPoll(Receiver, {"ready"}, "ends", WakesItself(Receiver))
    \/ InPoll(Receiver, {"pending", "ends"}, "none", Pending(Receiver))

\* One poll of a connection's task (noq): it sends the packet its last poll left over,
\* or a new one, or none; then it sets its timer, or has none, and polls it; a timer
\* that is due is handled and the task wakes itself for what follows.
Connection(t) ==
    \/ SenderCalls(t)
    \/ t \notin blocked /\ InPoll(t, {"none"}, "none", Completes(t))
    \/ t \notin blocked /\ InPoll(t, {"none"}, "ready", UNCHANGED runtimeVars)
    \/ \E time \in Times : InPoll(t, {"ready", "pending"}, "times", ResetTimer(t, time))
    \/ InPoll(t, {"times"}, "ends", PollTimer(t))
    \/ clock >= deadline[t] /\ InPoll(t, {"times"}, "ends", WakesItself(t))
    \/ InPoll(t, {"ready", "pending", "ends"}, "none", Pending(t))

Executor ==
    \/ Runtime(WakeDueTimers) \/ Runtime(PopReady) \/ Runtime(DriveEnds)
    \/ Runtime(ClearReady) \/ Runtime(DropTasks)
    \/ Endpoint \/ \E t \in Senders : Connection(t)

\* The application, or the endpoint on behalf of the peer, wakes a connection.
AppWakes(t) == future[t] = "live" /\ ~stopped /\ WakesItself(t) /\ UNCHANGED carrierVars

HostCalls ==
    \/ \E elapsed \in Times : Runtime(Drive(elapsed))
    \/ Ingress \/ Egress
    \/ "unavailable" \in Events /\ MarkUnavailable
    \/ "shutdown" \in Events /\ Runtime(Shutdown)

Next ==
    \/ \E t \in Tasks : Runtime(Spawn(t)) \/ Runtime(Schedule(t))
    \/ \E t \in Senders :
         \/ AppWakes(t)
         \/ "panic" \in Events /\ InPoll(t, {"none"}, "none", Panics(t))
    \/ Executor \/ HostThread \/ HostCalls

Spec == Init /\ [][Next]_vars

\* The earliest deadline next_timer reports.
NextTimer == {time \in Times : \E t \in armed : deadline[t] <= time}

(***************************************************************************)
(* The host drives when it was told to, when a drive failed, and at the    *)
(* time next_timer names; and its threads run.  It need not move packets.  *)
(***************************************************************************)
Fairness ==
    /\ WF_vars(Executor) /\ WF_vars(HostThread)
    /\ \A t \in Tasks : WF_vars(Runtime(Schedule(t)))
    /\ WF_vars((notified \/ failed) /\ \E elapsed \in Times : Runtime(Drive(elapsed)))
    /\ WF_vars(\E elapsed \in NextTimer : Runtime(Drive(elapsed)))

FairSpec == Spec /\ Fairness
-----------------------------------------------------------------------------
\* A task that a call left Pending will hear of what it waits for: its waker is still
\* registered, or it was woken; and if there is something to receive, or room to send, or
\* the path is gone, the host's thread has yet to take the waker.
NoLostWakeup ==
    \A t \in blocked \ woken :
        future[t] = "live" /\ ~Polls(t) =>
            IF t = Receiver
            THEN /\ recv_waker = t
                 /\ ingress.queued > 0 => host = "wakes receiver"
                 /\ unavailable => host = "marked"
            ELSE /\ send_waker = t
                 /\ egress.free > 0 => host = "wakes sender"
                 /\ unavailable => host \in {"marked", "marked receiver"}

\* No deadline passes unseen: a timer that holds a waker is not due, except while the
\* drive that advanced the clock has yet to look at the timers.
NoTimerMissed ==
    driver # "timers" => \A t \in armed : future[t] = "live" /\ clock < deadline[t]

\* Once shutdown has returned, nothing is left to run: no task is queued, and every
\* future was dropped, the one spawned at the last moment included.
ShutdownReleases ==
    stopped /\ driver = "idle" =>
        ready = <<>> /\ armed = {} /\ \A t \in Tasks : future[t] # "live"

\* Every task that was woken is polled, however few tasks one drive may poll, although
\* the host drives only when it was told to.
WokenPolled == \A t \in Tasks : []<>(t \notin woken \/ stopped)
=============================================================================
