--------------------------- MODULE HostLoopProofs ---------------------------
(***************************************************************************)
(* Proofs about the endpoint that a host drives, for any number of tasks,  *)
(* any bounds on a drive and on the clock, any ring capacity and any of    *)
(* the events: no deadline passes unseen, shutdown leaves nothing to run,  *)
(* and, with one connection on the socket, no task waits for something     *)
(* that is there already.                                                  *)
(*                                                                         *)
(* A task may hear of a packet, of room or of the path's end in the middle *)
(* of the call that is about to wait for it.  The invariant therefore says *)
(* what holds at each place of that call: from the registration of the     *)
(* waker on, the waker is there or was called; from the second look on,    *)
(* whatever has come since is announced by the host's thread.              *)
(***************************************************************************)
EXTENDS HostLoop, TLAPS

RuntimeTyped ==
    /\ clock \in Nat /\ ready \in Seq(Tasks) /\ scheduling \subseteq Tasks
    /\ future \in [Tasks -> {"new", "live", "dropped"}]
    /\ deadline \in [Tasks -> Nat] /\ armed \subseteq Tasks
    /\ stopped \in BOOLEAN /\ current \in Tasks \cup {NoTask}
    /\ driver \in {"idle", "timers", "runs", "polls", "clears", "drops"}

Ring == [queued : Int, free : Int]

SocketTyped ==
    /\ ingress \in Ring /\ egress \in Ring
    /\ recv_waker \in {Receiver, NoTask} /\ send_waker \in Senders \cup {NoTask}
    /\ blocked \subseteq {Receiver} \cup Senders

\* Where drive and shutdown are, and what is live then.
Phases ==
    /\ driver = "polls" <=> current # NoTask
    /\ driver = "polls" => future[current] = "live"
    /\ driver # "polls" => call = "none"
    /\ driver \in {"timers", "runs", "polls"} => ~stopped
    /\ driver \in {"clears", "drops"} => stopped
    /\ driver = "drops" \/ (stopped /\ driver = "idle") => ready = <<>>
    /\ stopped /\ driver = "idle" => \A t \in Tasks : future[t] # "live"

\* The timers that hold a waker are of live tasks.
Timers ==
    /\ \A t \in armed : future[t] = "live"
    /\ driver # "timers" => \A t \in armed : clock < deadline[t]

DriveInv == RuntimeTyped /\ SocketTyped /\ Phases /\ Timers

\* The waker of a task is where the host's thread will find it.
Registered(t) == IF t = Receiver THEN recv_waker = t ELSE send_waker = t

\* What the task waits for is not there, or the host's thread is about to say that it is.
Announced(t) ==
    IF t = Receiver THEN ingress.queued > 0 => host = "wakes receiver"
                    ELSE egress.free > 0 => host = "wakes sender"

\* The same of the end of the path.
EndAnnounced(t) ==
    unavailable => IF t = Receiver THEN host = "marked" ELSE host \in {"marked", "marked receiver"}

\* The places of a poll at which a call may have returned Pending.
Waiting == {"pending", "times", "ends"}

\* What holds of a task that has not been woken, at each place of its call.
Awaits(t) ==
    IF Polls(t)
    THEN /\ call \in {"looks again", "last"} => Registered(t)
         /\ call = "last" => Announced(t)
         /\ call \in Waiting /\ t \in blocked => Registered(t) /\ Announced(t) /\ EndAnnounced(t)
         /\ call = "ready" => t \notin blocked
    ELSE t \in blocked /\ future[t] = "live" => Registered(t) /\ Announced(t) /\ EndAnnounced(t)

WakeInv == \A t \in Tasks \ woken : Awaits(t)
-----------------------------------------------------------------------------
(***************************************************************************)
(* The runtime.                                                            *)
(***************************************************************************)
\* The steps of the runtime that are no part of a poll.
ExecutorStep ==
    \/ \E t \in Tasks : Spawn(t) \/ Schedule(t)
    \/ \E elapsed \in Times : Drive(elapsed)
    \/ WakeDueTimers \/ PopReady \/ DriveEnds
    \/ Shutdown \/ ClearReady \/ DropTasks

HostStepAny == HostThread \/ Ingress \/ Egress \/ MarkUnavailable

SocketTasks == {Receiver} \cup Senders

SocketCall(t) == (t = Receiver /\ ReceiverCalls) \/ (t \in Senders /\ SenderCalls(t))

\* What a task does in its poll besides: it goes on without a call, wakes itself, sets its
\* timer or polls it, or returns.
PollStep(t) ==
    /\ Polls(t) /\ UNCHANGED <<ringVars, wakerVars, unavailable, host, blocked>>
    /\ \/ call = "none" /\ call' = "ready" /\ t \notin blocked /\ UNCHANGED runtimeVars
       \/ /\ call \in {"ready"} \cup Waiting /\ call' \in Waiting
          /\ WakesItself(t) \/ PollTimer(t) \/ \E time \in Times : ResetTimer(t, time)
       \/ call \in {"ready"} \cup Waiting /\ call' = "none" /\ Pending(t)

PollEnds(t) ==
    /\ call' = "none" /\ UNCHANGED <<ringVars, wakerVars, unavailable, host, blocked>>
    /\ Completes(t) \/ Panics(t)

\* Every step is one of these.
LEMMA NextSteps ==
    ASSUME Next
    PROVE  \/ ExecutorStep /\ UNCHANGED carrierVars
           \/ HostStepAny
           \/ \E t \in SocketTasks : SocketCall(t) \/ PollStep(t) \/ PollEnds(t)
           \/ \E t \in Senders : AppWakes(t)
<1>1. ASSUME Endpoint PROVE SocketCall(Receiver) \/ PollStep(Receiver)
  BY <1>1, Zenon DEF Endpoint, SocketCall, PollStep, InPoll, Waiting
<1>2. ASSUME NEW t \in Senders, Connection(t) PROVE SocketCall(t) \/ PollStep(t) \/ PollEnds(t)
  BY <1>2, Zenon DEF Connection, SocketCall, PollStep, PollEnds, InPoll, Waiting
<1>3. ASSUME NEW t \in Senders, InPoll(t, {"none"}, "none", Panics(t)) PROVE PollEnds(t)
  BY <1>3, Zenon DEF PollEnds, InPoll
<1>4. ASSUME Executor
      PROVE  \/ ExecutorStep /\ UNCHANGED carrierVars
             \/ \E t \in SocketTasks : SocketCall(t) \/ PollStep(t) \/ PollEnds(t)
  BY <1>1, <1>2, <1>4, Zenon DEF Executor, ExecutorStep, Runtime, SocketTasks
<1>5. ASSUME HostCalls PROVE (ExecutorStep /\ UNCHANGED carrierVars) \/ HostStepAny
  BY <1>5, Zenon DEF HostCalls, ExecutorStep, HostStepAny, Runtime
<1> QED
  BY <1>3, <1>4, <1>5, Zenon DEF Next, Runtime, ExecutorStep, HostStepAny, SocketTasks

\* A fresh runtime with a fresh socket.
LEMMA DriveInit ==
    Init => DriveInv
<1> SUFFICES ASSUME Init PROVE DriveInv
  BY Zenon
<1> USE CarrierAssumption, RuntimeAssumption DEF Init, RuntimeInit, CarrierInit
<1>1. RuntimeTyped
  <2>1. ready \in Seq(Tasks) /\ clock \in Nat
    OBVIOUS
  <2>2. /\ future \in [Tasks -> {"new", "live", "dropped"}] /\ deadline \in [Tasks -> Nat]
        /\ armed \subseteq Tasks /\ scheduling \subseteq Tasks
    BY Zenon
  <2> QED
    BY <2>1, <2>2, Zenon DEF RuntimeTyped
<1>2. SocketTyped
  BY DEF SocketTyped, Ring
<1>3. Phases /\ Timers
  BY Zenon DEF Phases, Timers
<1> QED
  BY <1>1, <1>2, <1>3, Zenon DEF DriveInv

\* Steps of the runtime that are no part of a poll.
LEMMA ExecutorDrive ==
    ASSUME DriveInv, UNCHANGED carrierVars, ExecutorStep
    PROVE  DriveInv'
<1>0. SocketTyped' /\ call' = call
  BY Zenon DEF DriveInv, SocketTyped, carrierVars, ringVars, wakerVars
<1> SUFFICES RuntimeTyped' /\ Phases' /\ Timers'
  BY <1>0, Zenon DEF DriveInv
<1> USE <1>0, RuntimeAssumption DEF DriveInv, RuntimeTyped, Phases, Timers, timerVars, driveVars
<1>1. ASSUME NEW t \in Tasks, Spawn(t) PROVE RuntimeTyped' /\ Phases' /\ Timers'
  <2>1. CASE stopped
    BY <1>1, <2>1, Zenon DEF Spawn, readyVars
  <2>2. CASE ~stopped
    <3>1. /\ UNCHANGED <<clock, ready, deadline, armed, stopped, driver, current>>
          /\ scheduling' = scheduling \cup {u \in {t} : ~queued[u]}
          /\ future[t] = "new" /\ future' = [future EXCEPT ![t] = "live"]
      BY <1>1, <2>2, Zenon DEF Spawn, Wake
    <3>2. RuntimeTyped'
      BY <3>1, Zenon
    <3>3. \A u \in Tasks \ {t} : future'[u] = future[u]
      BY <3>1, Zenon
    <3>4. Timers'
      BY <3>1, <3>3, Zenon
    <3>5. Phases'
      BY <2>2, <3>1, <3>3, Zenon
    <3> QED
      BY <3>2, <3>4, <3>5, Zenon
  <2> QED
    BY <2>1, <2>2, Zenon
<1>2. ASSUME NEW t \in Tasks, Schedule(t) PROVE RuntimeTyped' /\ Phases' /\ Timers'
  <2>1. /\ UNCHANGED <<clock, deadline, armed, future, stopped, driver, current>>
        /\ scheduling' = scheduling \ {t}
        /\ stopped => ready' = ready
        /\ ~stopped => ready' = Append(ready, t)
    BY <1>2, Zenon DEF Schedule
  <2>2. ready \in Seq(Tasks) => Append(ready, t) \in Seq(Tasks)
    OBVIOUS
  <2>3. ready' \in Seq(Tasks)
    BY <2>1, <2>2, Zenon
  <2> QED
    BY <2>1, <2>3, Zenon
<1>3. ASSUME NEW elapsed \in Times, Drive(elapsed) PROVE RuntimeTyped' /\ Phases' /\ Timers'
  BY <1>3 DEF Drive, Times
<1>4. CASE WakeDueTimers
  BY <1>4 DEF WakeDueTimers, Wake
<1>5. CASE PopReady
  BY <1>5 DEF PopReady
<1>6. CASE DriveEnds
  BY <1>6, Zenon DEF DriveEnds
<1>7. CASE Shutdown
  BY <1>7, Zenon DEF Shutdown, readyVars
<1>8. CASE ClearReady
  BY <1>8 DEF ClearReady
<1>9. CASE DropTasks
  BY <1>9, Zenon DEF DropTasks
<1> QED
  BY <1>1, <1>2, <1>3, <1>4, <1>5, <1>6, <1>7, <1>8, <1>9, Zenon DEF ExecutorStep

\* A step that leaves the runtime alone but for its wakers.
LEMMA SteadyDrive ==
    ASSUME DriveInv, UNCHANGED <<clock, ready, timerVars, future, stopped, driveVars>>,
           scheduling' \subseteq Tasks, SocketTyped', driver # "polls" => call' = "none"
    PROVE  DriveInv'
BY Zenon DEF DriveInv, RuntimeTyped, Phases, Timers, timerVars, driveVars

\* A task's waker is taken and called, or there is none.
LEMMA WakeSteady ==
    ASSUME DriveInv, NEW task \in Tasks \cup {NoTask}, TakeWaker(task)
    PROVE  ready' = ready /\ scheduling' \subseteq Tasks
BY Zenon DEF TakeWaker, Wake, readyVars, DriveInv, RuntimeTyped

\* What becomes of the two lists of a ring.
LEMMA RingSteps ==
    \A ring \in Ring :
        /\ Reserved(ring) \in Ring /\ Queued(ring) \in Ring
        /\ Popped(ring) \in Ring /\ Recycled(ring) \in Ring
        /\ Reserved(ring).queued = ring.queued /\ Reserved(ring).free = ring.free - 1
        /\ Queued(ring).queued = ring.queued + 1 /\ Queued(ring).free = ring.free
        /\ Popped(ring).queued = ring.queued - 1 /\ Popped(ring).free = ring.free
        /\ Recycled(ring).queued = ring.queued /\ Recycled(ring).free = ring.free + 1
BY DEF Ring, Reserved, Queued, Popped, Recycled

\* The steps of the host's thread.
LEMMA HostDrive ==
    ASSUME DriveInv, HostStepAny
    PROVE  DriveInv'
<1> USE DEF HostStepAny
<1>1. UNCHANGED <<clock, timerVars, future, stopped, driveVars, call, blocked>>
  BY Zenon DEF HostThread, Ingress, IngressQueued, IngressWakes, Egress, EgressRecycled,
     EgressWakes,
         MarkUnavailable, MarkWakesReceiver, MarkWakesSender, HostStep
<1>2. ready' = ready /\ scheduling' \subseteq Tasks
  <2>1. {recv_waker, send_waker} \subseteq Tasks \cup {NoTask}
    BY CarrierAssumption DEF DriveInv, SocketTyped
  <2>2. CASE UNCHANGED readyVars
    BY <2>2, Zenon DEF readyVars, DriveInv, RuntimeTyped
  <2>3. CASE TakeWaker(recv_waker) \/ TakeWaker(send_waker)
    BY <2>1, <2>3, WakeSteady, Zenon
  <2> QED
    BY <2>2, <2>3, Zenon DEF HostThread, Ingress, IngressQueued, IngressWakes, Egress,
       EgressRecycled,
         EgressWakes, MarkUnavailable, MarkWakesReceiver, MarkWakesSender
<1>3. SocketTyped'
  <2>1. ingress' \in Ring /\ egress' \in Ring
    BY RingSteps, Zenon DEF HostThread, Ingress, IngressQueued, IngressWakes, Egress,
       EgressRecycled,
         EgressWakes, MarkUnavailable, MarkWakesReceiver, MarkWakesSender, ringVars, DriveInv,
         SocketTyped
  <2>2. recv_waker' \in {recv_waker, NoTask} /\ send_waker' \in {send_waker, NoTask}
    BY Zenon DEF HostThread, Ingress, IngressQueued, IngressWakes, Egress, EgressRecycled,
       EgressWakes,
         MarkUnavailable, MarkWakesReceiver, MarkWakesSender, wakerVars
  <2> QED
    BY <1>1, <2>1, <2>2, Zenon DEF DriveInv, SocketTyped
<1> QED
  BY <1>1, <1>2, <1>3, SteadyDrive, Zenon DEF DriveInv, Phases

\* A call of a task into the socket that returns or goes on.
LEMMA CallDrive ==
    ASSUME DriveInv, NEW t, NEW from, NEW to, CallStep(t, from, to), SocketTyped'
    PROVE  DriveInv'
<1>1. UNCHANGED <<clock, ready, timerVars, future, stopped, driveVars>> /\ scheduling' = scheduling
      /\ driver = "polls"
  BY Zenon DEF CallStep, Polls, runtimeVars, readyVars
<1> QED
  BY <1>1, SteadyDrive, Zenon DEF DriveInv, RuntimeTyped

\* A task completes, as its future does or because the path is gone.
LEMMA CompletesDrive ==
    ASSUME DriveInv, NEW t, call' = "none", SocketTyped', Completes(t) \/ Panics(t)
    PROVE  DriveInv'
<1>1. /\ driver = "polls" /\ current = t /\ t \in Tasks
      /\ driver' \in {"runs", "idle"} /\ current' = NoTask
      /\ UNCHANGED <<clock, ready, scheduling, stopped>>
      /\ future' = [future EXCEPT ![t] = "dropped"]
      /\ armed' = armed \ {t} /\ deadline' = [deadline EXCEPT ![t] = 0]
  BY RuntimeAssumption, Zenon DEF DriveInv, RuntimeTyped, Phases, Completes, Panics, DropFuture,
     PollReturns, Polls, readyVars
<1>2. RuntimeTyped'
  BY <1>1, Zenon DEF DriveInv, RuntimeTyped
<1>3. Phases' /\ Timers'
  BY <1>1, RuntimeAssumption, Zenon DEF DriveInv, RuntimeTyped, Phases, Timers
<1> QED
  BY <1>2, <1>3, Zenon DEF DriveInv

\* Calls of a task into the socket.
LEMMA CallsDrive ==
    ASSUME DriveInv, NEW t \in SocketTasks, SocketCall(t)
    PROVE  DriveInv'
<1> USE RingSteps DEF DriveInv, SocketTyped, SocketTasks, ringVars, wakerVars
<1>1. CASE CallFails(t)
  <2>1. call' = "none" /\ SocketTyped' /\ Completes(t)
    BY <1>1, Zenon DEF CallFails
  <2> QED
    BY <2>1, CompletesDrive, Zenon
<1>2. CASE CallPending(t)
  <2>1. SocketTyped' /\ CallStep(t, "last", "pending")
    BY <1>2, Zenon DEF CallPending
  <2> QED
    BY <2>1, CallDrive, Zenon
<1>3. ASSUME NEW from, RecvPops(from) PROVE DriveInv'
  <2>1. SocketTyped' /\ \E to : CallStep(Receiver, from, to)
    BY <1>3, Zenon DEF RecvPops
  <2> QED
    BY <2>1, CallDrive, Zenon
<1>4. CASE RecvRecycles \/ RecvRegisters \/ RecvLooksAgain
  <2>1. SocketTyped' /\ \E from, to : CallStep(Receiver, from, to)
    BY <1>4, Zenon DEF RecvRecycles, RecvRegisters, RecvLooksAgain, CallReady
  <2> QED
    BY <2>1, CallDrive, Zenon
<1>5. ASSUME NEW from, NEW otherwise, SendReserves(t, from, otherwise) PROVE DriveInv'
  <2>1. SocketTyped' /\ \E to : CallStep(t, from, to)
    BY <1>5, Zenon DEF SendReserves
  <2> QED
    BY <2>1, CallDrive, Zenon
<1>6. CASE t \in Senders /\ (SendQueues(t) \/ SendRegisters(t))
  <2>1. SocketTyped' /\ \E from, to : CallStep(t, from, to)
    BY <1>6, ZenonT(60) DEF SendQueues, SendRegisters, CallReady
  <2> QED
    BY <2>1, CallDrive, Zenon
<1> QED
  BY <1>1, <1>2, <1>3, <1>4, <1>5, <1>6, Zenon
     DEF SocketCall, ReceiverCalls, SenderCalls, PollRecv, PollSend, SendTriesAgain

\* The rest of a poll.
LEMMA PollDrive ==
    ASSUME DriveInv, NEW t \in Tasks, PollStep(t)
    PROVE  DriveInv'
<1>0. SocketTyped' /\ driver = "polls" /\ current = t /\ t # NoTask
  BY RuntimeAssumption, Zenon DEF PollStep, DriveInv, SocketTyped, ringVars, wakerVars, Polls
<1>1. CASE WakesItself(t) \/ UNCHANGED runtimeVars
  <2>1. /\ UNCHANGED <<clock, ready, timerVars, future, stopped, driveVars>>
        /\ scheduling' \subseteq Tasks
    BY <1>1, Zenon DEF WakesItself, Wake, runtimeVars, readyVars, DriveInv, RuntimeTyped
  <2> QED
    BY <1>0, <2>1, SteadyDrive, Zenon
<1> USE <1>0 DEF DriveInv, RuntimeTyped, Phases, Timers, readyVars, timerVars, driveVars
<1>2. CASE PollTimer(t)
  BY <1>2, Zenon DEF PollTimer
<1>3. ASSUME NEW time \in Times, ResetTimer(t, time) PROVE DriveInv'
  <2>1. /\ UNCHANGED <<clock, ready, future, stopped, driver, current>>
        /\ deadline' = [deadline EXCEPT ![t] = time] /\ scheduling' \subseteq Tasks
        /\ armed' = IF clock >= time THEN armed \ {t} ELSE armed
    BY <1>3, Zenon DEF ResetTimer, Wake
  <2>2. time \in Nat
    BY DEF Times
  <2> QED
    BY <2>1, <2>2
<1>4. CASE call' = "none" /\ Pending(t)
  BY <1>4, Zenon DEF Pending, PollReturns
<1> QED
  BY <1>1, <1>2, <1>3, <1>4, Zenon DEF PollStep

\* Every step keeps the runtime in order.
LEMMA NextDrive ==
    ASSUME DriveInv, Next
    PROVE  DriveInv'
<1>1. ASSUME NEW t \in SocketTasks, PollEnds(t) PROVE DriveInv'
  <2>1. SocketTyped' /\ call' = "none"
    BY <1>1, Zenon DEF PollEnds, DriveInv, SocketTyped, ringVars, wakerVars
  <2> QED
    BY <1>1, <2>1, CompletesDrive, Zenon DEF PollEnds
<1>2. ASSUME NEW t \in Senders, AppWakes(t) PROVE DriveInv'
  <2>1. /\ UNCHANGED <<clock, ready, timerVars, future, stopped, driveVars>> /\ call' = call
        /\ scheduling' \subseteq Tasks /\ SocketTyped'
    BY <1>2, CarrierAssumption, Zenon DEF AppWakes, WakesItself, Wake, DriveInv, RuntimeTyped, SocketTyped,
       carrierVars, ringVars, wakerVars
  <2> QED
    BY <2>1, SteadyDrive, Zenon DEF DriveInv, Phases
<1>3. SocketTasks \subseteq Tasks
  BY CarrierAssumption, Zenon DEF SocketTasks
<1> QED
  BY <1>1, <1>2, <1>3, NextSteps, ExecutorDrive, HostDrive, CallsDrive, PollDrive, Zenon

\* The runtime is in order in every state.
LEMMA DriveInvariant ==
    Spec => []DriveInv
<1>1. ASSUME DriveInv, UNCHANGED vars PROVE DriveInv'
  <2>1. /\ UNCHANGED <<clock, ready, timerVars, future, stopped, driveVars>> /\ call' = call
        /\ scheduling' \subseteq Tasks /\ SocketTyped'
    BY <1>1, Zenon DEF vars, runtimeVars, readyVars, carrierVars, ringVars, wakerVars, DriveInv,
       RuntimeTyped, SocketTyped
  <2> QED
    BY <1>1, <2>1, SteadyDrive, Zenon DEF DriveInv, Phases
<1> QED
  BY <1>1, DriveInit, NextDrive, PTL DEF Spec

(***************************************************************************)
(* No deadline passes unseen, whatever the tasks do with their timers and  *)
(* however late the host drives (wake_due_timers, HostTimer::reset and     *)
(* HostTimer::poll in host_runtime.rs).                                    *)
(***************************************************************************)
THEOREM DeadlinesSeen == Spec => []NoTimerMissed
<1>1. DriveInv => NoTimerMissed
  BY Zenon DEF DriveInv, Timers, NoTimerMissed
<1> QED
  BY <1>1, DriveInvariant, PTL

(***************************************************************************)
(* Once shutdown has returned nothing is left to run, against spawns, late *)
(* wakers and panics (shutdown, spawn_boxed and Task::schedule in          *)
(* host_runtime.rs).                                                       *)
(***************************************************************************)
THEOREM NothingLeft == Spec => []ShutdownReleases
<1>1. DriveInv => ShutdownReleases
  BY Zenon DEF DriveInv, RuntimeTyped, Phases, Timers, ShutdownReleases
<1> QED
  BY <1>1, DriveInvariant, PTL
-----------------------------------------------------------------------------
(***************************************************************************)
(* The wakers.                                                             *)
(***************************************************************************)
\* The socket has room for the waker of one sending task.
OneSender == \A s, t \in Senders : s = t

\* A task that a step has nothing to do with goes on waiting as it did.
LEMMA AwaitsStays ==
    ASSUME NEW t, Awaits(t), UNCHANGED <<ringVars, wakerVars, unavailable, host, blocked>>,
           Polls(t)' <=> Polls(t), Polls(t) => call' = call,
           future'[t] = "live" => future[t] = "live"
    PROVE  Awaits(t)'
<1>1. /\ Registered(t)' = Registered(t) /\ Announced(t)' = Announced(t)
      /\ EndAnnounced(t)' = EndAnnounced(t)
  BY Zenon DEF Registered, Announced, EndAnnounced, ringVars, wakerVars
<1>2. blocked' = blocked
  BY Zenon
<1> QED
  BY <1>1, <1>2, Zenon DEF Awaits

\* The runtime: a task that is polled next has yet to make its call.
LEMMA ExecutorWakes ==
    ASSUME DriveInv, DriveInv', WakeInv, ExecutorStep, UNCHANGED carrierVars
    PROVE  WakeInv'
<1> SUFFICES ASSUME NEW t \in Tasks, t \notin woken' PROVE Awaits(t)'
  BY Zenon DEF WakeInv
<1>0. UNCHANGED <<ringVars, wakerVars, unavailable, host, blocked>> /\ call' = call
  BY Zenon DEF carrierVars
<1>1. CASE PopReady /\ t = Head(ready)
  <2>1. future'[t] = future[t] /\ driver = "runs" /\ call' = "none"
    BY <1>0, <1>1, Zenon DEF PopReady, DriveInv, Phases
  <2>2. future[t] = "live" => Polls(t)'
    BY <1>1, Zenon DEF PopReady, Polls
  <2> QED
    BY <2>1, <2>2, Zenon DEF Awaits, Waiting
<1>2. CASE ~(PopReady /\ t = Head(ready))
  <2>1. t \notin woken
    BY <1>2, Zenon DEF ExecutorStep, Spawn, Schedule, Drive, WakeDueTimers, PopReady,
       DriveEnds, Shutdown,
       ClearReady, DropTasks, Wake, readyVars
  <2>2. Polls(t)' <=> Polls(t)
    BY <1>2, Zenon DEF ExecutorStep, Spawn, Schedule, Drive, WakeDueTimers, PopReady, DriveEnds,
       Shutdown,
       ClearReady, DropTasks, driveVars, Polls, DriveInv, Phases
  <2>3. future'[t] = "live" => future[t] = "live"
    BY <1>2, Zenon DEF ExecutorStep, Spawn, Schedule, Drive, WakeDueTimers, PopReady,
       DriveEnds, Shutdown,
       ClearReady, DropTasks, Wake, DriveInv, RuntimeTyped
  <2> QED
    BY <1>0, <2>1, <2>2, <2>3, AwaitsStays, Zenon DEF WakeInv
<1> QED
  BY <1>1, <1>2, Zenon

\* A task wakes, goes on or ends: the other tasks are not concerned.
LEMMA OthersWake ==
    ASSUME DriveInv, WakeInv, NEW u, NEW t \in Tasks, t # u, t \notin woken',
           woken \subseteq woken',
           UNCHANGED <<ringVars, wakerVars, unavailable, host, blocked>>,
           driver = "polls", current = u, ~Polls(t)', future'[t] = future[t]
    PROVE  Awaits(t)'
<1>1. t \notin woken /\ Awaits(t) /\ ~Polls(t)
  BY Zenon DEF WakeInv, Polls
<1> QED
  BY <1>1, AwaitsStays, Zenon

\* A task that goes on in its poll has not been left waiting, or its waker is registered.
LEMMA PollWakes ==
    ASSUME DriveInv, DriveInv', WakeInv, NEW u \in Tasks, PollStep(u)
    PROVE  WakeInv'
<1> SUFFICES ASSUME NEW t \in Tasks, t \notin woken' PROVE Awaits(t)'
  BY Zenon DEF WakeInv
<1>0. /\ driver = "polls" /\ current = u
      /\ UNCHANGED <<ringVars, wakerVars, unavailable, host, blocked>> /\ future' = future
      /\ woken \subseteq woken'
  BY Zenon DEF PollStep, Polls, runtimeVars, readyVars, WakesItself, Wake, PollTimer,
     ResetTimer, Pending
<1>1. \/ UNCHANGED <<driver, current>>
      \/ driver' = "runs" /\ call' = "none" /\ call \in {"ready"} \cup Waiting
  BY Zenon DEF PollStep, runtimeVars, driveVars, WakesItself, PollTimer, ResetTimer, Pending,
     PollReturns
<1>2. CASE t # u
  BY <1>0, <1>1, <1>2, OthersWake, Zenon DEF Polls
<1>3. CASE t = u
  <2>1. Awaits(t) /\ Polls(t)
    BY <1>0, <1>3, Zenon DEF WakeInv, Polls
  <2>2. \/ call = "none" /\ call' = "ready" /\ t \notin blocked
        \/ call \in {"ready"} \cup Waiting /\ call' \in {"none"} \cup Waiting
    BY <1>3, Zenon DEF PollStep
  <2>3. /\ Registered(t)' = Registered(t) /\ Announced(t)' = Announced(t)
        /\ EndAnnounced(t)' = EndAnnounced(t) /\ blocked' = blocked
    BY <1>0, Zenon DEF Registered, Announced, EndAnnounced, ringVars, wakerVars
  <2>4. call' \in Waiting => Polls(t)'
    BY <1>0, <1>1, <1>3, Zenon DEF Polls, Waiting
  <2>5. t \in blocked => call' # "ready" /\ call \in Waiting
    BY <2>1, <2>2, Zenon DEF Awaits, Waiting
  <2>6. t \in blocked => Registered(t) /\ Announced(t) /\ EndAnnounced(t)
    BY <2>1, <2>5, Zenon DEF Awaits
  <2>7. call' \notin {"looks again", "last"}
    BY <2>2, Zenon DEF Waiting
  <2> QED
    BY <2>3, <2>5, <2>6, <2>7, Zenon DEF Awaits
<1> QED
  BY <1>2, <1>3, Zenon

\* A task ends, and waits for nothing.
LEMMA EndsWakes ==
    ASSUME DriveInv, DriveInv', WakeInv, NEW u \in Tasks, Completes(u) \/ Panics(u),
           UNCHANGED <<ringVars, wakerVars, unavailable, host>>, blocked' \in {blocked,
           blocked \ {u}}
    PROVE  WakeInv'
<1> SUFFICES ASSUME NEW t \in Tasks, t \notin woken' PROVE Awaits(t)'
  BY Zenon DEF WakeInv
<1>1. /\ woken' = woken /\ driver' # "polls" /\ driver = "polls" /\ current = u
      /\ future' = [future EXCEPT ![u] = "dropped"]
  BY Zenon DEF Completes, Panics, Polls, PollReturns, DropFuture, readyVars
<1>2. ~Polls(t)' /\ (future'[t] = "live" => t # u /\ future[t] = "live" /\ ~Polls(t))
  BY <1>1, Zenon DEF DriveInv, RuntimeTyped, Polls
<1>3. /\ Registered(t)' = Registered(t) /\ Announced(t)' = Announced(t)
      /\ EndAnnounced(t)' = EndAnnounced(t) /\ (t \in blocked' => t \in blocked)
  BY Zenon DEF Registered, Announced, EndAnnounced, ringVars, wakerVars
<1> QED
  BY <1>1, <1>2, <1>3, Zenon DEF WakeInv, Awaits

\* The steps of the host's thread: a waker that is registered is called, and what comes
\* before that is announced.
LEMMA HostWakes ==
    ASSUME DriveInv, DriveInv', WakeInv, HostStepAny
    PROVE  WakeInv'
<1> SUFFICES ASSUME NEW t \in Tasks, t \notin woken' PROVE Awaits(t)'
  BY Zenon DEF WakeInv
<1>0. UNCHANGED <<future, call, blocked, driver, current>> /\ woken \subseteq woken'
  BY Zenon DEF HostStepAny, HostThread, Ingress, IngressQueued, IngressWakes, Egress,
     EgressRecycled,
     EgressWakes, MarkUnavailable, MarkWakesReceiver, MarkWakesSender, HostStep, driveVars,
     TakeWaker, Wake, readyVars
<1>1. Awaits(t) /\ t \notin woken
  BY <1>0, Zenon DEF WakeInv
<1>2. Registered(t) => Registered(t)'
  BY <1>0, ZenonT(60) DEF HostStepAny, HostThread, Ingress, IngressQueued, IngressWakes, Egress,
     EgressRecycled,
     EgressWakes, MarkUnavailable, MarkWakesReceiver, MarkWakesSender, TakeWaker, Wake, wakerVars,
     Registered
<1>3. Registered(t) => (Announced(t) => Announced(t)') /\ (EndAnnounced(t) => EndAnnounced(t)')
  <2> USE <1>2, RingSteps, RuntimeAssumption DEF HostStep, ringVars, Registered, Announced,
          EndAnnounced, DriveInv, SocketTyped
  <2>1. CASE Ingress
    BY <2>1, Zenon DEF Ingress
  <2>2. CASE IngressQueued
    BY <2>2, ZenonT(60) DEF IngressQueued
  <2>3. CASE IngressWakes
    BY <2>3, Zenon DEF IngressWakes, TakeWaker, Wake
  <2>4. CASE Egress
    BY <2>4, Zenon DEF Egress
  <2>5. CASE EgressRecycled
    BY <2>5, ZenonT(60) DEF EgressRecycled
  <2>6. CASE EgressWakes
    BY <2>6, Zenon DEF EgressWakes, TakeWaker, Wake
  <2>7. CASE MarkUnavailable
    BY <2>7, Zenon DEF MarkUnavailable
  <2>8. CASE MarkWakesReceiver
    BY <2>8, ZenonT(60) DEF MarkWakesReceiver, TakeWaker, Wake
  <2>9. CASE MarkWakesSender
    BY <2>9, Zenon DEF MarkWakesSender, TakeWaker, Wake
  <2> QED
    BY <2>1, <2>2, <2>3, <2>4, <2>5, <2>6, <2>7, <2>8, <2>9, ZenonT(60) DEF HostStepAny, HostThread
<1> QED
  BY <1>0, <1>1, <1>2, <1>3, Zenon DEF Awaits, Polls

\* A call into the socket takes one step of its own, unless the path is gone.
LEMMA CallSteps ==
    ASSUME NEW t \in SocketTasks, SocketCall(t), ~CallFails(t)
    PROVE  /\ driver = "polls" /\ current = t
           /\ UNCHANGED <<driver, current, future, woken, unavailable, host>>
<1>1. \E from, to : CallStep(t, from, to)
  BY Zenon DEF SocketCall, ReceiverCalls, SenderCalls, PollRecv, RecvPops, RecvRecycles,
     RecvRegisters,
     RecvLooksAgain, PollSend, SendReserves, SendQueues, SendRegisters, SendTriesAgain, CallPending,
     CallReady
<1> QED
  BY <1>1, Zenon DEF CallStep, Polls, runtimeVars, driveVars, readyVars

\* A call into the socket, of the task that it is about.
LEMMA CallAwaits ==
    ASSUME NEW t \in SocketTasks, SocketCall(t), ~CallFails(t), Awaits(t)
    PROVE  Awaits(t)'
<1>1. Polls(t) /\ Polls(t)' /\ UNCHANGED <<unavailable, host>>
  BY CallSteps, Zenon DEF Polls
<1> USE <1>1, CarrierAssumption
<1>2. CASE CallPending(t)
  <2>1. /\ call = "last" /\ call' = "pending" /\ ~unavailable'
        /\ UNCHANGED <<ringVars, wakerVars>>
    BY <1>2 DEF CallPending, CallStep
  <2>2. Registered(t) /\ Announced(t)
    BY <2>1, Zenon DEF Awaits
  <2>3. Registered(t)' /\ Announced(t)' /\ EndAnnounced(t)'
    BY <2>1, <2>2, ZenonT(60) DEF Registered, Announced, EndAnnounced, ringVars, wakerVars
  <2> QED
    BY <2>1, <2>3, Zenon DEF Awaits
<1>3. CASE t = Receiver /\ (PollRecv \/ RecvPops("pops"))
  <2>1. call' \in {"copies", "registers"}
    BY <1>3, Zenon DEF PollRecv, RecvPops, CallStep
  <2> QED
    BY <2>1, Zenon DEF Awaits, Waiting
<1>4. CASE (t = Receiver /\ RecvRecycles) \/ SendQueues(t)
  <2>1. call' = "ready" /\ blocked' = blocked \ {t}
    BY <1>4, Zenon DEF RecvRecycles, SendQueues, CallReady, CallStep
  <2> QED
    BY <2>1, Zenon DEF Awaits, Waiting
<1>5. CASE (t = Receiver /\ RecvRegisters) \/ (t \in Senders /\ SendRegisters(t))
  <2>1. call' = "looks again" /\ Registered(t)'
    BY <1>5, ZenonT(60) DEF RecvRegisters, SendRegisters, CallStep, Registered
  <2> QED
    BY <2>1, Zenon DEF Awaits, Waiting
<1>6. CASE t = Receiver /\ RecvLooksAgain
  <2>1. /\ call = "looks again" /\ call' = IF ingress.queued = 0 THEN "last" ELSE "pops"
        /\ UNCHANGED <<ringVars, wakerVars>>
    BY <1>6, Zenon DEF RecvLooksAgain, CallStep
  <2>2. Registered(t)'
    BY <2>1, Zenon DEF Awaits, Registered, wakerVars
  <2>3. ingress.queued = 0 => Announced(t)'
    <3>1. ingress' = ingress /\ t = Receiver
      BY <1>6, <2>1, ZenonT(60) DEF ringVars
    <3> QED
      BY <3>1 DEF Announced
  <2> QED
    BY <2>1, <2>2, <2>3, Zenon DEF Awaits, Waiting
<1>7. CASE t \in Senders /\ PollSend(t)
  <2>1. call' \in {"fills", "registers"}
    BY <1>7, Zenon DEF PollSend, SendReserves, CallStep
  <2> QED
    BY <2>1, Zenon DEF Awaits, Waiting
<1>8. CASE t \in Senders /\ SendTriesAgain(t)
  <2>1. /\ call = "looks again" /\ wakerVars' = wakerVars
        /\ call' = IF egress.free > 0 THEN "fills" ELSE "last"
        /\ ~(egress.free > 0) => egress' = egress
    BY <1>8, Zenon DEF SendTriesAgain, SendReserves, CallStep
  <2>2. Registered(t)'
    BY <2>1, Zenon DEF Awaits, Registered, wakerVars
  <2>3. ~(egress.free > 0) => Announced(t)'
    BY <1>8, <2>1, ZenonT(60) DEF Announced
  <2> QED
    BY <2>1, <2>2, <2>3, Zenon DEF Awaits, Waiting
<1> QED
  BY <1>2, <1>3, <1>4, <1>5, <1>6, <1>7, <1>8, Zenon DEF SocketCall, ReceiverCalls, SenderCalls

\* A call changes the ring and the waker of its own side, and no one else's.
LEMMA CallSides ==
    ASSUME NEW t \in SocketTasks, SocketCall(t), ~CallFails(t)
    PROVE  /\ blocked' \ {t} = blocked \ {t}
           /\ t = Receiver => UNCHANGED <<egress, send_waker>>
           /\ t # Receiver => UNCHANGED <<ingress, recv_waker>>
BY CarrierAssumption, Zenon
   DEF SocketCall, ReceiverCalls, SenderCalls, PollRecv, RecvPops, RecvRecycles, RecvRegisters,
       RecvLooksAgain, PollSend, SendReserves, SendQueues, SendRegisters, SendTriesAgain,
       CallPending,
       CallReady, ringVars, wakerVars

\* Calls into the socket: the other side of the socket waits as it did.
LEMMA CallsWake ==
    ASSUME OneSender, DriveInv, DriveInv', WakeInv, NEW u \in SocketTasks, SocketCall(u)
    PROVE  WakeInv'
<1>0. u \in Tasks
  BY CarrierAssumption, Zenon DEF SocketTasks
<1>1. CASE CallFails(u)
  BY <1>0, <1>1, EndsWakes, Zenon DEF CallFails
<1>2. CASE ~CallFails(u)
  <2> SUFFICES ASSUME NEW t \in Tasks, t \notin woken' PROVE Awaits(t)'
    BY Zenon DEF WakeInv
  <2>1. Awaits(t)
    BY <1>2, CallSteps, Zenon DEF WakeInv
  <2>2. CASE t = u
    BY <1>2, <2>1, <2>2, CallAwaits, Zenon
  <2>3. CASE t # u
    <3>1. /\ ~Polls(t) /\ ~Polls(t)' /\ UNCHANGED <<future, unavailable, host>>
          /\ t \in blocked' => t \in blocked
      BY <1>2, <2>3, CallSteps, CallSides DEF Polls
    <3>2. t \in blocked => \/ t = Receiver /\ u # Receiver
                           \/ t # Receiver /\ u = Receiver
      BY <2>3, Zenon DEF OneSender, DriveInv, SocketTyped, SocketTasks
    <3>3. t \in blocked => (Registered(t) => Registered(t)') /\ (Announced(t) => Announced(t)')
                           /\ (EndAnnounced(t) => EndAnnounced(t)')
      BY <1>2, <3>1, <3>2, CallSides, Zenon DEF Registered, Announced, EndAnnounced
    <3> QED
      BY <2>1, <3>1, <3>3, Zenon DEF Awaits
  <2> QED
    BY <2>2, <2>3, Zenon
<1> QED
  BY <1>1, <1>2, Zenon

(***************************************************************************)
(* With one connection on the socket, no task is left waiting for what is  *)
(* there already: the waker is registered before the second look, and the  *)
(* host's thread looks for a waker after each change (poll_recv, poll_send *)
(* and register_waker in host_carrier.rs, Task::schedule).  With two the   *)
(* run HostSenders shows that it fails.                                    *)
(***************************************************************************)
THEOREM WaitersHear == OneSender => (Spec => []NoLostWakeup)
<1> SUFFICES ASSUME OneSender PROVE Spec => []NoLostWakeup
  BY Zenon
<1>1. ASSUME Init PROVE WakeInv
  BY <1>1, RuntimeAssumption, Zenon DEF Init, RuntimeInit, CarrierInit, WakeInv, Awaits, Polls
<1>2. ASSUME DriveInv, DriveInv', WakeInv, Next PROVE WakeInv'
  <2>1. SocketTasks \subseteq Tasks
    BY CarrierAssumption, Zenon DEF SocketTasks
  <2>2. ASSUME NEW t \in SocketTasks, PollEnds(t) PROVE WakeInv'
    BY <1>2, <2>1, <2>2, EndsWakes, Zenon DEF PollEnds
  <2>3. ASSUME NEW u \in Senders, AppWakes(u) PROVE WakeInv'
    <3>1. /\ UNCHANGED <<ringVars, wakerVars, unavailable, host, blocked, call>>
          /\ UNCHANGED <<driver, current, future>>
          /\ woken \subseteq woken'
      BY <2>3, Zenon DEF AppWakes, WakesItself, Wake, carrierVars, driveVars
    <3> QED
      BY <1>2, <3>1, AwaitsStays, Zenon DEF WakeInv, Polls
  <2> QED
    BY <1>2, <2>1, <2>2, <2>3, NextSteps, ExecutorWakes, HostWakes, CallsWake, PollWakes, Zenon
<1>3. ASSUME WakeInv, UNCHANGED vars PROVE WakeInv'
  <2>1. UNCHANGED <<ringVars, wakerVars, unavailable, host, blocked, call, driver, current,
  future, woken>>
    BY <1>3, Zenon DEF vars, runtimeVars, readyVars, driveVars, carrierVars
  <2> QED
    BY <1>3, <2>1, AwaitsStays, Zenon DEF WakeInv, Polls
<1>4. DriveInv /\ WakeInv => NoLostWakeup
  BY CarrierAssumption, Zenon
     DEF DriveInv, SocketTyped, WakeInv, Awaits, Registered, Announced, EndAnnounced, NoLostWakeup
<1> QED
  BY <1>1, <1>2, <1>3, <1>4, DriveInvariant, PTL DEF Spec
=============================================================================
