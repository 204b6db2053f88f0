----------------------------- MODULE HostRuntime -----------------------------
(***************************************************************************)
(* The executor the host drives (host_runtime.rs).  Wakers put tasks into  *)
(* a ready queue from any thread; drive advances the clock, wakes the      *)
(* timers that are due and polls a bounded number of ready tasks; the host *)
(* is told when there is work and nothing else will tell it.               *)
(*                                                                         *)
(* Each step is one atomic operation or one section under a lock.  The two *)
(* halves of a wake may be any time apart, as they are when another thread *)
(* wakes; a wake by the driving thread itself is no different.  A task has *)
(* one timer.  A drive that is refused (overlapping, closed, or with a     *)
(* clock that goes back) changes nothing and is not a step.                *)
(***************************************************************************)
EXTENDS Integers, Sequences, FiniteSets

CONSTANTS
    Tasks,      \* tasks that may be spawned
    NoTask,     \* none of them
    MaxTasks,   \* max_tasks of a drive
    MaxTime     \* bound on the clock

ASSUME RuntimeAssumption ==
    MaxTasks \in Nat \ {0} /\ MaxTime \in Nat /\ NoTask \notin Tasks

VARIABLES
    clock,          \* elapsed time of the last drive
    ready,          \* RuntimeInner.ready
    queued,         \* Task.queued
    scheduling,     \* tasks that a thread has marked queued and not yet put into ready
    future,         \* new (not spawned), live, or dropped
    deadline,       \* of the task's timer
    armed,          \* the timer holds the task's waker
    stopped,
    driver,         \* where drive or shutdown is; idle means that driving is false
    current,        \* the task being polled
    processed,
    notified,       \* the host was told of work since it last called drive
    failed,         \* the last drive returned TaskPanicked
    woken           \* history: tasks woken since their last poll began

readyVars == <<ready, queued, scheduling, notified, woken>>
timerVars == <<deadline, armed>>
driveVars == <<driver, current, processed, failed>>
runtimeVars == <<clock, readyVars, timerVars, future, stopped, driveVars>>

Times == 0 .. MaxTime

RuntimeInit ==
    /\ clock = 0
    /\ ready = <<>> /\ queued = [t \in Tasks |-> FALSE] /\ scheduling = {}
    /\ future = [t \in Tasks |-> "new"]
    /\ deadline = [t \in Tasks |-> 0] /\ armed = {}
    /\ stopped = FALSE
    /\ driver = "idle" /\ current = NoTask /\ processed = 0
    /\ notified = FALSE /\ failed = FALSE /\ woken = {}
-----------------------------------------------------------------------------
(***************************************************************************)
(* Waking.                                                                 *)
(***************************************************************************)
\* Task::schedule up to the lock, for a set of tasks: the first waker goes on.
Wake(S) ==
    /\ queued' = [t \in Tasks |-> queued[t] \/ t \in S]
    /\ scheduling' = scheduling \cup {t \in S : ~queued[t]}
    /\ woken' = woken \cup S
    /\ UNCHANGED <<ready, notified>>

\* Bug: a late waker does not see that the runtime stopped.
ScheduleUnchecked(t) ==
    /\ t \in scheduling
    /\ scheduling' = scheduling \ {t}
    /\ ready' = Append(ready, t)
    /\ notified' = (notified \/ ready = <<>>)
    /\ UNCHANGED <<clock, queued, woken, timerVars, future, stopped, driveVars>>

\* The rest, under the lock of the queue.  The host is told of the first entry.
Schedule(t) ==
    /\ t \in scheduling
    /\ scheduling' = scheduling \ {t}
    /\ IF stopped
       THEN /\ queued' = [queued EXCEPT ![t] = FALSE]
            /\ UNCHANGED <<ready, notified>>
       ELSE /\ ready' = Append(ready, t)
            /\ notified' = (notified \/ ready = <<>>)
            /\ UNCHANGED queued
    /\ UNCHANGED <<clock, woken, timerVars, future, stopped, driveVars>>

\* spawn_boxed: the future of a task that comes too late is dropped.
Spawn(t) ==
    /\ future[t] = "new"
    /\ IF stopped
       THEN future' = [future EXCEPT ![t] = "dropped"] /\ UNCHANGED readyVars
       ELSE future' = [future EXCEPT ![t] = "live"] /\ Wake({t})
    /\ UNCHANGED <<clock, timerVars, stopped, driveVars>>
-----------------------------------------------------------------------------
(***************************************************************************)
(* drive.                                                                  *)
(***************************************************************************)
\* The guard is taken and the clock advanced.
Drive(elapsed) ==
    /\ driver = "idle" /\ ~stopped
    /\ elapsed >= clock
    /\ clock' = elapsed
    /\ driver' = "timers"
    /\ notified' = FALSE /\ failed' = FALSE
    /\ UNCHANGED <<ready, queued, scheduling, woken, timerVars, future, stopped, current,
                   processed>>

\* wake_due_timers
WakeDueTimers ==
    /\ driver = "timers"
    /\ LET due == {t \in armed : clock >= deadline[t]}
       IN  armed' = armed \ due /\ Wake(due)
    /\ driver' = "runs"
    /\ UNCHANGED <<clock, deadline, future, stopped, current, processed, failed>>

\* pop_ready, and Task::poll up to the future's own code.
PopReady ==
    /\ driver = "runs" /\ processed < MaxTasks
    /\ ready # <<>>
    /\ LET t == Head(ready)
       IN  /\ queued' = [queued EXCEPT ![t] = FALSE]
           /\ woken' = woken \ {t}
           /\ IF future[t] = "live"
              THEN driver' = "polls" /\ current' = t /\ UNCHANGED processed
              ELSE processed' = processed + 1 /\ UNCHANGED <<driver, current>>
    /\ ready' = Tail(ready)
    /\ UNCHANGED <<clock, scheduling, notified, timerVars, future, stopped, failed>>

\* Bug: the work left over is not announced.
DriveEndsSilently ==
    /\ driver = "runs"
    /\ ready = <<>> \/ processed = MaxTasks
    /\ driver' = "idle" /\ processed' = 0
    /\ UNCHANGED <<clock, readyVars, timerVars, future, stopped, current, failed>>

\* The loop ends; work that is left over is announced, if the bound ended it.
DriveEnds ==
    /\ driver = "runs"
    /\ ready = <<>> \/ processed = MaxTasks
    /\ driver' = "idle" /\ processed' = 0
    /\ notified' = (notified \/ (processed = MaxTasks /\ ready # <<>>))
    /\ UNCHANGED <<clock, ready, queued, scheduling, woken, timerVars, future, stopped,
                   current, failed>>
-----------------------------------------------------------------------------
(***************************************************************************)
(* What a future does while it is polled, and how the poll ends.           *)
(***************************************************************************)
Polls(t) == driver = "polls" /\ current = t

\* Bug: the new deadline is stored without a look at the clock.
ResetTimerSilently(t, time) ==
    /\ Polls(t)
    /\ deadline' = [deadline EXCEPT ![t] = time]
    /\ UNCHANGED <<clock, readyVars, armed, future, stopped, driveVars>>

\* HostTimer::reset; a timer that is due by now wakes its task.
ResetTimer(t, time) ==
    /\ Polls(t)
    /\ deadline' = [deadline EXCEPT ![t] = time]
    /\ IF clock >= time /\ t \in armed
       THEN armed' = armed \ {t} /\ Wake({t})
       ELSE UNCHANGED <<armed, readyVars>>
    /\ UNCHANGED <<clock, future, stopped, driveVars>>

\* HostTimer::poll of a timer that is not due registers the waker.
PollTimer(t) ==
    /\ Polls(t)
    /\ clock < deadline[t]
    /\ armed' = armed \cup {t}
    /\ UNCHANGED <<clock, readyVars, deadline, future, stopped, driveVars>>

PollReturns ==
    /\ driver' = "runs" /\ current' = NoTask /\ processed' = processed + 1
    /\ UNCHANGED failed

Pending(t) ==
    /\ Polls(t)
    /\ PollReturns
    /\ UNCHANGED <<clock, readyVars, timerVars, future, stopped>>

\* The future is dropped, and with it its timer.
DropFuture(t) ==
    /\ future' = [future EXCEPT ![t] = "dropped"]
    /\ armed' = armed \ {t} /\ deadline' = [deadline EXCEPT ![t] = 0]

Completes(t) ==
    /\ Polls(t)
    /\ DropFuture(t) /\ PollReturns
    /\ UNCHANGED <<clock, readyVars, stopped>>

\* The panic is contained: the task is removed and drive returns at once.
Panics(t) ==
    /\ Polls(t)
    /\ DropFuture(t)
    /\ driver' = "idle" /\ current' = NoTask /\ processed' = 0 /\ failed' = TRUE
    /\ UNCHANGED <<clock, readyVars, stopped>>
-----------------------------------------------------------------------------
(***************************************************************************)
(* shutdown.                                                               *)
(***************************************************************************)
Shutdown ==
    /\ driver = "idle" /\ ~stopped
    /\ stopped' = TRUE /\ driver' = "clears"
    /\ UNCHANGED <<clock, readyVars, timerVars, future, current, processed, failed>>

ClearReady ==
    /\ driver = "clears"
    /\ ready' = <<>> /\ driver' = "drops"
    /\ UNCHANGED <<clock, queued, scheduling, notified, woken, timerVars, future, stopped,
                   current, processed, failed>>

DropTasks ==
    /\ driver = "drops"
    /\ LET live == {t \in Tasks : future[t] = "live"}
       IN  /\ future' = [t \in Tasks |-> IF t \in live THEN "dropped" ELSE future[t]]
           /\ queued' = [t \in Tasks |-> queued[t] /\ t \notin live]
           /\ armed' = armed \ live
           /\ deadline' = [t \in Tasks |-> IF t \in live THEN 0 ELSE deadline[t]]
    /\ driver' = "idle"
    /\ UNCHANGED <<clock, ready, scheduling, notified, woken, stopped, current,
                   processed, failed>>
=============================================================================
