--------------------------- MODULE MultipathSocket ---------------------------
(***************************************************************************)
(* The socket over a primary and a backup path (transport.rs               *)
(* MultipathSocket): one poll asks the two children in turn, starting with *)
(* the one after the last that had something, and passes over a path that  *)
(* is unavailable.                                                         *)
(*                                                                         *)
(* A child is one of the sockets of RawReceive or a host carrier, seen     *)
(* from outside: it yields what waits in it, or an error, or registers the *)
(* task's waker.                                                           *)
(***************************************************************************)
EXTENDS Naturals

CONSTANTS
    Transient   \* may a path that failed carry packets again?

Children == 0 .. 1
Errors == {"none", "unavailable", "other"}

VARIABLES
    waiting,    \* is there something to receive on the path?
    error,      \* what a poll of the child would return
    registered, \* does the child hold the task's waker?
    next_recv,
    task        \* "woken", "asleep", or "ended" with an error

socketVars == <<waiting, error, registered, next_recv, task>>

SocketInit ==
    /\ waiting = [i \in Children |-> FALSE]
    /\ error = [i \in Children |-> "none"]
    /\ registered = [i \in Children |-> FALSE]
    /\ next_recv = 0
    /\ task = "woken"

\* Something happens at a child: its readiness wakes the task if the waker is there.
Readies(i) ==
    /\ task # "ended"
    /\ task' = IF registered[i] THEN "woken" ELSE task
    /\ registered' = [registered EXCEPT ![i] = FALSE]
    /\ UNCHANGED next_recv

PathReceives(i) ==
    /\ error[i] = "none" /\ ~waiting[i]
    /\ waiting' = [waiting EXCEPT ![i] = TRUE]
    /\ UNCHANGED error
    /\ Readies(i)

PathFails(i, kind) ==
    /\ error[i] = "none" /\ ~waiting[i]
    /\ error' = [error EXCEPT ![i] = kind]
    /\ UNCHANGED waiting
    /\ Readies(i)

Answers(i) == IF error[i] # "none" THEN error[i] ELSE IF waiting[i] THEN "ready" ELSE "pending"

\* An interface that went down reports it once, and receives again when it is up.
Reported(polled) ==
    error' = [i \in Children |-> IF Transient /\ i \in polled /\ error[i] = "unavailable" THEN "none" ELSE error[i]]

\* Bug: the primary is always asked first.
FirstPrimary == 0

\* poll_recv, whole: the children up to the first that is ready or fails outright.
first == next_recv
second == (next_recv + 1) % 2
Stops(i) == Answers(i) \in {"ready", "other"}
Polled == IF Stops(first) THEN {first} ELSE Children

PollChildren ==
    /\ task = "woken"
    /\ registered' = [i \in Children |-> registered[i] \/ (i \in Polled /\ Answers(i) = "pending")]
    /\ Reported(Polled)
    /\ IF \E i \in Polled : Stops(i)
       THEN LET i == IF Stops(first) THEN first ELSE second IN
            IF Answers(i) = "ready"
            THEN /\ waiting' = [waiting EXCEPT ![i] = FALSE]
                 /\ next_recv' = (i + 1) % 2
                 /\ UNCHANGED task
            ELSE task' = "ended" /\ UNCHANGED <<waiting, next_recv>>
       ELSE /\ task' = IF \A i \in Children : Answers(i) = "unavailable" THEN "ended" ELSE "asleep"
            /\ UNCHANGED <<waiting, next_recv>>

SocketNext ==
    \/ \E i \in Children :
           PathReceives(i) \/ \E kind \in Errors \ {"none"} : PathFails(i, kind)
    \/ PollChildren

\* A woken task is polled.
SocketFairness == WF_socketVars(PollChildren)
SocketSpec == SocketInit /\ [][SocketNext]_socketVars /\ SocketFairness

-----------------------------------------------------------------------------
\* What waits on a path is received in the end, however busy the other path is and also
\* after the other has become unavailable, unless the endpoint ended with an error.
PathsServed == \A i \in Children : []<>(~waiting[i] \/ task = "ended")
=============================================================================
