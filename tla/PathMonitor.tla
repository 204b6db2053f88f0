----------------------------- MODULE PathMonitor -----------------------------
(***************************************************************************)
(* The two paths of a client's connection: how the backup is opened, and   *)
(* the manager's view of both, kept by a task that reads the transport's   *)
(* bounded stream of path events (multipath.rs, transport.rs).             *)
(*                                                                         *)
(* The transport is external.  It validates, abandons and later discards a *)
(* path, reports each once, and passes on every status a peer sends, for a *)
(* path it has already dropped too.                                        *)
(***************************************************************************)
EXTENDS Integers, Sequences, FiniteSets

CONSTANTS
    PathModes,          \* which of "off", "failover"
    RetryLimit,         \* BACKUP_PATH_RETRY_LIMIT
    EventCapacity,      \* of the event stream
    StatusLimit         \* bounds the statuses a peer sends

ASSUME PathsAssumption ==
    /\ PathModes \subseteq {"off", "failover"}
    /\ RetryLimit \in Nat /\ EventCapacity \in Nat \ {0}

PathRoles == {"primary", "backup"}      \* and the id of the role's path
PathStatuses == {"available", "backup"}

VARIABLES
    mode,
    paths,              \* PathManager.paths: of each role, its state and the peer's status
    activated, reliable,
    installer,          \* install_required_backup: where it is, and the retries left
    transport,          \* the transport's paths, and whether the connection is open
    events,             \* the stream: what it holds, and whether it has lost an event
    statuses            \* how many statuses have come

manager == <<paths, activated, reliable>>
pathVars == <<mode, manager, installer, transport, events, statuses>>

NoPath == [state |-> "none", remote_status |-> "none"]
Validating == [state |-> "validating", remote_status |-> "none"]

expected_status == "available"

path_limit == IF mode = "off" THEN 1 ELSE 2

usable(path) == path.state = "established" /\ path.remote_status = expected_status

UsableCount(view) == Cardinality({role \in PathRoles : usable(view[role])})

refresh_activation(view) == activated \/ UsableCount(view) = path_limit

health ==
    CASE ~reliable                           -> "Failed"
      [] reliable /\ ~activated              -> "NotReady"
      [] reliable /\ activated /\ UsableCount(paths) = path_limit -> "Ready"
      [] reliable /\ activated /\ UsableCount(paths) = 0          -> "Failed"
      [] OTHER                               -> "Degraded"

\* PathManager::new with the primary path, which the handshake has validated.
PathInit ==
    /\ mode \in PathModes
    /\ paths = [role \in PathRoles |->
                   IF role = "primary" THEN [state |-> "established", remote_status |-> expected_status]
                   ELSE NoPath]
    /\ activated = (mode = "off")
    /\ reliable = TRUE
    /\ installer = [pc |-> "subscribe", attempts |-> RetryLimit]
    /\ transport = [open |-> TRUE, primary |-> "open", backup |-> "none"]
    /\ events = [queue |-> <<>>, subscribed |-> FALSE, lagged |-> FALSE]
    /\ statuses = 0

-----------------------------------------------------------------------------
\* PathManager, one operation per event.  A view and whether it is an error.

Sound(view) == [view |-> view, error |-> FALSE]
Unsound == [view |-> paths, error |-> TRUE]

begin_path(role) ==
    IF \/ mode = "off" /\ role = "backup"
       \/ paths[role] # NoPath
       \/ \E other \in PathRoles : paths[other].state = "validating"
    THEN Unsound
    ELSE Sound([paths EXCEPT ![role] = Validating])

established(view, id) ==
    CASE view[id].state = "validating"  -> Sound([view EXCEPT ![id].state = "established"])
      [] view[id].state = "established" -> Sound(view)
      [] OTHER                          -> Unsound

remote_status(id, status) ==
    IF paths[id].state \in {"validating", "established"} /\ status = expected_status
    THEN Sound([paths EXCEPT ![id].remote_status = status])
    ELSE Unsound

lost(id) ==
    IF paths[id].state \in {"validating", "established"}
    THEN Sound([paths EXCEPT ![id].state = "lost"])
    ELSE Unsound

\* Bug: a path that is discarded stays in the view as lost.
DiscardedKeepsPath(id) ==
    IF paths[id].state = "lost" THEN Sound(paths) ELSE Unsound

discarded_event(id) ==
    IF paths[id].state = "lost" THEN Sound([paths EXCEPT ![id] = NoPath]) ELSE Unsound

apply_noq_event(event) ==
    CASE event.kind = "established" -> established(paths, event.id)
      [] event.kind = "abandoned"   -> lost(event.id)
      [] event.kind = "discarded"   -> discarded_event(event.id)
      [] event.kind = "status"      -> remote_status(event.id, event.status)

\* What the manager makes of it; losing a path activates nothing.
Managed(outcome) ==
    /\ paths' = outcome.view
    /\ reliable' = (reliable /\ ~outcome.error)
    /\ activated' = (activated \/ (~outcome.error /\ refresh_activation(outcome.view)))

-----------------------------------------------------------------------------
\* install_required_backup

InstallerOnly == <<mode, manager, events, statuses>>

Subscribe ==
    /\ installer.pc = "subscribe" /\ transport.open
    /\ events' = [events EXCEPT !.subscribed = TRUE]
    /\ installer' = [installer EXCEPT !.pc = IF mode = "off" THEN "done" ELSE "open"]
    /\ UNCHANGED <<mode, manager, transport, statuses>>

\* open_path fails until the peer has issued a connection id for the path.
OpenPath ==
    /\ installer.pc = "open" /\ transport.open
    /\ \/ /\ installer.attempts > 1
          /\ installer' = [installer EXCEPT !.attempts = @ - 1]
          /\ UNCHANGED transport
       \/ /\ installer' = [installer EXCEPT !.pc = "validating"]
          /\ transport' = [transport EXCEPT !.backup = "validating"]
    /\ UNCHANGED InstallerOnly

\* No path was opened, or validation failed.
OpenPathFails ==
    /\ \/ installer.pc = "open" /\ installer.attempts = 1
       \/ installer.pc = "validating" /\ (transport.backup \in {"abandoned", "discarded"} \/ ~transport.open)
    /\ installer' = [installer EXCEPT !.pc = "failed"]
    /\ transport' = [transport EXCEPT !.open = FALSE]
    /\ UNCHANGED InstallerOnly

\* The path was validated; both steps of the manager are taken under its lock.
BeginPath ==
    LET begun == begin_path("backup")
        outcome == IF begun.error THEN begun ELSE established(begun.view, "backup")
    IN  /\ installer.pc = "validated"
        /\ Managed(outcome)
        /\ installer' = [installer EXCEPT !.pc = IF outcome.error THEN "failed" ELSE "done"]
        /\ transport' = [transport EXCEPT !.open = @ /\ ~outcome.error]
        /\ UNCHANGED <<mode, events, statuses>>

\* spawn_path_event_monitor: one event, or the stream's report that it lost some,
\* after which it reads no more.
Monitor ==
    /\ installer.pc = "done" /\ reliable
    /\ events.lagged \/ events.queue # <<>>
    /\ LET outcome == IF events.lagged THEN Unsound ELSE apply_noq_event(Head(events.queue))
       IN  /\ Managed(outcome)
           /\ transport' = [transport EXCEPT !.open = @ /\ ~outcome.error]
    /\ events' = IF events.lagged THEN [events EXCEPT !.lagged = FALSE]
                                  ELSE [events EXCEPT !.queue = Tail(@)]
    /\ UNCHANGED <<mode, installer, statuses>>

-----------------------------------------------------------------------------
\* The transport.

\* Bug: a full stream does not report what it drops.
ReportSilently(event) ==
    events' = IF ~events.subscribed THEN events
              ELSE IF Len(events.queue) < EventCapacity
              THEN [events EXCEPT !.queue = Append(@, event)]
              ELSE [events EXCEPT !.queue = Append(Tail(@), event)]

\* A full stream drops its oldest event and will report it.
Report(event) ==
    events' = IF ~events.subscribed THEN events
              ELSE IF Len(events.queue) < EventCapacity
              THEN [events EXCEPT !.queue = Append(@, event)]
              ELSE [events EXCEPT !.queue = Append(Tail(@), event), !.lagged = TRUE]

Validated ==
    /\ transport.open /\ transport.backup = "validating"
    /\ transport' = [transport EXCEPT !.backup = "open"]
    /\ installer' = [installer EXCEPT !.pc = "validated"]
    /\ Report([kind |-> "established", id |-> "backup"])
    /\ UNCHANGED <<mode, manager, statuses>>

\* A path is given up, and forgotten a while later.  The last one takes the
\* connection with it.
Abandoned(id) ==
    /\ transport.open /\ transport[id] \in {"validating", "open"}
    /\ LET last == \A other \in PathRoles \ {id} : transport[other] # "open"
       IN  transport' = [transport EXCEPT ![id] = "abandoned", !.open = ~last]
    /\ Report([kind |-> "abandoned", id |-> id])
    /\ UNCHANGED <<mode, manager, installer, statuses>>

Discarded(id) ==
    /\ transport.open /\ transport[id] = "abandoned"
    /\ transport' = [transport EXCEPT ![id] = "discarded"]
    /\ Report([kind |-> "discarded", id |-> id])
    /\ UNCHANGED <<mode, manager, installer, statuses>>

PeerStatus(id, status) ==
    /\ transport.open /\ transport[id] # "none" /\ statuses < StatusLimit
    /\ statuses' = statuses + 1
    /\ Report([kind |-> "status", id |-> id, status |-> status])
    /\ UNCHANGED <<mode, manager, installer, transport>>

Closed ==
    /\ transport.open
    /\ transport' = [transport EXCEPT !.open = FALSE]
    /\ UNCHANGED <<mode, manager, installer, events, statuses>>

ClientPathStep == Subscribe \/ OpenPath \/ OpenPathFails \/ BeginPath \/ Monitor

PathNext ==
    \/ ClientPathStep
    \/ Validated \/ Closed
    \/ \E id \in PathRoles : Abandoned(id) \/ Discarded(id)
    \/ \E id \in PathRoles, status \in PathStatuses : PeerStatus(id, status)

-----------------------------------------------------------------------------
\* Connection::path_health
path_health == IF transport.open THEN health ELSE "Failed"

\* What the manager believes of a path, given what the transport did with it.
Believed(id) ==
    CASE transport[id] = "open"      -> paths[id].state = "established"
      [] transport[id] = "abandoned" -> paths[id].state = "lost"
      [] OTHER                       -> paths[id].state = "none"

\* Once the monitor has read what there is to read, its view is the transport's, in
\* every order of events and however the backup fared while it was being installed, and
\* path_health is Ready only with every path open, Degraded only with one; an event it
\* lost or could not place has closed the connection instead.
PathsInSync ==
    /\ ~reliable => ~transport.open
    /\ installer.pc = "done" /\ transport.open /\ events.queue = <<>> /\ ~events.lagged =>
           /\ \A id \in PathRoles : Believed(id)
           /\ path_health = "Ready" =>
                  transport.primary = "open" /\ (mode = "failover" => transport.backup = "open")
           /\ path_health = "Degraded" => \E id \in PathRoles : transport[id] = "open"

\* A path that is gone does not stay usable in the manager's view: the monitor
\* notices, or the connection closes (the event stream, multipath.rs apply_noq_event).
LossNoticed ==
    []<>(\A id \in PathRoles :
             transport[id] \in {"abandoned", "discarded"} /\ installer.pc = "done" /\ transport.open
                 => ~usable(paths[id]))

PathSpec == PathInit /\ [][PathNext]_pathVars /\ WF_pathVars(ClientPathStep)
=============================================================================
