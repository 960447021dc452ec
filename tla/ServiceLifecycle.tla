--------------------------- MODULE ServiceLifecycle ---------------------------
(***************************************************************************)
(* What the supervisor promises about one service, as a user of `pid       *)
(* status` sees it: a state, whether a process backs it, whether a         *)
(* relaunch is pending and whether the quarantine is persisted.            *)
(* One action per documented transition (v0-spec, ADR 0003, 0013, 0014).   *)
(* Budget pauses are outside this specification.                           *)
(***************************************************************************)

VARIABLES
    state,     \* the state shown to the user
    up,        \* a pi process is managed
    relaunch,  \* a relaunch is pending
    held       \* the quarantine is persisted

vars == <<state, up, relaunch, held>>

Init ==
    /\ state \in {"stopped", "quarantined"}
    /\ held = (state = "quarantined")
    /\ up = FALSE
    /\ relaunch = FALSE

\* A start is accepted; a relaunch that was pending may be what started it.
Launch ==
    /\ ~up /\ state \in {"stopped", "failed"}
    /\ state' = "starting"
    /\ relaunch' => relaunch
    /\ UNCHANGED <<up, held>>

Spawned ==
    /\ state = "starting" /\ ~up
    /\ up' = TRUE
    /\ UNCHANGED <<state, relaunch, held>>

CameUp ==
    /\ state = "starting" /\ up
    /\ state' = "running"
    /\ UNCHANGED <<up, relaunch, held>>

\* A stop disarms the relaunch, whether or not there is something to stop.
StopRequested ==
    /\ state' = IF up THEN "stopping" ELSE state
    /\ relaunch' = FALSE
    /\ UNCHANGED <<up, held>>

\* The end of a stop, or of anything while the daemon goes down.
WentDown ==
    /\ up
    /\ up' = FALSE
    /\ state' = "stopped"
    /\ relaunch' = FALSE
    /\ UNCHANGED held

\* An unexpected end.  Only a service that is not being stopped is relaunched.
Died ==
    /\ up /\ state \in {"starting", "running"}
    /\ up' = FALSE
    /\ state' \in {"stopped", "failed"}
    /\ relaunch' \in BOOLEAN
    /\ relaunch => relaunch'
    /\ UNCHANGED held

\* A crash loop, or a user, quarantines the service: it has no process, no relaunch.
Quarantined ==
    /\ up => state \in {"starting", "running"}
    /\ up' = FALSE
    /\ state' = "quarantined"
    /\ relaunch' = FALSE
    /\ held' = TRUE

Released ==
    /\ state' = IF state = "quarantined" THEN "stopped" ELSE state
    /\ held' = FALSE
    /\ UNCHANGED <<up, relaunch>>

\* A relaunch that finds the service held or already up is dropped.
RelaunchDropped ==
    /\ relaunch /\ (up \/ state = "quarantined")
    /\ relaunch' = FALSE
    /\ UNCHANGED <<state, up, held>>

\* The daemon goes down: nothing is relaunched any more.
GoesDown ==
    /\ relaunch' = FALSE
    /\ UNCHANGED <<state, up, held>>

Next ==
    \/ Launch \/ Spawned \/ CameUp \/ StopRequested \/ WentDown \/ Died
    \/ Quarantined \/ Released \/ RelaunchDropped \/ GoesDown

Spec == Init /\ [][Next]_vars

\* The quarantine a user sees is the one that survives a daemon restart.
HeldAsShown == state = "quarantined" => held

===============================================================================
