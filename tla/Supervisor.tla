------------------------------ MODULE Supervisor ------------------------------
(***************************************************************************)
(* The lifecycle of ONE supervised service: src/supervisor/index.ts with   *)
(* the policies it drives, governor/restart.ts (relaunch), the quarantine  *)
(* side of governor/crash.ts and the pause/resume side of governor/cost.ts.*)
(* Every map of the supervisor is keyed by service name, so services only  *)
(* meet in state.json, which is another module's subject.                  *)
(*                                                                         *)
(* The daemon is one JavaScript thread.  A step of this module is the code *)
(* that runs from one suspension point to the next: several calls can be   *)
(* suspended at once, each at an `await`, and that is all the concurrency  *)
(* there is.  A call suspended on I/O or on a timer resumes at any later   *)
(* time.  A call whose promise has just been resolved ("woken") resumes    *)
(* before any further I/O, timer or process event (see Quiet).             *)
(*                                                                         *)
(* Reload (orphaned, pendingConfig) is not part of this module: no reload  *)
(* happens in its behaviours.                                              *)
(***************************************************************************)
EXTENDS Naturals, FiniteSets

CONSTANTS
    Calls,           \* asynchronous calls that can be in flight at once
    Children,        \* pi processes that can be alive at once
    NoCall, NoChild, \* null values
    Requests,        \* the entry points this instance exercises
    Policy,          \* restart.policy
    MaxConsecutive,  \* restart.max_consecutive
    Threshold,       \* quarantine.same_failure_threshold
    Overlap,         \* operations that may begin while another call is in progress
    LogMayFail,      \* can the log directory be unavailable?
    MayOutlive       \* can a run outlive backoff.max_ms?

Policies == {"always", "on-failure", "never"}

EntryPoints ==
    {"start", "stop", "restart", "run", "fire", "quarantine", "unquarantine",
     "override", "charge", "failure", "shutdown"}

\* Operations a call can be running; "relaunch" and "resume" are timer-driven.
Ops == {"none", "start", "relaunch", "resume", "override", "run", "fire", "restart",
        "stop", "charge", "quarantine", "shutdown"}

JobOps == {"run", "fire"}

ASSUME ConstantsAssumption ==
    /\ NoCall \notin Calls
    /\ NoChild \notin Children
    /\ Requests \subseteq EntryPoints
    /\ Overlap \subseteq Ops
    /\ Policy \in Policies
    /\ MaxConsecutive \in Nat \ {0}
    /\ Threshold \in Nat \ {0}
    /\ LogMayFail \in BOOLEAN
    /\ MayOutlive \in BOOLEAN

VARIABLES
    state,       \* record.state
    running,     \* the child in the `running` sidecar map, or NoChild
    proc,        \* what has been done to each pi process; "free" = no process
    everStarted, \* record.startedAt is set
    jobMode,     \* jobMode.has(name)
    waiter,      \* the call whose resolver is in jobWaiters, or NoCall
    started, consecutive, armed,     \* relauncher: Tracked, handle # null
    failures, tripped,               \* crash detector: same-signature failures
                                     \* in the window; Tracked.quarantined
    held,                            \* StateStore: name in quarantined[]
    charging, govPaused, resumeArmed,\* governor: a charge is being persisted;
                                     \* Tracked.paused; resumeHandle # null
    daemon,      \* "up", "shuttingDown", "exited", or "crashed"
    op, pc,      \* of each call: what it is and where it is suspended
    target,      \* the child the call spawned or waits on, or NoChild
    reply        \* the status a runJob call was given, or "none"

lifecycle  == <<state, running, proc, everStarted>>
jobs       == <<jobMode, waiter>>
relauncher == <<started, consecutive, armed>>
crash      == <<failures, tripped, held>>
governor   == <<charging, govPaused, resumeArmed>>
calls      == <<op, pc, target, reply>>
vars == <<lifecycle, jobs, relauncher, crash, governor, daemon, calls>>

ServiceStates ==
    {"stopped", "starting", "running", "stopping", "paused", "quarantined", "failed"}

ProcStates == {"free", "live", "eof", "term", "kill"}

(***************************************************************************)
(* Where a call can be suspended: opening the log, waiting for the child   *)
(* to settle, storing an override, delivering the prompt of an overridden  *)
(* start, waiting for the child to exit (after closing stdin, after        *)
(* SIGTERM, after SIGKILL), waiting for the job to end; "woken" is ready.  *)
(***************************************************************************)
ExitWaits == {"stopWait", "termWait", "killWait"}
PCs == {"idle", "opening", "settling", "storing", "resumed", "jobWait", "woken"} \cup ExitWaits


Init ==
    /\ state \in {"stopped", "paused", "quarantined"}
    /\ running = NoChild
    /\ proc = [c \in Children |-> "free"]
    /\ everStarted = FALSE
    /\ jobMode = FALSE
    /\ waiter = NoCall
    /\ started = FALSE /\ consecutive = 0 /\ armed = FALSE
    /\ failures = 0 /\ tripped = FALSE
    /\ held = (state = "quarantined")
    /\ state = "paused" => "charge" \in Requests
    /\ charging = FALSE
    /\ govPaused = (state = "paused")
    /\ resumeArmed = (state = "paused")
    /\ daemon = "up"
    /\ op = [k \in Calls |-> "none"]
    /\ pc = [k \in Calls |-> "idle"]
    /\ target = [k \in Calls |-> NoChild]
    /\ reply = [k \in Calls |-> "none"]

-----------------------------------------------------------------------------
(* Calls and suspension points. *)

Alive == daemon \in {"up", "shuttingDown"}

\* Resumed promises run to their next await before anything else happens.
Quiet == Alive /\ \A k \in Calls : pc[k] # "woken"

\* Call k may begin as operation o.  A `pid run` waiting for its job to end does not
\* count as being in progress, except for another `pid run`.
MayBegin(k, o) ==
    /\ Quiet
    /\ pc[k] = "idle"
    /\ \/ o \in Overlap
       \/ \A j \in Calls : pc[j] = "idle" \/ (pc[j] = "jobWait" /\ o # "run")

\* Call k, running operation o, suspends at p with child c.
Suspend(k, o, p, c) ==
    /\ op' = [op EXCEPT ![k] = o]
    /\ pc' = [pc EXCEPT ![k] = p]
    /\ target' = [target EXCEPT ![k] = c]
    /\ UNCHANGED reply

Return(k) ==
    /\ op' = [op EXCEPT ![k] = "none"]
    /\ pc' = [pc EXCEPT ![k] = "idle"]
    /\ target' = [target EXCEPT ![k] = NoChild]
    /\ reply' = [reply EXCEPT ![k] = "none"]

\* Call k goes on as o although it keeps its child and its reply.
Reach(k, p) ==
    /\ pc' = [pc EXCEPT ![k] = p]
    /\ UNCHANGED <<op, target, reply>>

-----------------------------------------------------------------------------
(* start() *)

(***************************************************************************)
(* A rejection of start() reaches its caller.  launchJob takes the name    *)
(* out of jobMode and runJob out of jobWaiters; the relauncher and the     *)
(* control plane swallow or report it.  The resume timer discards the      *)
(* promise of doResume with `void`, so there it is an unhandled rejection, *)
(* and Node ends the process.                                              *)
(***************************************************************************)
StartThrows(k, o) ==
    /\ jobMode' = (jobMode /\ o \notin JobOps)
    /\ waiter' = IF o = "run" THEN NoCall ELSE waiter
    /\ daemon' = IF o = "resume" THEN "crashed" ELSE daemon
    /\ Return(k)

\* Mutants: start() without one of its guards.
StartAcceptedTwice(from) == from \notin {"paused", "quarantined"}
StartAcceptedQuarantined(from) == running = NoChild /\ from # "paused"

StartAccepted(from) == running = NoChild /\ from \notin {"paused", "quarantined"}

\* start() from its first line to `await RotatingLogWriter.open`, entered with
\* the record in state `from`.
EnterStart(k, o, from) ==
    \/ /\ StartAccepted(from)
       /\ state' = "starting"
       /\ jobMode' = (jobMode \/ o \in JobOps)
       /\ waiter' = IF o = "run" THEN k ELSE waiter
       /\ Suspend(k, o, "opening", NoChild)
       /\ UNCHANGED daemon
    \/ /\ ~StartAccepted(from)
       /\ state' = from
       /\ StartThrows(k, o)

Start(k) ==
    /\ "start" \in Requests /\ MayBegin(k, "start")
    /\ EnterStart(k, "start", state)
    /\ UNCHANGED <<running, proc, everStarted, relauncher, crash, governor>>

\* The log file is open: spawn pi and put it in the sidecar map, whatever the
\* map and the record now say.
LogOpened(k) ==
    \E c \in Children :
        /\ Quiet /\ pc[k] = "opening"
        /\ proc[c] = "free"
        /\ proc' = [proc EXCEPT ![c] = "live"]
        /\ running' = c
        /\ Suspend(k, op[k], "settling", c)
        /\ UNCHANGED <<state, everStarted, jobs, relauncher, crash, governor, daemon>>

LogOpenFails(k) ==
    /\ LogMayFail /\ Quiet /\ pc[k] = "opening"
    /\ StartThrows(k, op[k])
    /\ UNCHANGED <<lifecycle, relauncher, crash, governor>>

\* Mutant: start() trusts that the child it spawned is still there.
SettledUpBlindly(k) ==
    /\ Quiet /\ pc[k] = "settling"
    /\ state' = "running"
    /\ everStarted' = TRUE
    /\ started' = TRUE
    /\ Return(k)
    /\ UNCHANGED <<running, proc, jobs, consecutive, armed, crash, governor, daemon>>

\* After SPAWN_SETTLE_MS: some child is in the sidecar map, so the service is up.
SettledUp(k) ==
    /\ Quiet /\ pc[k] = "settling"
    /\ running # NoChild
    /\ state' = "running"
    /\ everStarted' = TRUE
    /\ started' = TRUE
    /\ \/ op[k] = "override" /\ Reach(k, "resumed")
       \/ op[k] = "run" /\ reply[k] = "none" /\ Reach(k, "jobWait")
       \/ op[k] = "run" /\ reply[k] # "none" /\ Reach(k, "woken")
       \/ op[k] \notin {"override", "run"} /\ Return(k)
    /\ UNCHANGED <<running, proc, jobs, consecutive, armed, crash, governor, daemon>>

SettledDown(k) ==
    /\ Quiet /\ pc[k] = "settling"
    /\ running = NoChild
    /\ StartThrows(k, op[k])
    /\ UNCHANGED <<lifecycle, relauncher, crash, governor>>

-----------------------------------------------------------------------------
(* stop() and the calls built on it *)

\* Mutant: stop() of a service that is down forgets the relaunch it has pending.
BeginStopDown(k, o) ==
    /\ running = NoChild
    /\ state' = IF state = "paused" THEN "stopped" ELSE state
    /\ Suspend(k, o, "woken", NoChild)
    /\ UNCHANGED <<running, proc, everStarted, relauncher, resumeArmed, govPaused>>

\* stop() from its first line to its first await, on behalf of operation o.
BeginStop(k, o) ==
    /\ started' = FALSE /\ consecutive' = 0 /\ armed' = FALSE
    /\ \/ /\ running = NoChild
          /\ state' = IF state = "paused" THEN "stopped" ELSE state
          /\ resumeArmed' = (resumeArmed /\ state # "paused")
          /\ govPaused' = (state # "paused" /\ (govPaused \/ o \in {"charge", "override"}))
          /\ Suspend(k, o, "woken", NoChild)
          /\ UNCHANGED proc
       \/ /\ running # NoChild
          /\ state' = "stopping"
          /\ proc' = [proc EXCEPT ![running] = IF @ = "live" THEN "eof" ELSE @]
          /\ govPaused' = (govPaused \/ o \in {"charge", "override"})
          /\ Suspend(k, o, "stopWait", running)
          /\ UNCHANGED resumeArmed
    /\ UNCHANGED <<running, everStarted>>

Stop(k) ==
    /\ "stop" \in Requests /\ MayBegin(k, "stop")
    /\ BeginStop(k, "stop")
    /\ UNCHANGED <<jobs, crash, charging, daemon>>

Restart(k) ==
    /\ "restart" \in Requests /\ MayBegin(k, "restart")
    /\ BeginStop(k, "restart")
    /\ UNCHANGED <<jobs, crash, charging, daemon>>

Quarantine(k) ==
    /\ "quarantine" \in Requests /\ MayBegin(k, "quarantine")
    /\ BeginStop(k, "quarantine")
    /\ UNCHANGED <<jobs, crash, charging, daemon>>

\* STOP_GRACE_MS is over: terminate() sends SIGTERM.
StopTimeout(k) ==
    /\ Quiet /\ pc[k] = "stopWait"
    /\ proc' = [proc EXCEPT ![target[k]] = IF @ = "kill" THEN @ ELSE "term"]
    /\ Reach(k, "termWait")
    /\ UNCHANGED <<state, running, everStarted, jobs, relauncher, crash, governor, daemon>>

\* Mutant: terminate() never escalates.
TerminateTimeoutGently(k) ==
    /\ Quiet /\ pc[k] = "termWait"
    /\ Reach(k, "killWait")
    /\ UNCHANGED <<lifecycle, jobs, relauncher, crash, governor, daemon>>

\* TERMINATE_GRACE_MS is over: SIGKILL.
TerminateTimeout(k) ==
    /\ Quiet /\ pc[k] = "termWait"
    /\ proc' = [proc EXCEPT ![target[k]] = "kill"]
    /\ Reach(k, "killWait")
    /\ UNCHANGED <<state, running, everStarted, jobs, relauncher, crash, governor, daemon>>

\* What follows `await this.stop(name)` in stop, restart, pause, quarantine and
\* shutdown, and `await done` in runJob.
StopReturns(k) ==
    /\ Alive /\ pc[k] = "woken" /\ op[k] \in {"stop", "run"}
    /\ Return(k)
    /\ UNCHANGED <<lifecycle, jobs, relauncher, crash, governor, daemon>>

RestartContinues(k) ==
    /\ Alive /\ pc[k] = "woken" /\ op[k] = "restart"
    /\ EnterStart(k, "restart", state)
    /\ UNCHANGED <<running, proc, everStarted, relauncher, crash, governor>>

PauseContinues(k) ==
    /\ Alive /\ pc[k] = "woken" /\ op[k] \in {"charge", "override"}
    /\ state' = "paused"
    /\ resumeArmed' = TRUE
    /\ Return(k)
    /\ UNCHANGED <<running, proc, everStarted, jobs, relauncher, crash, charging, govPaused, daemon>>

\* Mutant: quarantine() does not persist the bit.
QuarantineContinuesUnsaved(k) ==
    /\ Alive /\ pc[k] = "woken" /\ op[k] = "quarantine"
    /\ state' = "quarantined"
    /\ Return(k)
    /\ UNCHANGED <<running, proc, everStarted, jobs, relauncher, crash, governor, daemon>>

QuarantineContinues(k) ==
    /\ Alive /\ pc[k] = "woken" /\ op[k] = "quarantine"
    /\ state' = "quarantined"
    /\ held' = TRUE
    /\ Return(k)
    /\ UNCHANGED <<running, proc, everStarted, jobs, relauncher, failures, tripped, governor, daemon>>

Unquarantine ==
    /\ "unquarantine" \in Requests /\ Quiet
    /\ state' = IF state = "quarantined" THEN "stopped" ELSE state
    /\ failures' = 0 /\ tripped' = FALSE /\ held' = FALSE
    /\ UNCHANGED <<running, proc, everStarted, jobs, relauncher, governor, daemon, calls>>

-----------------------------------------------------------------------------
(* One-shot jobs: runJob() ("run") and the file_watch trigger ("fire"). *)

LaunchJob(k, o) ==
    /\ o \in Requests /\ MayBegin(k, o)
    /\ \/ /\ running # NoChild          \* "a run is already in progress"
          /\ waiter' = IF o = "run" THEN NoCall ELSE waiter
          /\ UNCHANGED <<state, jobMode, daemon, calls>>
       \/ /\ running = NoChild
          /\ EnterStart(k, o, state)
    /\ UNCHANGED <<running, proc, everStarted, relauncher, crash, governor>>

\* A terminal agent_end on the stdout of any pi of this service: the job stops.
JobTurnEnds(k) ==
    /\ MayBegin(k, "stop")
    /\ jobMode
    /\ \E c \in Children : proc[c] # "free"
    /\ BeginStop(k, "stop")
    /\ UNCHANGED <<jobs, crash, charging, daemon>>

-----------------------------------------------------------------------------
(* A pi process exits: the exit handlers of start, waitForExit, terminate. *)

\* Mutant: finalizeExit() does not know that the daemon is shutting down.
DeliberateStopOnly == state = "stopping"

Deliberate == state = "stopping" \/ daemon = "shuttingDown"

\* Mutant: finalizeExit() treats a job like a long-running service.
EligibleJobs == ~Deliberate /\ started

\* Only these exits feed the crash detector and the relauncher.
Eligible == ~Deliberate /\ ~jobMode /\ started

\* Mutant: terminate() does not listen for the exit.
WakeGraceful(c, w, s) ==
    /\ pc' = [k \in Calls |->
                IF \/ pc[k] = "stopWait" /\ target[k] = c
                   \/ k = w /\ pc[k] = "jobWait"
                THEN "woken" ELSE pc[k]]
    /\ reply' = [k \in Calls |-> IF k = w THEN s ELSE reply[k]]
    /\ UNCHANGED <<op, target>>

\* Calls suspended on the exit of c resume; the job's caller is given status s.
Wake(c, w, s) ==
    /\ pc' = [k \in Calls |->
                IF \/ pc[k] \in ExitWaits /\ target[k] = c
                   \/ k = w /\ pc[k] = "jobWait"
                THEN "woken" ELSE pc[k]]
    /\ reply' = [k \in Calls |-> IF k = w THEN s ELSE reply[k]]
    /\ UNCHANGED <<op, target>>

\* Mutant: finalizeExit() drops the job's waiter without calling it.
FinalizeExitSilently(c, s) ==
    /\ Quiet /\ proc[c] # "free" /\ running = c
    /\ proc' = [proc EXCEPT ![c] = "free"]
    /\ running' = NoChild
    /\ state' = s
    /\ jobMode' = FALSE
    /\ waiter' = NoCall
    /\ Wake(c, NoCall, "none")
    /\ UNCHANGED <<everStarted, governor, daemon>>

\* finalizeExit() apart from the policies; s is the state it leaves.
FinalizeExit(c, s) ==
    /\ Quiet /\ proc[c] # "free" /\ running = c
    /\ proc' = [proc EXCEPT ![c] = "free"]
    /\ running' = NoChild
    /\ state' = s
    /\ jobMode' = FALSE
    /\ waiter' = NoCall
    /\ Wake(c, waiter, s)
    /\ UNCHANGED <<everStarted, governor, daemon>>

ExitState(failed) == IF failed THEN "failed" ELSE "stopped"

\* Mutant: finalizeExit() without the identity guard.
StaleExitBelieved(c) ==
    /\ Quiet /\ proc[c] # "free" /\ running # c
    /\ proc' = [proc EXCEPT ![c] = "free"]
    /\ running' = NoChild
    /\ state' = "stopped"
    /\ Wake(c, NoCall, "none")
    /\ UNCHANGED <<everStarted, jobs, relauncher, crash, governor, daemon>>

\* The sidecar map no longer points at c: the supervisor ignores its exit.
StaleExit(c) ==
    /\ Quiet /\ proc[c] # "free" /\ running # c
    /\ proc' = [proc EXCEPT ![c] = "free"]
    /\ Wake(c, NoCall, "none")
    /\ UNCHANGED <<state, running, everStarted, jobs, relauncher, crash, governor, daemon>>

CancelRelaunch == started' = FALSE /\ consecutive' = 0 /\ armed' = FALSE

DeliberateExit(c) ==
    /\ Deliberate
    /\ FinalizeExit(c, "stopped")
    /\ CancelRelaunch
    /\ UNCHANGED crash

\* Mutant: finalizeExit() leaves the record alone when nobody relaunches.
IneligibleExitUnrecorded(c, failed) ==
    /\ ~Deliberate /\ ~Eligible
    /\ FinalizeExit(c, state)
    /\ UNCHANGED <<relauncher, crash>>

\* A job, or a service that has not reached `running`: nobody relaunches it.
IneligibleExit(c, failed) ==
    /\ ~Deliberate /\ ~Eligible
    /\ FinalizeExit(c, ExitState(failed))
    /\ UNCHANGED <<relauncher, crash>>

\* n same-signature failures are in the window, this one included; the older
\* ones may have left it.
Observed(n) == n \in 1 .. (failures + 1)

Trips(n) == ~tripped /\ n >= Threshold

Capped(n) == IF n < Threshold THEN n ELSE Threshold

QuarantiningExit(c) ==
    \E n \in 1 .. (Threshold + 1) :
        /\ Eligible /\ Observed(n) /\ Trips(n)
        /\ FinalizeExit(c, "quarantined")
        /\ failures' = Capped(n) /\ tripped' = TRUE /\ held' = TRUE
        /\ CancelRelaunch

\* The crash detector lets the exit pass; the relauncher decides.
PassedExit(c, failed) ==
    /\ Eligible
    /\ FinalizeExit(c, ExitState(failed))
    /\ \/ failed /\ \E n \in 1 .. (Threshold + 1) :
                        Observed(n) /\ ~Trips(n) /\ failures' = Capped(n)
       \/ ~failed /\ UNCHANGED failures
    /\ UNCHANGED <<tripped, held>>

Wanted(failed) == Policy = "always" \/ (Policy = "on-failure" /\ failed)

\* Mutant: every exit clears the flap counter.
FlapsForgotten(outlived) == 0

\* The flap counter onExit() decides on.  uptimeMs is measured from
\* record.startedAt, which start() does not clear.
Flaps(outlived) == IF outlived THEN 0 ELSE consecutive

UptimeMayBe(outlived) == outlived => MayOutlive /\ everStarted

DeclinedExit(c, failed, outlived) ==
    /\ UptimeMayBe(outlived) /\ ~Wanted(failed)
    /\ PassedExit(c, failed)
    /\ consecutive' = Flaps(outlived)
    /\ UNCHANGED <<started, armed>>

\* Mutant: one relaunch too many.
RelaunchedExitOnceMore(c, failed, outlived) ==
    /\ UptimeMayBe(outlived) /\ Wanted(failed)
    /\ Flaps(outlived) <= MaxConsecutive
    /\ PassedExit(c, failed)
    /\ consecutive' = Flaps(outlived) + 1
    /\ armed' = TRUE
    /\ UNCHANGED started

RelaunchedExit(c, failed, outlived) ==
    /\ UptimeMayBe(outlived) /\ Wanted(failed)
    /\ Flaps(outlived) < MaxConsecutive
    /\ PassedExit(c, failed)
    /\ consecutive' = Flaps(outlived) + 1
    /\ armed' = TRUE
    /\ UNCHANGED started

GivenUpExit(c, failed, outlived) ==
    /\ UptimeMayBe(outlived) /\ Wanted(failed)
    /\ Flaps(outlived) >= MaxConsecutive
    /\ PassedExit(c, failed)
    /\ started' = FALSE
    /\ consecutive' = 0
    /\ UNCHANGED armed

ChildExits(c) ==
    \/ StaleExit(c)
    \/ DeliberateExit(c)
    \/ QuarantiningExit(c)
    \/ \E failed \in BOOLEAN :
          \/ IneligibleExit(c, failed)
          \/ \E outlived \in BOOLEAN :
                \/ DeclinedExit(c, failed, outlived)
                \/ RelaunchedExit(c, failed, outlived)
                \/ GivenUpExit(c, failed, outlived)

\* The backoff timer fires.
RelaunchFires(k) ==
    /\ MayBegin(k, "relaunch")
    /\ armed
    /\ armed' = FALSE
    /\ EnterStart(k, "relaunch", state)
    /\ UNCHANGED <<running, proc, everStarted, started, consecutive, crash, governor>>

\* A failure event on the stdout of a live pi (tool, extension or agent error).
FailureEvent(k) ==
    \E n \in 1 .. (Threshold + 1) :
        /\ "failure" \in Requests /\ MayBegin(k, "quarantine")
        /\ \E c \in Children : proc[c] # "free"
        /\ Observed(n)
        /\ failures' = Capped(n)
        /\ \/ /\ Trips(n)
              /\ tripped' = TRUE
              /\ BeginStop(k, "quarantine")
              /\ UNCHANGED <<jobs, held, charging, daemon>>
           \/ /\ ~Trips(n)
              /\ UNCHANGED <<lifecycle, jobs, relauncher, tripped, held, governor, daemon, calls>>

-----------------------------------------------------------------------------
(* The cost governor's pause and resume. *)

\* A usage event on the stdout of a live pi: its charge is being persisted.
UsageEvent ==
    /\ "charge" \in Requests /\ Quiet
    /\ ~charging
    /\ \E c \in Children : proc[c] # "free"
    /\ charging' = TRUE
    /\ UNCHANGED <<lifecycle, jobs, relauncher, crash, govPaused, resumeArmed, daemon, calls>>

\* The governor handles one charge at a time.
ChargeQueueFree == \A k \in Calls : op[k] # "charge"

ChargePersisted(k) ==
    /\ MayBegin(k, "charge")
    /\ charging /\ ChargeQueueFree
    /\ charging' = FALSE
    /\ \/ UNCHANGED <<lifecycle, jobs, relauncher, crash, govPaused, resumeArmed, daemon, calls>>
       \/ /\ ~govPaused                     \* a cap is breached
          /\ BeginStop(k, "charge")
          /\ UNCHANGED <<jobs, crash, daemon>>

\* resume(): the record leaves `paused` and the service is started.
Resumed == IF state = "paused" THEN "stopped" ELSE state

\* The window has rolled over: doResume().
ResumeFires(k) ==
    /\ MayBegin(k, "resume")
    /\ resumeArmed
    /\ resumeArmed' = FALSE
    /\ govPaused' = FALSE
    /\ \/ /\ running # NoChild
          /\ UNCHANGED <<state, jobs, daemon, calls>>
       \/ /\ running = NoChild
          /\ EnterStart(k, "resume", Resumed)
    /\ UNCHANGED <<running, proc, everStarted, relauncher, crash, charging>>

\* `pid resume`: override() up to the await of the budget store.
Override(k) ==
    /\ "override" \in Requests /\ MayBegin(k, "override")
    /\ resumeArmed' = FALSE
    /\ Suspend(k, "override", "storing", NoChild)
    /\ UNCHANGED <<lifecycle, jobs, relauncher, crash, charging, govPaused, daemon>>

OverrideStored(k) ==
    /\ Quiet /\ pc[k] = "storing"
    /\ govPaused' = FALSE
    /\ \/ /\ running # NoChild
          /\ Reach(k, "resumed")
          /\ UNCHANGED <<state, jobs, daemon>>
       \/ /\ running = NoChild
          /\ EnterStart(k, "override", Resumed)
    /\ UNCHANGED <<running, proc, everStarted, relauncher, crash, charging, resumeArmed>>

\* Back in override(): a cap it did not lift may still be breached.
OverrideResumed(k) ==
    /\ Quiet /\ pc[k] = "resumed"
    /\ \/ /\ Return(k)
          /\ UNCHANGED <<lifecycle, relauncher, govPaused, resumeArmed>>
       \/ BeginStop(k, "override")
    /\ UNCHANGED <<jobs, crash, charging, daemon>>

-----------------------------------------------------------------------------
(* Daemon shutdown: the timers are disposed of and the children reaped. *)

Shutdown(k) ==
    /\ "shutdown" \in Requests /\ MayBegin(k, "shutdown")
    /\ daemon' = "shuttingDown"
    /\ armed' = FALSE
    /\ resumeArmed' = FALSE
    /\ \/ /\ running = NoChild
          /\ Suspend(k, "shutdown", "woken", NoChild)
          /\ UNCHANGED proc
       \/ /\ running # NoChild
          /\ proc' = [proc EXCEPT ![running] = IF @ = "kill" THEN @ ELSE "term"]
          /\ Suspend(k, "shutdown", "termWait", running)
    /\ UNCHANGED <<state, running, everStarted, jobs, started, consecutive, crash, charging, govPaused>>

ShutdownContinues(k) ==
    /\ Alive /\ pc[k] = "woken" /\ op[k] = "shutdown"
    /\ daemon' = "exited"
    /\ Return(k)
    /\ UNCHANGED <<lifecycle, jobs, relauncher, crash, governor>>

-----------------------------------------------------------------------------

Continuation(k) ==
    \/ StopReturns(k) \/ RestartContinues(k) \/ PauseContinues(k)
    \/ QuarantineContinues(k) \/ ShutdownContinues(k)

IOCompletes(k) ==
    \/ LogOpened(k) \/ LogOpenFails(k)
    \/ ChargePersisted(k) \/ OverrideStored(k) \/ OverrideResumed(k)

TimerFires(k) ==
    \/ SettledUp(k) \/ SettledDown(k)
    \/ StopTimeout(k) \/ TerminateTimeout(k)
    \/ RelaunchFires(k) \/ ResumeFires(k)

Request(k) ==
    \/ Start(k) \/ Stop(k) \/ Restart(k) \/ Quarantine(k) \/ Override(k)
    \/ LaunchJob(k, "run") \/ LaunchJob(k, "fire") \/ Shutdown(k)

Event(k) == JobTurnEnds(k) \/ FailureEvent(k)

Next ==
    \/ \E k \in Calls : Continuation(k) \/ IOCompletes(k) \/ TimerFires(k) \/ Request(k) \/ Event(k)
    \/ \E c \in Children : ChildExits(c)
    \/ Unquarantine \/ UsageEvent

(***************************************************************************)
(* Fairness.  The event loop runs every ready continuation; timers that    *)
(* are due fire, I/O that is done completes and the kernel delivers        *)
(* SIGKILL.  Each turn of the loop looks at all three, so a stream of      *)
(* requests, whose woken calls keep making Quiet false for a moment, cannot*)
(* starve them: strong fairness.  Nothing is assumed of pi or of users.    *)
(***************************************************************************)
Fairness ==
    /\ \A k \in Calls : WF_vars(Continuation(k)) /\ SF_vars(IOCompletes(k)) /\ SF_vars(TimerFires(k))
    /\ \A c \in Children : SF_vars(proc[c] = "kill" /\ ChildExits(c))

Spec == Init /\ [][Next]_vars

FairSpec == Spec /\ Fairness

-----------------------------------------------------------------------------
(* Type invariant. *)

\* Every variable of the service, its policies and its calls has the values
\* the code can give it; the flap counter never passes its cap.
TypeOK ==
    /\ state \in ServiceStates
    /\ running \in Children \cup {NoChild}
    /\ proc \in [Children -> ProcStates]
    /\ everStarted \in BOOLEAN
    /\ jobMode \in BOOLEAN
    /\ waiter \in Calls \cup {NoCall}
    /\ started \in BOOLEAN
    /\ consecutive \in 0 .. MaxConsecutive
    /\ armed \in BOOLEAN
    /\ failures \in 0 .. Threshold
    /\ tripped \in BOOLEAN
    /\ held \in BOOLEAN
    /\ charging \in BOOLEAN
    /\ govPaused \in BOOLEAN
    /\ resumeArmed \in BOOLEAN
    /\ daemon \in {"up", "shuttingDown", "exited", "crashed"}
    /\ op \in [Calls -> Ops]
    /\ pc \in [Calls -> PCs]
    /\ target \in [Calls -> Children \cup {NoChild}]
    /\ reply \in [Calls -> ServiceStates \cup {"none"}]

-----------------------------------------------------------------------------
(* What holds however calls, timers, exits and events interleave. *)

\* A service shown as running or stopping has a process in the sidecar map, and
\* that process is alive: finalizeExit leaves neither state without a child to
\* end it (supervisor/index.ts finalizeExit, stop, start).
StateHasProcess ==
    /\ state \in {"running", "stopping"} => running # NoChild
    /\ running # NoChild => proc[running] # "free"

\* No lost wake-up: a stop, restart, pause, quarantine or shutdown that waits for
\* an exit waits for a process that can still exit (waitForExit, terminate).
WaitsOnLiveProcess ==
    \A k \in Calls : pc[k] \in ExitWaits => target[k] \in Children /\ proc[target[k]] # "free"

\* A service shown as quarantined is in the persisted quarantined[] set, so that a
\* daemon restart holds it too (quarantine, finalizeExit, unquarantine).
QuarantineHeld == state = "quarantined" => held

\* Once shutdown has begun no relaunch is pending, even though children keep
\* exiting and starts in flight keep settling (shutdown, finalizeExit, onExit).
ShutdownSilencesRelaunch == daemon \in {"shuttingDown", "exited"} => ~armed

\* In this step the process in slot c exits.
Exits(c) == proc[c] # "free" /\ proc'[c] = "free"

\* The exit of a process the sidecar map no longer points at changes nothing that
\* belongs to the process that replaced it (the identity guard of finalizeExit).
StaleExitIgnored ==
    [][\A c \in Children : Exits(c) /\ running # c =>
            UNCHANGED <<state, running, everStarted, jobs, relauncher, crash>>]_vars

\* A relaunch is armed only by the unexpected exit of the managed child of a
\* long-running service that has run, never by a teardown, by a job, or while the
\* daemon goes down (finalizeExit, ADR 0013).
RelaunchOnlyAfterUnexpectedExit ==
    [][~armed /\ armed' =>
            /\ started /\ ~jobMode /\ state # "stopping" /\ daemon = "up"
            /\ \E c \in Children : Exits(c) /\ running = c]_vars

\* A job that ends, however it ends, arms no relaunch and counts towards no
\* crash loop (finalizeExit: "excluded from the relauncher").
JobNeverKeptAlive ==
    [][\A c \in Children : Exits(c) /\ running = c /\ jobMode =>
            (armed' => armed) /\ failures' = failures]_vars

\* A `pid run` that is still waiting can still be answered: its resolver is the one
\* in jobWaiters.  Holds if runs of the service do not overlap (runJob).
RunCanBeAnswered ==
    \A k \in Calls : op[k] = "run" /\ reply[k] = "none" => waiter = k

\* A service shown as starting is being started: if the log can be opened, no start
\* ends, and no other call cuts in, so as to leave `starting` behind (start).
StartingIsInProgress ==
    state = "starting" => \E k \in Calls : pc[k] \in {"opening", "settling"}

-----------------------------------------------------------------------------
(* What holds when calls do not overlap. *)

\* At most one pi process of the service is alive (start's `running` guard; launchJob:
\* "Refuses to overlap a run already in flight").
OneProcess == Cardinality({c \in Children : proc[c] # "free"}) <= 1

\* Only `pid unquarantine` ends a quarantine (crash.ts: "Quarantine is *terminal*").
QuarantineIsTerminal ==
    [][state = "quarantined" /\ state' # "quarantined" => ~held']_vars

\* The documented life cycle of a service, of which this module is a detailed
\* implementation as long as calls do not overlap.
Abstract == INSTANCE ServiceLifecycle WITH
    state <- state, up <- running # NoChild, relaunch <- armed, held <- held

\* Every step of the supervisor is a step of the documented life cycle (start, stop,
\* finalizeExit, quarantine, unquarantine).
ImplementsLifecycle == Abstract!Spec

-----------------------------------------------------------------------------
(* Progress. *)

\* stop() always completes: closing stdin, SIGTERM and SIGKILL in turn end the
\* child, unless the daemon ends first (stop, terminate).
StopCompletes ==
    \A k \in Calls : pc[k] \in ExitWaits ~> (pc[k] \notin ExitWaits \/ ~Alive)

\* A crash loop ends: without runs that outlive the longest backoff, relaunches go
\* on for ever only if users keep starting or stopping the service: nothing the code
\* does by itself resets the flap counter (Relauncher.onExit's cap).
CrashLoopEnds ==
    []<><<\E k \in Calls : RelaunchFires(k)>>_vars
        => []<><<\E k \in Calls : Start(k) \/ Stop(k)>>_vars

-----------------------------------------------------------------------------
(* What the repository says and the code does not do: see the README's findings. *)

\* The end of a child somebody is deliberately stopping is not a failure and arms no
\* relaunch (finalizeExit; restart.ts header).
TeardownIsNotAFailure ==
    [][\A c \in Children :
            /\ Exits(c) /\ running = c
            /\ \E k \in Calls : pc[k] \in ExitWaits /\ target[k] = c
            => state' # "failed" /\ (armed' => armed)]_vars

===============================================================================
