-------------------------------- MODULE Registry --------------------------------
(***************************************************************************)
(* The supervisor's registry of services against the files that define     *)
(* them: supervisor/index.ts (constructor, init, start's adoption of a     *)
(* staged definition, reload, enable, disable, unquarantine, startEnabled, *)
(* syncTriggers, the deregistration in finalizeExit), services/loader.ts,  *)
(* state/store.ts, the boot in daemon.ts, composed with FileWatch.         *)
(*                                                                         *)
(* Of a service's life it keeps what the registry can tell apart: a start  *)
(* that may be suspended at the budget store, at the log and in its        *)
(* settle, a child that may exit at any moment, a relaunch that may be     *)
(* pending.  How often it relaunches and when it quarantines are free here *)
(* (Supervisor.tla and CrashDetector.tla have them).  A step is the code   *)
(* between two suspension points.                                          *)
(***************************************************************************)
EXTENDS FileWatch, Sequences

CONSTANTS
    Calls,      \* requests, launches and the boot that can be in progress at once
    Broken,     \* a service file that does not parse, or is not a valid service
    Requests,   \* the requests this instance exercises
    Budgeted,   \* the definitions with a budget, whose store has to be opened
    Overlap,    \* what may begin during another call: "reload" a reload during a start and a
                \* start during a reload, "again" a second start of a service, a second reload
    MaxEvents   \* bound: edits of service files, crashes and failures together

ASSUME RegistryAssumption ==
    /\ Broken \notin Definition /\ Broken # None /\ None \notin Calls \cup Service
    /\ Requests \subseteq {"start", "stop", "restart", "enable", "disable", "unquarantine", "reload"}
    /\ Budgeted \subseteq Definition
    /\ Overlap \subseteq {"reload", "again"}
    /\ MaxEvents \in Nat

VARIABLES
    files,            \* the service directory
    record,           \* Supervisor.services
    child,            \* Supervisor.running: the definition its arguments come from, and the
                      \* one its command, directory and environment come from
    job,              \* Supervisor.jobMode
    governed,         \* of each service: the definition whose budget the cost governor has
    started, armed,   \* the relauncher's Tracked.started, and whether its timer is set
    mem, disk,        \* StateStore.state and state.json
    writes,           \* StateStore.queue: who waits for which snapshot
    call,             \* the calls in progress
    daemon, events,   \* "up" or "down"; edits, crashes and failures so far
    promised,         \* history: the enabled bit last acknowledged, "open" while it may change
    agreed,           \* history: whether the registry was read from the files as they are
    forgotten,        \* history: names that were not registered at some time since the boot
    unopened,         \* history: services whose budget store did not open when last tried
    raced             \* history: services reloaded while a start of theirs was on its way

lifecycle == <<child, job, governed, unopened, started, armed>>
history == <<promised, agreed, forgotten, raced>>
store == <<mem, disk, writes>>
power == <<daemon, events>>
vars == <<watchVars, files, record, lifecycle, store, call, power,
          history>>

\* "stopped" stands for "failed" too: no step of the registry tells them apart.
States == {"stopped", "starting", "running", "stopping", "quarantined"}
Record == [config : Definition, pending : Definition \cup {None},
           orphaned : BOOLEAN, state : States]
Child == [args : Definition, rest : Definition]
Bits == [enabled : SUBSET Service, quarantined : SUBSET Service]

Spawning == {"budget", "log"}
Reloading == {"load", "reconcile", "wire"}

\* args: the definition pi's arguments were made from; own: the definition in the record a
\* start goes on with once that record is no longer the registered one; todo: names a loop
\* has still to visit; load: the LoadResult of a reload.
Call == [op : {"none", "start", "job", "restart", "boot", "enable", "disable",
               "unquarantine", "reload"},
         pc : {"idle", "settle", "stopping", "write", "written", "next"} \cup Spawning \cup Reloading,
         on : Service \cup {None},
         args : Definition \cup {None}, own : Definition \cup {None},
         todo : SUBSET Service, load : [Service -> Definition \cup {None}]]

\* None is no object of the program.
ASSUME NullAssumption == None \notin Record \cup Child \cup Watcher

\* Every variable has its type.
TypeOK ==
    /\ FileWatchTypeOK
    /\ files \in [Service -> Definition \cup {None, Broken}]
    /\ record \in [Service -> Record \cup {None}]
    /\ child \in [Service -> Child \cup {None}]
    /\ job \in SUBSET Service
    /\ governed \in [Service -> Definition \cup {None}]
    /\ started \in [Service -> BOOLEAN] /\ armed \in [Service -> BOOLEAN]
    /\ mem \in Bits /\ disk \in Bits
    /\ writes \in Seq([by : Calls \cup {None}, bits : Bits])
    /\ call \in [Calls -> Call]
    /\ daemon \in {"up", "down"} /\ events \in 0..MaxEvents
    /\ promised \in [Service -> {"yes", "no", "open"}]
    /\ agreed \in {"edited", "loading", "agreed"}
    /\ forgotten \in SUBSET Service /\ unopened \in SUBSET Service
    /\ raced \in SUBSET Service

-----------------------------------------------------------------------------
(* Calls. *)

Idle == [op |-> "none", pc |-> "idle", on |-> None, args |-> None, own |-> None,
         todo |-> {}, load |-> [s \in Service |-> None]]

Registered == {s \in Service : record[s] # None}

\* Settled promises run before anything else.
Ready(k) ==
    \/ call[k].pc \in {"written", "next", "reconcile"}
    \/ call[k].pc = "stopping" /\ child[call[k].on] = None

Quiet == daemon = "up" /\ \A k \in Calls : ~Ready(k)

\* What others do to files is seen between two ticks.
Outside == Quiet \/ daemon = "down"

Happens == events < MaxEvents /\ events' = events + 1

Free(k) == call[k] = Idle

InProgress(pcs) == {k \in Calls : call[k].pc \in pcs}

\* Services that a call is starting, or is about to.
Claimed ==
    {call[k].on : k \in InProgress(Spawning \cup {"stopping"})}
    \cup UNION {call[k].todo : k \in {k \in Calls : call[k].op = "boot"}}

\* Services of these whose start is suspended before its spawn.
OnTheirWay(names) == {s \in names : \E k \in InProgress(Spawning) : call[k].on = s}

MayStart(s) ==
    /\ "reload" \in Overlap \/ InProgress(Reloading) = {}
    /\ "again" \in Overlap \/ s \notin Claimed

MayReload ==
    /\ "reload" \in Overlap \/ (Claimed = {} /\ ~\E k \in Calls : call[k].op = "boot")
    /\ "again" \in Overlap \/ InProgress(Reloading) = {}

-----------------------------------------------------------------------------
(* The policies and triggers wired to a service. *)

\* Mutant: the watcher of a disabled service is left alone.
SyncedArmsOnly(registry) ==
    [s \in Service |->
        IF registry[s] # None /\ TriggerOf[registry[s].config] # None /\ s \in mem.enabled
        THEN Armed(s, TriggerOf[registry[s].config])
        ELSE tracked[s]]

\* syncTriggers(): only the services in the registry are visited.
Synced(registry) ==
    [s \in Service |->
        IF registry[s] = None THEN tracked[s]
        ELSE IF TriggerOf[registry[s].config] # None /\ s \in mem.enabled
        THEN Armed(s, TriggerOf[registry[s].config])
        ELSE None]

\* relauncher.register() and cancel(): ineligible, and no relaunch pending.
Disarm(names) ==
    /\ started' = [s \in Service |-> started[s] /\ s \notin names]
    /\ armed' = [s \in Service |-> armed[s] /\ s \notin names]

\* deregister(): a start in progress goes on with the record it holds.
Detached(c, names) ==
    [k \in Calls |->
        IF /\ c[k].on \in names /\ c[k].own = None
           /\ c[k].pc \in Spawning \cup {"settle"}
        THEN [c[k] EXCEPT !.own = record[c[k].on].config]
        ELSE c[k]]

\* wireBudget(), once the store is open.
Governed(s, d) ==
    /\ governed' = [governed EXCEPT ![s] = IF d \in Budgeted THEN d ELSE None]
    /\ unopened' = unopened \ {s}

\* wireBudget(): the store does not open, and the call that waits for it throws.
MayNotOpen(s) ==
    /\ Happens
    /\ unopened' = unopened \cup {s}

\* Mutant: the relauncher is not told.
DeregisterKeepsTimer(names) ==
    /\ UNCHANGED <<started, armed>>
    /\ governed' = [s \in Service |-> IF s \in names THEN None ELSE governed[s]]
    /\ forgotten' = forgotten \cup names /\ raced' = raced \cup OnTheirWay(names)

\* deregister(), apart from the registry itself.
Deregister(names) ==
    /\ Disarm(names)
    /\ governed' = [s \in Service |-> IF s \in names THEN None ELSE governed[s]]
    /\ forgotten' = forgotten \cup names /\ raced' = raced \cup OnTheirWay(names)

-----------------------------------------------------------------------------
(* The state store. *)

\* setEnabled() and setQuarantined(): memory changes at once, the snapshot is queued.
Save(by, bits) ==
    /\ mem' = bits
    /\ writes' = Append(writes, [by |-> by, bits |-> bits])
    /\ UNCHANGED disk

WithEnabled(s, on) ==
    [mem EXCEPT !.enabled = IF on THEN @ \cup {s} ELSE @ \ {s}]

\* Mutant: the snapshot is made from the file instead of from memory.
WithQuarantinedOnDisk(s, held) ==
    [disk EXCEPT !.quarantined = IF held THEN @ \cup {s} ELSE @ \ {s}]

WithQuarantined(s, held) ==
    [mem EXCEPT !.quarantined = IF held THEN @ \cup {s} ELSE @ \ {s}]

\* write(): rename() put the oldest queued snapshot in place.
WriteEnds ==
    /\ Quiet /\ writes # <<>>
    /\ disk' = Head(writes).bits
    /\ writes' = Tail(writes)
    /\ call' = [k \in Calls |->
                   IF k = Head(writes).by THEN [call[k] EXCEPT !.pc = "written"] ELSE call[k]]
    /\ UNCHANGED <<watchVars, files, record, lifecycle, mem, power,
                   history>>

\* write() threw: memory keeps the change, the caller gets the error, the queue goes on.
WriteFails ==
    /\ Quiet /\ writes # <<>> /\ Happens
    /\ writes' = Tail(writes)
    /\ call' = [k \in Calls |-> IF k = Head(writes).by THEN Idle ELSE call[k]]
    /\ UNCHANGED <<watchVars, files, record, lifecycle, mem, disk, daemon,
                   history>>

\* enable(), disable(): up to the write.
Enable(k, s, bit) ==
    /\ Quiet /\ Free(k) /\ s \in Registered
    /\ (IF bit THEN "enable" ELSE "disable") \in Requests
    /\ Save(k, WithEnabled(s, bit))
    /\ call' = [call EXCEPT ![k] = [Idle EXCEPT !.op = IF bit THEN "enable" ELSE "disable",
                                                !.pc = "write", !.on = s]]
    /\ promised' = [promised EXCEPT ![s] = "open"]
    /\ UNCHANGED <<watchVars, files, record, lifecycle, power, agreed, forgotten, raced>>

Toggling(k, s) == call[k].op \in {"enable", "disable"} /\ call[k].on = s

\* enable(), disable(): the triggers, then the answer.
EnableReturns(k) ==
    LET s == call[k].on
    IN  /\ call[k].pc = "written" /\ Toggling(k, s)
        /\ tracked' = Synced(record)
        /\ call' = [call EXCEPT ![k] = Idle]
        /\ promised' = IF \E j \in Calls \ {k} : Toggling(j, s) THEN promised
                       ELSE [promised EXCEPT ![s] = IF call[k].op = "enable" THEN "yes" ELSE "no"]
        /\ UNCHANGED <<listing, changes, files, record, lifecycle, store, power, agreed, forgotten, raced>>

\* unquarantine(): up to the write.
Unquarantine(k, s) ==
    /\ Quiet /\ Free(k) /\ s \in Registered /\ "unquarantine" \in Requests
    /\ record' = IF record[s].state = "quarantined"
                 THEN [record EXCEPT ![s].state = "stopped"] ELSE record
    /\ Save(k, WithQuarantined(s, FALSE))
    /\ call' = [call EXCEPT ![k] = [Idle EXCEPT !.op = "unquarantine", !.pc = "write", !.on = s]]
    /\ UNCHANGED <<watchVars, files, lifecycle, power, history>>

UnquarantineReturns(k) ==
    /\ call[k].pc = "written" /\ call[k].op = "unquarantine"
    /\ call' = [call EXCEPT ![k] = Idle]
    /\ UNCHANGED <<watchVars, files, record, lifecycle, store, power,
                   history>>

-----------------------------------------------------------------------------
(* Starts. *)

CanStart(s) ==
    s \in Registered /\ record[s].state # "quarantined" /\ child[s] = None

\* The definition in the record that a start holds.
Held(k) == IF call[k].own = None THEN record[call[k].on].config ELSE call[k].own

\* start() up to its first suspension: adopts a staged definition, makes pi's arguments.
Starts(k, s, c, fired) ==
    LET staged == record[s].pending # None
        config == IF staged THEN record[s].pending ELSE record[s].config
        open   == staged /\ config \in Budgeted
    IN  /\ started' = [started EXCEPT ![s] = @ /\ ~staged]
        /\ armed' = [armed EXCEPT ![s] = @ /\ ~staged /\ ~fired]
        /\ IF staged /\ ~open THEN Governed(s, config) ELSE UNCHANGED <<governed, unopened>>
        /\ record' = [record EXCEPT ![s].config = config, ![s].pending = None,
                                    ![s].state = IF open THEN @ ELSE "starting"]
        /\ call' = [call EXCEPT ![k] = [c EXCEPT !.on = s,
                                                !.pc = IF open THEN "budget" ELSE "log",
                                                !.args = IF open THEN None ELSE config]]
        /\ raced' = raced \cup {n \in {s} : \E j \in InProgress({"wire"}) : call[j].on = n}
        /\ UNCHANGED child

Start(k, s) ==
    /\ Quiet /\ Free(k) /\ CanStart(s) /\ MayStart(s) /\ "start" \in Requests
    /\ Starts(k, s, [Idle EXCEPT !.op = "start"], FALSE)
    /\ UNCHANGED <<watchVars, files, job, store, power, promised, agreed, forgotten>>

\* The relauncher's timer calls start() by name.
Relaunch(k, s) ==
    /\ Quiet /\ Free(k) /\ armed[s] /\ CanStart(s) /\ MayStart(s)
    /\ Starts(k, s, [Idle EXCEPT !.op = "start"], TRUE)
    /\ UNCHANGED <<watchVars, files, job, store, power, promised, agreed, forgotten>>

RelaunchRefused(s) ==
    /\ Quiet /\ armed[s] /\ ~CanStart(s)
    /\ armed' = [armed EXCEPT ![s] = FALSE]
    /\ UNCHANGED <<watchVars, files, record, child, job, governed, unopened, started, store, call,
                   power, history>>

\* poll(): fire() is launchJob(), whose refusal nobody sees.
Poll(k, s) ==
    /\ Quiet /\ Due(s) /\ tracked' = Polled(s)
    /\ IF Fires(s) /\ CanStart(s)
       THEN /\ Free(k) /\ MayStart(s)
            /\ job' = job \cup {s}
            /\ Starts(k, s, [Idle EXCEPT !.op = "job"], FALSE)
       ELSE UNCHANGED <<record, lifecycle, call, raced>>
    /\ UNCHANGED <<listing, changes, files, store, power, promised, agreed, forgotten>>

\* A start is over: the boot goes on with its loop.
Over(k) ==
    call' = [call EXCEPT ![k] = IF @.op = "boot"
                                THEN [Idle EXCEPT !.op = "boot", !.pc = "next", !.todo = call[k].todo]
                                ELSE Idle]

\* start(): the budget store is open.
StoreOpens(k) ==
    /\ Quiet /\ call[k].pc = "budget"
    /\ Governed(call[k].on, Held(k))
    /\ record' = IF call[k].own = None
                 THEN [record EXCEPT ![call[k].on].state = "starting"] ELSE record
    /\ call' = [call EXCEPT ![k].pc = "log", ![k].args = Held(k)]
    /\ UNCHANGED <<watchVars, files, child, job, started, armed, store, power,
                   history>>

\* start(): the budget store does not open.
StoreFails(k) ==
    /\ Quiet /\ call[k].pc = "budget"
    /\ MayNotOpen(call[k].on)
    /\ Over(k)
    /\ job' = IF call[k].op = "job" THEN job \ {call[k].on} ELSE job
    /\ UNCHANGED <<watchVars, files, record, child, governed, started, armed, store, daemon,
                   history>>

\* start(): the log is open; the command and the environment are read now.
Spawns(k) ==
    /\ Quiet /\ call[k].pc = "log"
    /\ child' = [child EXCEPT ![call[k].on] = [args |-> call[k].args, rest |-> Held(k)]]
    /\ call' = [call EXCEPT ![k].pc = "settle", ![k].args = None]
    /\ UNCHANGED <<watchVars, files, record, job, governed, unopened, started, armed, store, power,
                   history>>

\* start(): the child is still there after the settle, or it is not.
Settles(k) ==
    LET s == call[k].on
    IN  /\ Quiet /\ call[k].pc = "settle" /\ Over(k)
        /\ \/ /\ child[s] # None
              /\ record' = IF call[k].own = None
                           THEN [record EXCEPT ![s].state = "running"] ELSE record
              /\ started' = [started EXCEPT ![s] = @ \/ s \in Registered]
              /\ UNCHANGED job
           \/ /\ child[s] = None
              /\ job' = IF call[k].op = "job" THEN job \ {s} ELSE job
              /\ UNCHANGED <<record, started>>
        /\ UNCHANGED <<watchVars, files, child, governed, unopened, armed, store, power,
                       history>>

-----------------------------------------------------------------------------
(* Stops and exits. *)

\* stop(), up to the exit it waits for.
Stops(s) ==
    /\ Disarm({s})
    /\ record' = IF child[s] = None THEN record ELSE [record EXCEPT ![s].state = "stopping"]
    /\ UNCHANGED <<child, job, governed, unopened>>

Stop(s) ==
    /\ Quiet /\ s \in Registered /\ "stop" \in Requests
    /\ Stops(s)
    /\ UNCHANGED <<watchVars, files, store, call, power, history>>

Restart(k, s) ==
    /\ Quiet /\ Free(k) /\ s \in Registered /\ MayStart(s) /\ "restart" \in Requests
    /\ Stops(s)
    /\ call' = [call EXCEPT ![k] = [Idle EXCEPT !.op = "restart", !.pc = "stopping", !.on = s]]
    /\ UNCHANGED <<watchVars, files, store, power, history>>

\* restart(): start() may refuse, of an orphan as an unknown service.
RestartContinues(k) ==
    /\ call[k].pc = "stopping" /\ child[call[k].on] = None
    /\ IF CanStart(call[k].on)
       THEN Starts(k, call[k].on, [Idle EXCEPT !.op = "start"], FALSE)
       ELSE /\ call' = [call EXCEPT ![k] = Idle]
            /\ UNCHANGED <<record, child, governed, unopened, started, armed, raced>>
    /\ UNCHANGED <<watchVars, files, job, store, power, promised, agreed, forgotten>>

Eligible(s) ==
    /\ record[s].state # "stopping" /\ ~record[s].orphaned
    /\ s \notin job /\ started[s]

\* finalizeExit(): what is common to every exit of a registered service.
Leaves(s) ==
    /\ Quiet /\ child[s] # None /\ s \in Registered
    /\ child' = [child EXCEPT ![s] = None]
    /\ job' = job \ {s}
    /\ UNCHANGED <<watchVars, files, power, promised, agreed>>

\* finalizeExit(): the crash detector asks for a quarantine.
ExitQuarantines(s) ==
    /\ Leaves(s) /\ Eligible(s)
    /\ record' = [record EXCEPT ![s].state = "quarantined"]
    /\ Disarm({s})
    /\ Save(None, WithQuarantined(s, TRUE))
    /\ UNCHANGED <<governed, unopened, call, forgotten, raced>>

\* finalizeExit(): the relauncher arms its timer, declines, or gives up.
ExitRelaunches(s, relaunch, giveUp) ==
    /\ Leaves(s) /\ Eligible(s) /\ ~(relaunch /\ giveUp)
    /\ record' = [record EXCEPT ![s].state = "stopped"]
    /\ armed' = [armed EXCEPT ![s] = @ \/ relaunch]
    /\ started' = [started EXCEPT ![s] = ~giveUp]
    /\ UNCHANGED <<governed, unopened, store, call, forgotten, raced>>

\* finalizeExit() of a stop, of a job, of a start that never settled.
ExitRests(s) ==
    /\ Leaves(s) /\ ~Eligible(s) /\ ~record[s].orphaned
    /\ record' = [record EXCEPT ![s].state = "stopped"]
    /\ IF record[s].state = "stopping" THEN Disarm({s}) ELSE UNCHANGED <<started, armed>>
    /\ UNCHANGED <<governed, unopened, store, call, forgotten, raced>>

\* finalizeExit() of an orphan.
ExitDeregisters(s) ==
    /\ Leaves(s) /\ record[s].orphaned
    /\ record' = [record EXCEPT ![s] = None]
    /\ Deregister({s})
    /\ call' = Detached(call, {s})
    /\ UNCHANGED <<unopened, store>>

\* finalizeExit() of a child whose service is not registered any more.
ExitOfUnknown(s) ==
    /\ Quiet /\ child[s] # None /\ s \notin Registered
    /\ child' = [child EXCEPT ![s] = None]
    /\ UNCHANGED <<watchVars, files, record, job, governed, unopened, started, armed, store, call,
                   power, history>>

-----------------------------------------------------------------------------
(* Reload. *)

NoDefinitions == [s \in Service |-> None]

\* loadAllServices(): the names in the directory, then one file after the other.
Reload(k) ==
    LET names == {s \in Service : files[s] # None}
    IN  /\ Quiet /\ Free(k) /\ MayReload /\ "reload" \in Requests
        /\ call' = [call EXCEPT ![k] = [Idle EXCEPT !.op = "reload", !.todo = names,
                                        !.pc = IF names = {} THEN "reconcile" ELSE "load"]]
        /\ agreed' = "loading"
        /\ UNCHANGED <<watchVars, files, record, lifecycle, store, power,
                       promised, forgotten, raced>>

\* A file that is gone by now, or not valid, is an error in the result and no service.
Reads(k, s) ==
    LET found == [call[k].load EXCEPT ![s] = IF files[s] = Broken THEN None ELSE files[s]]
        rest  == call[k].todo \ {s}
    IN  /\ Quiet /\ call[k].pc = "load" /\ s \in call[k].todo
        /\ call' = [call EXCEPT ![k].load = found,
                       ![k].todo = IF rest = {} THEN {n \in Service : found[n] # None} ELSE rest,
                       ![k].pc = IF rest = {} THEN "reconcile" ELSE "load"]
        /\ UNCHANGED <<watchVars, files, record, lifecycle, store, power,
                       history>>

Visits(k, s) ==
    /\ call[k].pc = "reconcile" /\ s \in call[k].todo
    /\ UNCHANGED <<watchVars, files, child, job, store, power, promised, agreed, forgotten>>

\* The loop goes on with the next name, at once or when the budget store is open.
Advances(k, s) == call' = [call EXCEPT ![k].todo = @ \ {s}]

Wires(k, s) ==
    LET d == call[k].load[s]
    IN  /\ call' = [call EXCEPT ![k].todo = @ \ {s},
                                ![k].pc = IF d \in Budgeted THEN "wire" ELSE @,
                                ![k].on = IF d \in Budgeted THEN s ELSE @]
        /\ IF d \in Budgeted THEN UNCHANGED <<governed, unopened>> ELSE Governed(s, d)
        /\ raced' = raced \cup OnTheirWay({s})

\* addService()
Adds(k, s) ==
    /\ Visits(k, s) /\ s \notin Registered
    /\ record' = [record EXCEPT ![s] = [config |-> call[k].load[s], pending |-> None,
                                        orphaned |-> FALSE, state |-> "stopped"]]
    /\ Disarm({s}) /\ Wires(k, s)

\* Mutant: a revert leaves the staged change.
KeepsStaged(k, s) ==
    /\ Visits(k, s) /\ s \in Registered /\ record[s].config = call[k].load[s]
    /\ record' = [record EXCEPT ![s].orphaned = FALSE]
    /\ Advances(k, s)
    /\ UNCHANGED <<governed, unopened, started, armed, raced>>

\* Unchanged: a staged change is cancelled, an orphan has its file again.
Keeps(k, s) ==
    /\ Visits(k, s) /\ s \in Registered /\ record[s].config = call[k].load[s]
    /\ record' = [record EXCEPT ![s].orphaned = FALSE, ![s].pending = None]
    /\ Advances(k, s)
    /\ UNCHANGED <<governed, unopened, started, armed, raced>>

\* Mutant: the change is applied although the service runs.
StagesInPlace(k, s) ==
    /\ Visits(k, s) /\ s \in Registered /\ record[s].config # call[k].load[s]
    /\ child[s] # None
    /\ record' = [record EXCEPT ![s].orphaned = FALSE, ![s].config = call[k].load[s]]
    /\ Advances(k, s)
    /\ UNCHANGED <<governed, unopened, started, armed, raced>>

\* Modified while running.
Stages(k, s) ==
    /\ Visits(k, s) /\ s \in Registered /\ record[s].config # call[k].load[s]
    /\ child[s] # None
    /\ record' = [record EXCEPT ![s].orphaned = FALSE, ![s].pending = call[k].load[s]]
    /\ Advances(k, s)
    /\ UNCHANGED <<governed, unopened, started, armed, raced>>

\* Mutant: the cost governor is not told of the new definition.
UpdatesUnwired(k, s) ==
    /\ Visits(k, s) /\ s \in Registered /\ record[s].config # call[k].load[s]
    /\ child[s] = None
    /\ record' = [record EXCEPT ![s].orphaned = FALSE, ![s].pending = None,
                                ![s].config = call[k].load[s]]
    /\ Disarm({s}) /\ Advances(k, s)
    /\ UNCHANGED <<governed, unopened, raced>>

\* Modified while not running.
Updates(k, s) ==
    /\ Visits(k, s) /\ s \in Registered /\ record[s].config # call[k].load[s]
    /\ child[s] = None
    /\ record' = [record EXCEPT ![s].orphaned = FALSE, ![s].pending = None,
                                ![s].config = call[k].load[s]]
    /\ Disarm({s}) /\ Wires(k, s)

WireOpens(k) ==
    /\ Quiet /\ call[k].pc = "wire"
    /\ Governed(call[k].on, call[k].load[call[k].on])
    /\ call' = [call EXCEPT ![k].pc = "reconcile", ![k].on = None]
    /\ UNCHANGED <<watchVars, files, record, child, job, started, armed, store, power,
                   history>>

\* The rest of the reload, the removals and the triggers with it, does not happen.
WireFails(k) ==
    /\ Quiet /\ call[k].pc = "wire"
    /\ MayNotOpen(call[k].on)
    /\ call' = [call EXCEPT ![k] = Idle]
    /\ agreed' = "edited"
    /\ UNCHANGED <<watchVars, files, record, child, job, governed, started, armed, store, daemon,
                   promised, forgotten, raced>>

\* Removals, then the triggers.
ReloadReturns(k) ==
    LET gone     == {s \in Registered : call[k].load[s] = None}
        dropped  == {s \in gone : child[s] = None}
        registry == [s \in Service |->
                        IF s \in dropped THEN None
                        ELSE IF s \in gone
                        THEN [record[s] EXCEPT !.orphaned = TRUE, !.pending = None]
                        ELSE record[s]]
    IN  /\ call[k].pc = "reconcile" /\ call[k].todo = {}
        /\ record' = registry
        /\ Deregister(dropped)
        /\ tracked' = Synced(registry)
        /\ call' = Detached([call EXCEPT ![k] = Idle], dropped)
        /\ agreed' = IF agreed = "loading" THEN "agreed" ELSE agreed
        /\ UNCHANGED <<listing, changes, files, child, job, unopened, store, power, promised>>

-----------------------------------------------------------------------------
(* The daemon, and those who edit files. *)

NoBits == [enabled |-> {}, quarantined |-> {}]

\* Nothing of the daemon's memory is left, and its children see the end of their input.
Off ==
    /\ record' = NoDefinitions /\ child' = NoDefinitions /\ governed' = NoDefinitions
    /\ tracked' = NoDefinitions
    /\ job' = {} /\ unopened' = {} /\ forgotten' = {} /\ raced' = {}
    /\ started' = [s \in Service |-> FALSE] /\ armed' = [s \in Service |-> FALSE]
    /\ mem' = NoBits /\ writes' = <<>>
    /\ call' = [k \in Calls |-> Idle]

Crash ==
    /\ Quiet /\ Happens
    /\ daemon' = "down"
    /\ Off
    /\ agreed' = "edited"
    /\ UNCHANGED <<listing, changes, files, disk, promised>>

\* Mutant: the persisted quarantine is not restored.
BootRecordStopped(s) ==
    IF files[s] \notin Definition THEN None
    ELSE [config |-> files[s], pending |-> None, orphaned |-> FALSE, state |-> "stopped"]

\* runDaemon(), constructor and init(): the quarantined are held before anything can start.
BootRecord(s) ==
    IF files[s] \notin Definition THEN None
    ELSE [config |-> files[s], pending |-> None, orphaned |-> FALSE,
          state |-> IF s \in disk.quarantined THEN "quarantined" ELSE "stopped"]

Boot(k) ==
    /\ daemon = "down" /\ daemon' = "up"
    /\ mem' = disk
    /\ record' = [s \in Service |-> BootRecord(s)]
    /\ governed' = [s \in Service |-> IF files[s] \in Budgeted THEN files[s] ELSE None]
    /\ call' = [call EXCEPT ![k] = [Idle EXCEPT !.op = "boot", !.pc = "next",
                                                !.todo = disk.enabled]]
    /\ promised' = [s \in Service |-> IF s \in disk.enabled THEN "yes" ELSE "no"]
    /\ agreed' = "agreed"
    /\ forgotten' = {s \in Service : files[s] \notin Definition}
    /\ UNCHANGED <<watchVars, files, child, job, unopened, started, armed, disk, writes,
                   events, raced>>

\* startEnabled(): one name after the other.
BootWants(s) == CanStart(s) /\ TriggerOf[record[s].config] = None

BootStarts(k, s) ==
    /\ call[k].pc = "next" /\ s \in call[k].todo /\ BootWants(s)
    /\ Starts(k, s, [call[k] EXCEPT !.todo = @ \ {s}], FALSE)
    /\ UNCHANGED <<watchVars, files, job, store, power, promised, agreed, forgotten>>

BootSkips(k, s) ==
    /\ call[k].pc = "next" /\ s \in call[k].todo /\ ~BootWants(s)
    /\ Advances(k, s)
    /\ UNCHANGED <<watchVars, files, record, lifecycle, store, power,
                   history>>

BootReturns(k) ==
    /\ call[k].pc = "next" /\ call[k].todo = {}
    /\ tracked' = Synced(record)
    /\ call' = [call EXCEPT ![k] = Idle]
    /\ UNCHANGED <<listing, changes, files, record, lifecycle, store, power,
                   history>>

Edit(s) ==
    /\ Outside /\ Happens
    /\ \E d \in (Definition \cup {None, Broken}) \ {files[s]} : files' = [files EXCEPT ![s] = d]
    /\ agreed' = "edited"
    /\ UNCHANGED <<watchVars, record, lifecycle, store, call, daemon, promised, forgotten, raced>>

Touch(p, e) ==
    /\ Outside /\ Changes(p, e)
    /\ UNCHANGED <<files, record, lifecycle, store, call, power, history>>

-----------------------------------------------------------------------------
Init ==
    /\ FileWatchInit
    /\ files \in [Service -> Definition \cup {None}]
    /\ record = NoDefinitions /\ child = NoDefinitions /\ governed = NoDefinitions
    /\ job = {} /\ unopened = {} /\ forgotten = {} /\ raced = {}
    /\ started = [s \in Service |-> FALSE] /\ armed = [s \in Service |-> FALSE]
    /\ mem = NoBits /\ disk \in Bits /\ writes = <<>>
    /\ call = [k \in Calls |-> Idle]
    /\ daemon = "down" /\ events = 0
    /\ promised = [s \in Service |-> IF s \in disk.enabled THEN "yes" ELSE "no"]
    /\ agreed = "edited"

CallSteps(k) ==
    \/ EnableReturns(k) \/ UnquarantineReturns(k)
    \/ StoreOpens(k) \/ StoreFails(k) \/ Spawns(k) \/ Settles(k) \/ RestartContinues(k)
    \/ Reload(k) \/ WireOpens(k) \/ WireFails(k) \/ ReloadReturns(k)
    \/ Boot(k) \/ BootReturns(k)
    \/ \E s \in Service :
          \/ \E bit \in BOOLEAN : Enable(k, s, bit)
          \/ Unquarantine(k, s) \/ Start(k, s) \/ Restart(k, s) \/ Relaunch(k, s) \/ Poll(k, s)
          \/ Reads(k, s) \/ Adds(k, s) \/ Keeps(k, s) \/ Stages(k, s) \/ Updates(k, s)
          \/ BootStarts(k, s) \/ BootSkips(k, s)

ServiceSteps(s) ==
    \/ Stop(s) \/ RelaunchRefused(s) \/ Edit(s)
    \/ ExitQuarantines(s) \/ ExitDeregisters(s) \/ ExitOfUnknown(s) \/ ExitRests(s)
    \/ \E relaunch, giveUp \in BOOLEAN : ExitRelaunches(s, relaunch, giveUp)

Next ==
    \/ WriteEnds \/ WriteFails \/ Crash
    \/ \E k \in Calls : CallSteps(k)
    \/ \E s \in Service : ServiceSteps(s)
    \/ \E p \in Path, e \in Entry : Touch(p, e)

Spec == Init /\ [][Next]_vars

-----------------------------------------------------------------------------
(* Safety. *)

\* state.json: an `enable` or `disable` that was acknowledged, and that no later one may have
\* undone, is on disk: whole snapshots written in order (store.ts persist) neither lose nor
\* overtake it, whatever quarantines are saved, writes fail or crashes come in between.
AcknowledgedIsDurable ==
    \A s \in Service : promised[s] # "open" => (s \in disk.enabled <=> promised[s] = "yes")

\* Reload never changes what a running service runs (index.ts:535, ADR 0010): all of the child
\* comes from one definition, the one its record holds, through staging, adoption and removal.
\* (Not of a child whose start was on its way when a reload changed or removed the service.)
RunsItsRecord ==
    \A s \in Service \ raced : child[s] # None =>
        /\ s \in Registered
        /\ child[s].args = record[s].config /\ child[s].rest = record[s].config

Upcoming(s) == IF record[s].pending # None THEN record[s].pending ELSE record[s].config

\* When a reload ended and the files were not edited since it began, the next start of every
\* service uses its file; a service without one is gone, or an orphan that still runs.
NextStartUsesTheFile ==
    agreed = "agreed" => \A s \in Service :
        IF files[s] \in Definition
        THEN s \in Registered /\ ~record[s].orphaned /\ Upcoming(s) = files[s]
        ELSE s \in Registered => record[s].orphaned /\ child[s] # None

\* An orphan never comes back: while nothing of a service runs, a relaunch is pending only if it
\* is registered with its file (one left from before a manual start finds the child running).
TimersHaveDefinitions ==
    \A s \in Service : armed[s] /\ child[s] = None => s \in Registered /\ ~record[s].orphaned

\* A running service with a budget is governed by the budget of the definition it runs on, however
\* it got that definition; only a store that did not open leaves it without.
RunsWithinItsBudget ==
    \A s \in Service :
        child[s] # None /\ s \in Registered /\ record[s].config \in Budgeted =>
            governed[s] = record[s].config \/ s \in unopened \cup raced

\* `disable` is the kill switch of a file_watch service (index.ts:645): once acknowledged, no
\* watcher is left that could start it.  (A watcher outlives the removal of its service, so a
\* name that a reload registers again may have one until the triggers are synced.)
DisableIsAKillSwitch ==
    \A s \in Registered \ forgotten : promised[s] = "no" => tracked[s] = None

\* A name in quarantined[] is held: across boots, reloads, edits and failed writes nothing but
\* `unquarantine` lets a service start again that was registered ever since the boot.
QuarantinedIsHeld ==
    \A s \in Registered \ forgotten : s \in mem.quarantined => record[s].state = "quarantined"

\* ADR 0010 and index.ts:538: a re-read of the files cannot disturb the quarantine.
QuarantineOutlivesReload ==
    \A s \in Registered : s \in mem.quarantined => record[s].state = "quarantined"
================================================================================
