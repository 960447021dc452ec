-------------------------- MODULE RegistryLifeProofs --------------------------
(***************************************************************************)
(* Theorems about Registry, beside those of RegistryProofs: what an        *)
(* operator and the files hold a service to.  A disabled service has no    *)
(* watcher, a quarantined one does not start, a running one runs the       *)
(* definition of its record.                                               *)
(***************************************************************************)
EXTENDS RegistryProofs

-----------------------------------------------------------------------------
(* The inductive invariants. *)

\* Every name that is not registered is remembered.
AllKnown == daemon = "up" => \A s \in Service : s \in Registered \cup forgotten

\* No watcher is left of a service that an operator disabled.
WatchersAreEnabled == AllKnown /\ DisableIsAKillSwitch

\* The services a call is starting or is about to start.
ClaimsOf(c) ==
    {s \in Service : c.pc \in Spawning \cup {"stopping"} /\ c.on = s}
    \cup {s \in c.todo : c.op = "boot"}

Claims(k) == ClaimsOf(call[k])

\* The loops a call can be in.
Shaped(c) ==
    /\ c.pc = "next" => c.op = "boot" /\ c.own = None
    /\ c.pc \in Reloading => c.op = "reload"

\* No service is claimed by two calls.
OneStart ==
    /\ \A k \in Calls : Shaped(call[k])
    /\ \A j, k \in Calls : j # k => Claims(j) \cap Claims(k) = {}

Spawner(k, s) == call[k].pc \in Spawning /\ call[k].on = s

\* Nothing of a service runs while a start of it is on its way.
StartsAlone == \A s \in Service, k \in Calls : Spawner(k, s) => child[s] = None

\* A service that is held does not run, and no start of it is on its way.
HeldIsStill ==
    /\ \A s \in Registered : record[s].state = "quarantined" =>
          child[s] = None /\ \A k \in Calls : ~Spawner(k, s)
    /\ QuarantinedIsHeld

\* Until a start has spawned, the definition it goes on with is the one its record has.
StartsFitTheRecord ==
    \A s \in Service \ raced, k \in Calls : Spawner(k, s) =>
        /\ call[k].own = None
        /\ call[k].pc = "log" => call[k].args = record[s].config

LifeInv == StartsAlone /\ HeldIsStill /\ StartsFitTheRecord /\ RunsItsRecord

\* A budget is being wired.
Wiring(k, s) == call[k].pc = "wire" /\ call[k].on = s


\* A name that a reload visits is registered with the definition its file had, without more to
\* adopt unless it runs.
LEMMA VisitRegisters ==
    ASSUME TypeInv, NEW k \in Calls, NEW s \in Service,
           Adds(k, s) \/ Keeps(k, s) \/ Stages(k, s) \/ Updates(k, s)
    PROVE  /\ record' \in Records /\ Registered' = Registered \cup {s}
           /\ \A n \in Service \ {s} : record'[n] = record[n]
           /\ ~record'[s].orphaned
           /\ s \in Registered => record'[s].state = record[s].state
           /\ s \notin Registered => record'[s].state = "stopped"
           /\ Stages(k, s) => /\ record'[s].config = record[s].config
                              /\ record'[s].pending = call[k].load[s]
           /\ ~Stages(k, s) => /\ record'[s].config = call[k].load[s]
                               /\ record'[s].pending = None
<1> DEFINE d == call[k].load[s]
<1>1. d \in Definition /\ record \in Records
  BY VisitedTyped DEF Adds, Keeps, Stages, Updates, TypeInv, Typed, TypeOK, Records
<1>2. \A n \in Service \ {s} : record'[n] = record[n]
  BY <1>1 DEF Adds, Keeps, Stages, Updates, Records
<1> HIDE DEF d
<1>3. CASE Adds(k, s)
  <2> DEFINE r == [config |-> d, pending |-> None, orphaned |-> FALSE, state |-> "stopped"]
  <2>1. r \in Record /\ r.config = d /\ r.pending = None /\ ~r.orphaned /\ r.state = "stopped"
    BY <1>1 DEF Record, States
  <2>2. record' = [record EXCEPT ![s] = r] /\ s \notin Registered /\ ~Stages(k, s)
    BY <1>3 DEF Adds, Stages, d
  <2> HIDE DEF r
  <2>3. record' \in Records /\ record'[s] = r
    BY <1>1, <2>1, <2>2 DEF Records
  <2>4. record'[s] # None
    BY <2>1, <2>3, NullAssumption
  <2>5. Registered' = Registered \cup {s}
    BY <1>2, <2>4 DEF Registered
  <2>6. QED
    BY <1>2, <2>1, <2>2, <2>3, <2>5 DEF d
<1>4. CASE ~Adds(k, s)
  <2>0. s \in Registered /\ record[s] \in Record
    BY <1>1, <1>4 DEF Adds, Keeps, Stages, Updates, Registered, Records
  <2> DEFINE q == record[s]
  <2> HIDE DEF q
  <2> DEFINE r == IF Stages(k, s) THEN [q EXCEPT !.orphaned = FALSE, !.pending = d]
                  ELSE [q EXCEPT !.orphaned = FALSE, !.pending = None, !.config = d]
  <2>1. /\ r \in Record /\ ~r.orphaned /\ r.state = q.state
        /\ Stages(k, s) => r.config = q.config /\ r.pending = d
        /\ ~Stages(k, s) => r.config = d /\ r.pending = None
    BY <1>1, <2>0 DEF Record, q
  <2>2. record' = [record EXCEPT ![s] = r]
    <3>1. CASE Stages(k, s)
      BY <3>1 DEF Stages, d, q
    <3>2. CASE Updates(k, s)
      <4>1. ~Stages(k, s)
        BY <3>2 DEF Updates, Stages
      <4>2. QED
        BY <3>2, <4>1 DEF Updates, d, q
    <3>3. CASE Keeps(k, s)
      <4>1. ~Stages(k, s) /\ d = q.config
        BY <3>3 DEF Keeps, Stages, d, q
      <4>2. [q EXCEPT !.orphaned = FALSE, !.pending = None]
              = [q EXCEPT !.orphaned = FALSE, !.pending = None, !.config = d]
        BY <2>0, <4>1 DEF Record, q
      <4>3. record' = [record EXCEPT ![s] = [q EXCEPT !.orphaned = FALSE, !.pending = None]]
        BY <3>3 DEF Keeps, q
      <4>4. QED
        BY <4>1, <4>2, <4>3
    <3>4. QED
      BY <1>4, <3>1, <3>2, <3>3
  <2> HIDE DEF r
  <2>3. record' \in Records /\ record'[s] = r
    BY <1>1, <2>1, <2>2 DEF Records
  <2>4. record'[s] # None
    BY <2>1, <2>3, NullAssumption
  <2>5. Registered' = Registered \cup {s}
    BY <1>2, <2>0, <2>4 DEF Registered
  <2>6. QED
    BY <1>2, <2>0, <2>1, <2>3, <2>5 DEF d, q
<1>5. QED
  BY <1>3, <1>4

-----------------------------------------------------------------------------
(* The registry and what it forgets. *)

\* Between a boot and a crash a name that leaves the registry is remembered, and no name joins
\* it while the daemon is down.
Remembers ==
    /\ Registered \ Registered' \subseteq forgotten'
    /\ forgotten \subseteq forgotten'
    /\ daemon = "up" \/ Registered' = Registered
    /\ daemon' = daemon

\* What keeps every service registered keeps what is remembered.
LEMMA RemembersSame ==
    ASSUME Registered' = Registered, UNCHANGED <<forgotten, daemon>>
    PROVE  Remembers
BY DEF Remembers

\* Only the daemon's death and its boot forget which names were not registered.
LEMMA RemembersStep ==
    ASSUME TypeInv, Next, ~Crash, \A k \in Calls : ~Boot(k)
    PROVE  Remembers
<1> USE DEF history, power
<1>1. CASE WriteEnds \/ WriteFails \/ \E p \in Path, e \in Entry : Touch(p, e)
  BY <1>1, RemembersSame DEF WriteEnds, WriteFails, Touch, Registered
<1>2. ASSUME NEW k \in Calls, CallSteps(k) PROVE Remembers
  <2>1. CASE EnableReturns(k) \/ UnquarantineReturns(k) \/ StoreFails(k) \/ Spawns(k) \/ Reload(k)
             \/ WireOpens(k) \/ WireFails(k) \/ BootReturns(k)
    BY <2>1, RemembersSame DEF EnableReturns, UnquarantineReturns, StoreFails, Spawns, Reload,
       WireOpens, WireFails, BootReturns, Registered
  <2>2. CASE StoreOpens(k) \/ Settles(k)
    <3>1. call[k].on \in Service /\ (call[k].own = None => call[k].on \in Registered)
      BY <2>2, HeldTyped DEF StoreOpens, Settles, TypeInv, Typed, CallsFit, CallFits, Spawning
    <3>2. \/ record' = record
          \/ /\ call[k].on \in Registered
             /\ \E t \in States : record' = [record EXCEPT ![call[k].on].state = t]
      BY <2>2, <3>1 DEF StoreOpens, Settles, States
    <3>3. SameDefinitions
      BY <3>2, SetState, SameRecord DEF TypeInv, Typed
    <3>4. QED
      BY <2>2, <3>3, SameRegistered, RemembersSame DEF StoreOpens, Settles
  <2>3. CASE RestartContinues(k)
    <3>1. CASE CanStart(call[k].on)
      <4>1. Registered' = Registered
        BY <2>3, <3>1, StartsRecord DEF RestartContinues, CanStart, TypeInv
      <4>2. QED
        BY <2>3, <4>1, RemembersSame DEF RestartContinues
    <3>2. CASE ~CanStart(call[k].on)
      BY <2>3, <3>2, RemembersSame DEF RestartContinues, Registered
    <3>3. QED
      BY <3>1, <3>2
  <2>4. CASE ReloadReturns(k)
    <3>1. Registered' = Registered \ Dropped(k) /\ Deregister(Dropped(k))
      BY <2>4, Removals DEF TypeInv
    <3>2. daemon = "up"
      <4>1. call[k].pc # "idle" /\ Idle.pc = "idle"
        BY <2>4 DEF ReloadReturns, Idle
      <4>2. QED
        BY <4>1 DEF TypeInv, DownIsEmpty, Typed, TypeOK
    <3>3. QED
      BY <2>4, <3>1, <3>2 DEF Remembers, Deregister, ReloadReturns
  <2>5. ASSUME NEW s \in Service,
               \/ Reads(k, s) \/ BootSkips(k, s) \/ Unquarantine(k, s) \/ Restart(k, s)
               \/ \E bit \in BOOLEAN : Enable(k, s, bit)
        PROVE  Remembers
    <3>1. \/ record' = record
          \/ s \in Registered /\ \E t \in States : record' = [record EXCEPT ![s].state = t]
      BY <2>5 DEF Reads, BootSkips, Unquarantine, Restart, Stops, Enable, States
    <3>2. SameDefinitions
      BY <3>1, SetState, SameRecord DEF TypeInv, Typed
    <3>3. UNCHANGED <<forgotten, daemon>>
      BY <2>5 DEF Reads, BootSkips, Unquarantine, Restart, Enable
    <3>4. QED
      BY <3>2, <3>3, SameRegistered, RemembersSame
  <2>6. ASSUME NEW s \in Service,
               Start(k, s) \/ Relaunch(k, s) \/ Poll(k, s) \/ BootStarts(k, s)
        PROVE  Remembers
    <3>1. CASE Poll(k, s) /\ ~(Fires(s) /\ CanStart(s))
      BY <3>1, RemembersSame DEF Poll, Registered
    <3>2. CASE ~Poll(k, s) \/ (Fires(s) /\ CanStart(s))
      <4>1. s \in Registered /\ \E c, fired : Starts(k, s, c, fired)
        BY <2>6, <3>2 DEF Start, Relaunch, Poll, BootStarts, BootWants, CanStart
      <4>2. Registered' = Registered
        BY <4>1, StartsRecord DEF TypeInv
      <4>3. UNCHANGED <<forgotten, daemon>>
        BY <2>6 DEF Start, Relaunch, Poll, BootStarts
      <4>4. QED
        BY <4>2, <4>3, RemembersSame
    <3>3. QED
      BY <3>1, <3>2
  <2>7. ASSUME NEW s \in Service, Adds(k, s) \/ Keeps(k, s) \/ Stages(k, s) \/ Updates(k, s)
        PROVE  Remembers
    <3>1. daemon = "up"
      <4>1. call[k].pc # "idle" /\ Idle.pc = "idle"
        BY <2>7 DEF Adds, Keeps, Stages, Updates, Visits, Idle
      <4>2. QED
        BY <4>1 DEF TypeInv, DownIsEmpty, Typed, TypeOK
    <3>2. Registered \subseteq Registered'
      BY <2>7, VisitRegisters
    <3>3. UNCHANGED <<forgotten, daemon>>
      BY <2>7 DEF Adds, Keeps, Stages, Updates, Visits
    <3>4. QED
      BY <3>1, <3>2, <3>3 DEF Remembers
  <2>8. QED
    BY <1>2, <2>1, <2>2, <2>3, <2>4, <2>5, <2>6, <2>7 DEF CallSteps
<1>3. ASSUME NEW s \in Service, ServiceSteps(s) PROVE Remembers
  <2>1. CASE ExitDeregisters(s)
    <3>1. \A n \in Service \ {s} : record'[n] = record[n]
      BY <2>1 DEF ExitDeregisters, TypeInv, Typed, TypeOK
    <3>2. daemon = "up" /\ daemon' = daemon /\ forgotten' = forgotten \cup {s}
      BY <2>1 DEF ExitDeregisters, Deregister, Leaves, Quiet
    <3>3. QED
      BY <3>1, <3>2 DEF Remembers, Registered
  <2>2. CASE ~ExitDeregisters(s)
    <3>1. \/ record' = record
          \/ s \in Registered /\ \E t \in States : record' = [record EXCEPT ![s].state = t]
      BY <1>3, <2>2 DEF ServiceSteps, Stop, Stops, RelaunchRefused, Edit, ExitQuarantines,
         ExitOfUnknown, ExitRests, ExitRelaunches, Leaves, States
    <3>2. SameDefinitions
      BY <3>1, SetState, SameRecord DEF TypeInv, Typed
    <3>3. UNCHANGED <<forgotten, daemon>>
      BY <1>3, <2>2 DEF ServiceSteps, Stop, RelaunchRefused, Edit, ExitQuarantines,
         ExitOfUnknown, ExitRests, ExitRelaunches, Leaves
    <3>4. QED
      BY <3>2, <3>3, SameRegistered, RemembersSame
  <2>3. QED
    BY <2>1, <2>2
<1>4. QED
  BY <1>1, <1>2, <1>3 DEF Next

\* A step of a daemon that is up, or of nobody, forgets no name.
LEMMA KnownStep ==
    ASSUME TypeInv, AllKnown, [Next]_vars
    PROVE  AllKnown'
<1>1. CASE UNCHANGED vars
  BY <1>1 DEF vars, power, history, AllKnown, Registered
<1>2. CASE Crash
  BY <1>2 DEF Crash, AllKnown
<1>3. ASSUME NEW k \in Calls, Boot(k) PROVE AllKnown'
  <2>1. \A s \in Service : files[s] \in Definition => record'[s] \in Record
    <3>1. \A s \in Service : files[s] \in Definition => BootRecord(s) \in Record
      BY DEF BootRecord, Record, States
    <3>2. QED
      BY <1>3, <3>1 DEF Boot
  <2>2. QED
    BY <1>3, <2>1, NullAssumption DEF Boot, AllKnown, Registered
<1>4. CASE Next /\ ~Crash /\ \A k \in Calls : ~Boot(k)
  BY <1>4, RemembersStep DEF Remembers, AllKnown, Registered
<1>5. QED
  BY <1>1, <1>2, <1>3, <1>4

-----------------------------------------------------------------------------
(* Watchers. *)

\* A watcher that is not armed anew, of a service that was not disabled anew.
NoNewWatcher ==
    \A s \in Service :
        /\ tracked[s] = None => tracked'[s] = None
        /\ promised'[s] = "no" => promised[s] = "no"

\* Where no watcher is armed and none is promised away, none is left by the daemon's steps.
LEMMA WatchersKept ==
    ASSUME TypeInv, WatchersAreEnabled, Remembers, NoNewWatcher
    PROVE  DisableIsAKillSwitch'
<1>1. ASSUME NEW s \in Registered' \ forgotten' PROVE s \in Registered \ forgotten
  <2>1. s \in Service /\ s \notin forgotten
    BY DEF Registered, Remembers
  <2>2. CASE daemon = "up"
    BY <2>1, <2>2 DEF WatchersAreEnabled, AllKnown
  <2>3. CASE daemon # "up"
    BY <2>1, <2>3 DEF Remembers
  <2>4. QED
    BY <2>2, <2>3
<1>2. QED
  BY <1>1 DEF WatchersAreEnabled, DisableIsAKillSwitch, NoNewWatcher, Registered

\* Triggers that are synchronised leave no watcher of a service that is disabled.
LEMMA WatchersSynced ==
    ASSUME TypeInv, TypeInv', DurableInv', daemon' = "up", mem' = mem, record' \in Records,
           tracked' = Synced(record')
    PROVE  DisableIsAKillSwitch'
<1>1. ASSUME NEW s \in Service, record'[s] # None, promised'[s] = "no" PROVE tracked'[s] = None
  <2>1. s \notin mem'.enabled
    BY <1>1 DEF DurableInv, Acknowledged
  <2>2. QED
    BY <1>1, <2>1 DEF Synced
<1>2. QED
  BY <1>1 DEF DisableIsAKillSwitch, Registered

\* The daemon is up while a call is in progress.
LEMMA UpInCalls ==
    ASSUME TypeInv, NEW k \in Calls, call[k].pc # "idle"
    PROVE  daemon = "up"
<1>1. Idle.pc = "idle"
  BY DEF Idle
<1>2. QED
  BY <1>1 DEF TypeInv, DownIsEmpty, Typed, TypeOK

\* The operations that synchronise the triggers.
LEMMA WatchersOfReturns ==
    ASSUME TypeInv, TypeInv', DurableInv', NEW k \in Calls,
           EnableReturns(k) \/ BootReturns(k) \/ ReloadReturns(k)
    PROVE  DisableIsAKillSwitch'
<1>1. daemon' = "up" /\ mem' = mem
  BY UpInCalls DEF EnableReturns, BootReturns, ReloadReturns, power, store
<1>2. record' \in Records /\ tracked' = Synced(record')
  BY Removals DEF EnableReturns, BootReturns, ReloadReturns, TypeInv, Typed, TypeOK, Records
<1>3. QED
  BY <1>1, <1>2, WatchersSynced

\* A step of a daemon that is up arms no watcher, but where the triggers are synchronised.
LEMMA WatchersArmed ==
    ASSUME TypeInv, Next, ~Crash,
           \A k \in Calls : ~(Boot(k) \/ EnableReturns(k) \/ BootReturns(k) \/ ReloadReturns(k))
    PROVE  NoNewWatcher
<1> USE DEF watchVars, history
<1>1. CASE WriteEnds \/ WriteFails \/ \E p \in Path, e \in Entry : Touch(p, e)
  BY <1>1 DEF WriteEnds, WriteFails, Touch, Changes, NoNewWatcher
<1>2. ASSUME NEW k \in Calls, CallSteps(k) PROVE NoNewWatcher
  <2>1. CASE UnquarantineReturns(k) \/ StoreOpens(k) \/ StoreFails(k) \/ Spawns(k) \/ Settles(k)
             \/ RestartContinues(k) \/ Reload(k) \/ WireOpens(k) \/ WireFails(k)
    BY <2>1 DEF UnquarantineReturns, StoreOpens, StoreFails, Spawns, Settles, RestartContinues,
       Reload, WireOpens, WireFails, NoNewWatcher
  <2>2. ASSUME NEW s \in Service, NEW bit \in BOOLEAN, Enable(k, s, bit)
        PROVE  NoNewWatcher
    BY <2>2 DEF Enable, NoNewWatcher, TypeInv, Typed, TypeOK
  <2>3. ASSUME NEW s \in Service, Poll(k, s)
        PROVE  NoNewWatcher
    BY <2>3 DEF Poll, Due, Polled, NoNewWatcher, TypeInv, Typed, TypeOK, FileWatchTypeOK
  <2>4. ASSUME NEW s \in Service,
               \/ Unquarantine(k, s) \/ Start(k, s) \/ Restart(k, s) \/ Relaunch(k, s)
               \/ Reads(k, s) \/ Adds(k, s) \/ Keeps(k, s) \/ Stages(k, s) \/ Updates(k, s)
               \/ BootStarts(k, s) \/ BootSkips(k, s)
        PROVE  NoNewWatcher
    BY <2>4 DEF Unquarantine, Start, Restart, Relaunch, Reads, Adds, Keeps, Stages, Updates, Visits,
       BootStarts, BootSkips, NoNewWatcher
  <2>5. QED
    BY <1>2, <2>1, <2>2, <2>3, <2>4 DEF CallSteps
<1>3. ASSUME NEW s \in Service, ServiceSteps(s) PROVE NoNewWatcher
  BY <1>3 DEF ServiceSteps, Stop, RelaunchRefused, Edit, ExitQuarantines, ExitDeregisters,
     ExitOfUnknown, ExitRests, ExitRelaunches, Leaves, NoNewWatcher
<1>4. QED
  BY <1>1, <1>2, <1>3 DEF Next

\* A watcher of a service that was registered ever since the boot is one of a service that an
\* operator has not disabled.
THEOREM WatchersInvariant == Spec => []WatchersAreEnabled
<1>1. Init => WatchersAreEnabled
  BY DEF Init, FileWatchInit, NoDefinitions, WatchersAreEnabled, AllKnown, DisableIsAKillSwitch,
     Registered
<1>2. ASSUME TypeInv, TypeInv', DurableInv', WatchersAreEnabled, [Next]_vars
      PROVE  WatchersAreEnabled'
  <2>1. AllKnown'
    BY <1>2, KnownStep DEF WatchersAreEnabled
  <2>2. DisableIsAKillSwitch'
    <3>1. CASE UNCHANGED vars
      BY <1>2, <3>1 DEF vars, watchVars, history, WatchersAreEnabled, DisableIsAKillSwitch, Registered
    <3>2. CASE Crash
      BY <3>2 DEF Crash, Off, NoDefinitions, DisableIsAKillSwitch, Registered
    <3>3. ASSUME NEW k \in Calls, Boot(k) PROVE DisableIsAKillSwitch'
      BY <1>2, <3>3 DEF Boot, watchVars, TypeInv, DownIsEmpty, NoDefinitions, DisableIsAKillSwitch,
         Registered
    <3>4. ASSUME NEW k \in Calls, EnableReturns(k) \/ BootReturns(k) \/ ReloadReturns(k)
          PROVE  DisableIsAKillSwitch'
      BY <1>2, <3>4, WatchersOfReturns
    <3>5. CASE /\ Next /\ ~Crash
               /\ \A k \in Calls :
                     ~(Boot(k) \/ EnableReturns(k) \/ BootReturns(k) \/ ReloadReturns(k))
      <4>1. Remembers /\ NoNewWatcher
        BY <1>2, <3>5, RemembersStep, WatchersArmed
      <4>2. QED
        BY <1>2, <4>1, WatchersKept
    <3>6. QED
      BY <1>2, <3>1, <3>2, <3>3, <3>4, <3>5
  <2>3. QED
    BY <2>1, <2>2 DEF WatchersAreEnabled
<1>3. QED
  BY <1>1, <1>2, TypeCorrect, DurableInvariant, PTL DEF Spec

\* `disable` is the kill switch of a file_watch service (index.ts:645): once it is acknowledged no
\* watcher is left that could start the service.
THEOREM KillSwitchTheorem == Spec => []DisableIsAKillSwitch
<1>1. WatchersAreEnabled => DisableIsAKillSwitch
  BY DEF WatchersAreEnabled
<1>2. QED
  BY <1>1, WatchersInvariant, PTL

-----------------------------------------------------------------------------
(* Calls keep apart, where no service is started again while it is being started. *)

\* One call goes on: it claims what it had or what nobody has.
LEMMA ApartKept ==
    ASSUME TypeInv, OneStart, NEW k \in Calls, NEW c, call' = [call EXCEPT ![k] = c], Shaped(c),
           \A s \in ClaimsOf(c) : s \in Claims(k) \/ \A j \in Calls \ {k} : s \notin Claims(j)
    PROVE  OneStart'
<1>1. call'[k] = c /\ \A j \in Calls \ {k} : call'[j] = call[j]
  BY DEF TypeInv, Typed, TypeOK
<1>2. \A j \in Calls : Shaped(call'[j])
  BY <1>1 DEF OneStart
<1>3. \A i, j \in Calls : i # j => ClaimsOf(call'[i]) \cap ClaimsOf(call'[j]) = {}
  BY <1>1 DEF OneStart, Claims
<1>4. QED
  BY <1>2, <1>3 DEF OneStart, Claims, Shaped, ClaimsOf

\* No call claims more than it had.
LEMMA ApartShrinks ==
    ASSUME OneStart, \A j \in Calls : Shaped(call'[j]) /\ ClaimsOf(call'[j]) \subseteq Claims(j)
    PROVE  OneStart'
<1>1. \A i, j \in Calls : i # j => ClaimsOf(call'[i]) \cap ClaimsOf(call'[j]) = {}
  BY DEF OneStart
<1>2. QED
  BY <1>1 DEF OneStart, Claims, Shaped, ClaimsOf

\* A call that is idle, or that does no more than some operations, claims nothing.
LEMMA NoClaims ==
    ASSUME NEW c, c.op # "boot", c.pc \notin Spawning \cup {"stopping", "next"},
           c.pc \in Reloading => c.op = "reload"
    PROVE  Shaped(c) /\ ClaimsOf(c) = {}
BY DEF Shaped, ClaimsOf

\* Idle claims nothing.
LEMMA IdleClaims == Shaped(Idle) /\ ClaimsOf(Idle) = {}
BY NoClaims DEF Idle, Spawning, Reloading

\* A name that nobody claims is claimed by none of the calls.
LEMMA Unclaimed ==
    ASSUME TypeInv, NEW s \in Service, s \notin Claimed, NEW j \in Calls
    PROVE  s \notin Claims(j)
BY DEF Claims, ClaimsOf, Claimed, InProgress

\* start() claims the service it starts.
LEMMA ApartStarts ==
    ASSUME TypeInv, OneStart, NEW k \in Calls, NEW s \in Registered, NEW c \in Call,
           NEW fired \in BOOLEAN, Starts(k, s, c, fired),
           \A j \in Calls \ {k} : s \notin Claims(j),
           \A n \in c.todo : c.op = "boot" => n \in Claims(k)
    PROVE  OneStart'
<1> DEFINE open == record[s].pending # None /\ Upcoming(s) \in Budgeted
           next == [c EXCEPT !.on = s, !.pc = IF open THEN "budget" ELSE "log",
                             !.args = IF open THEN None ELSE Upcoming(s)]
<1>1. next.on = s /\ next.op = c.op /\ next.pc \in Spawning /\ next.todo = c.todo
  BY DEF Call, Spawning
<1>2. call' = [call EXCEPT ![k] = next]
  BY DEF Starts, Upcoming
<1> HIDE DEF next
<1>3. Shaped(next) /\ \A n \in ClaimsOf(next) : n = s \/ n \in Claims(k)
  BY <1>1 DEF Shaped, ClaimsOf, Spawning, Reloading
<1>4. QED
  BY <1>2, <1>3, ApartKept

\* The actions that start a service.
LEMMA ApartStartActions ==
    ASSUME "again" \notin Overlap, TypeInv, OneStart, NEW k \in Calls, NEW s \in Service,
           Start(k, s) \/ Relaunch(k, s) \/ BootStarts(k, s) \/ (Poll(k, s) /\ call' # call)
    PROVE  OneStart'
<1>1. CASE Start(k, s) \/ Relaunch(k, s) \/ (Poll(k, s) /\ call' # call)
  <2>1. PICK o \in {"start", "job"}, fired \in BOOLEAN : Starts(k, s, [Idle EXCEPT !.op = o], fired)
    BY <1>1 DEF Start, Relaunch, Poll
  <2>2. s \in Registered /\ MayStart(s)
    BY <1>1 DEF Start, Relaunch, Poll, CanStart
  <2> DEFINE c == [Idle EXCEPT !.op = o]
  <2>3. c \in Call /\ c.op # "boot"
    BY DEF Idle, Call
  <2> HIDE DEF c
  <2>4. Starts(k, s, c, fired)
    BY <2>1 DEF c
  <2>5. \A j \in Calls \ {k} : s \notin Claims(j)
    BY <2>2, Unclaimed DEF MayStart
  <2>6. QED
    BY <2>2, <2>3, <2>4, <2>5, ApartStarts
<1>2. CASE BootStarts(k, s)
  <2>1. call[k] \in Call /\ call[k].op = "boot" /\ s \in call[k].todo /\ s \in Registered
    BY <1>2 DEF BootStarts, BootWants, CanStart, OneStart, Shaped, TypeInv, Typed, TypeOK
  <2> DEFINE c == [call[k] EXCEPT !.todo = @ \ {s}]
  <2>2. c \in Call /\ c.op = "boot" /\ c.todo = call[k].todo \ {s}
    BY <2>1 DEF Call
  <2> HIDE DEF c
  <2>3. Starts(k, s, c, FALSE)
    BY <1>2 DEF BootStarts, c
  <2>4. \A n \in call[k].todo : n \in Claims(k)
    BY <2>1 DEF Claims, ClaimsOf
  <2>5. \A j \in Calls \ {k} : s \notin Claims(j)
    BY <2>1, <2>4 DEF OneStart
  <2>6. QED
    BY <2>1, <2>2, <2>3, <2>4, <2>5, ApartStarts
<1>3. QED
  BY <1>1, <1>2

\* A restart claims its service, waits for the exit, and starts it or not.
LEMMA ApartRestart ==
    ASSUME "again" \notin Overlap, TypeInv, OneStart, NEW k \in Calls,
           RestartContinues(k) \/ \E s \in Service : Restart(k, s)
    PROVE  OneStart'
<1>1. ASSUME NEW s \in Service, Restart(k, s) PROVE OneStart'
  <2> DEFINE c == [Idle EXCEPT !.op = "restart", !.pc = "stopping", !.on = s]
  <2>1. c.op = "restart" /\ c.pc = "stopping" /\ c.on = s /\ c.todo = {}
    BY DEF Idle
  <2> HIDE DEF c
  <2>2. call' = [call EXCEPT ![k] = c] /\ s \notin Claimed
    BY <1>1 DEF Restart, MayStart, c
  <2>3. Shaped(c) /\ ClaimsOf(c) \subseteq {s}
    BY <2>1 DEF Shaped, ClaimsOf, Reloading
  <2>4. \A j \in Calls \ {k} : s \notin Claims(j)
    BY <2>2, Unclaimed
  <2>5. \A n \in ClaimsOf(c) : \A j \in Calls \ {k} : n \notin Claims(j)
    BY <2>3, <2>4
  <2>6. QED
    BY <2>2, <2>3, <2>5, ApartKept
<1>2. CASE RestartContinues(k) /\ CanStart(call[k].on)
  <2> DEFINE s == call[k].on
             c == [Idle EXCEPT !.op = "start"]
  <2>1. c \in Call /\ c.op = "start"
    BY DEF Idle, Call
  <2>2. Starts(k, s, c, FALSE) /\ s \in Registered /\ call[k].pc = "stopping"
    BY <1>2 DEF RestartContinues, CanStart
  <2> HIDE DEF c
  <2>3. s \in Claims(k)
    BY <2>2 DEF Claims, ClaimsOf, Registered
  <2>4. \A j \in Calls \ {k} : s \notin Claims(j)
    BY <2>3 DEF OneStart
  <2> HIDE DEF s
  <2>5. QED
    BY <2>1, <2>2, <2>4, ApartStarts
<1>3. CASE RestartContinues(k) /\ ~CanStart(call[k].on)
  BY <1>3, IdleClaims, ApartKept DEF RestartContinues
<1>4. QED
  BY <1>1, <1>2, <1>3

\* The rest of a start gives its claim up with the spawn, or when it fails.
LEMMA ApartStarted ==
    ASSUME TypeInv, OneStart, NEW k \in Calls,
           StoreOpens(k) \/ StoreFails(k) \/ Spawns(k) \/ Settles(k)
    PROVE  OneStart'
<1>1. call[k] \in Call /\ call[k].pc \in Spawning \cup {"settle"}
  BY DEF StoreOpens, StoreFails, Spawns, Settles, Spawning, TypeInv, Typed, TypeOK
<1>2. CASE StoreOpens(k)
  <2> DEFINE c == [call[k] EXCEPT !.pc = "log", !.args = Held(k)]
  <2>1. c.op = call[k].op /\ c.pc = "log" /\ c.on = call[k].on /\ c.todo = call[k].todo
    BY <1>1 DEF Call
  <2>2. call' = [call EXCEPT ![k] = c] /\ call[k].pc = "budget"
    BY <1>2 DEF StoreOpens
  <2> HIDE DEF c
  <2>3. Shaped(c) /\ ClaimsOf(c) \subseteq Claims(k)
    BY <2>1, <2>2 DEF Shaped, ClaimsOf, Claims, Reloading, Spawning
  <2>4. QED
    BY <2>2, <2>3, ApartKept
<1>3. CASE Spawns(k)
  <2> DEFINE c == [call[k] EXCEPT !.pc = "settle", !.args = None]
  <2>1. c.op = call[k].op /\ c.pc = "settle" /\ c.on = call[k].on /\ c.todo = call[k].todo
    BY <1>1 DEF Call
  <2>2. call' = [call EXCEPT ![k] = c]
    BY <1>3 DEF Spawns
  <2> HIDE DEF c
  <2>3. Shaped(c) /\ ClaimsOf(c) \subseteq Claims(k)
    BY <2>1 DEF Shaped, ClaimsOf, Claims, Reloading, Spawning
  <2>4. QED
    BY <2>2, <2>3, ApartKept
<1>4. CASE StoreFails(k) \/ Settles(k)
  <2> DEFINE c == IF call[k].op = "boot"
                  THEN [Idle EXCEPT !.op = "boot", !.pc = "next", !.todo = call[k].todo]
                  ELSE Idle
  <2>1. \/ c = Idle
        \/ c.op = "boot" /\ c.pc = "next" /\ c.own = None /\ c.todo = call[k].todo
           /\ call[k].op = "boot"
    BY DEF Idle
  <2>2. call' = [call EXCEPT ![k] = c]
    BY <1>4 DEF StoreFails, Settles, Over
  <2> HIDE DEF c
  <2>3. Shaped(c) /\ ClaimsOf(c) \subseteq Claims(k)
    BY <2>1, IdleClaims DEF Shaped, ClaimsOf, Claims, Reloading, Spawning
  <2>4. QED
    BY <2>2, <2>3, ApartKept
<1>5. QED
  BY <1>2, <1>3, <1>4

\* A reload claims no service.
LEMMA ApartReload ==
    ASSUME TypeInv, OneStart, NEW k \in Calls,
           \/ Reload(k) \/ WireOpens(k) \/ WireFails(k)
           \/ \E s \in Service : \/ Reads(k, s) \/ Adds(k, s) \/ Keeps(k, s) \/ Stages(k, s)
                                 \/ Updates(k, s)
    PROVE  OneStart'
<1>1. ASSUME NEW c, call' = [call EXCEPT ![k] = c], c.op = "reload", c.pc \in Reloading
      PROVE  OneStart'
  <2>1. Shaped(c) /\ ClaimsOf(c) = {}
    BY <1>1, NoClaims DEF Reloading, Spawning
  <2>2. QED
    BY <1>1, <2>1, ApartKept
<1>2. call[k].pc \in Reloading => call[k].op = "reload" /\ call[k] \in Call
  BY DEF OneStart, Shaped, TypeInv, Typed, TypeOK
<1>3. CASE Reload(k)
  <2> DEFINE names == {n \in Service : files[n] # None}
             c == [Idle EXCEPT !.op = "reload", !.todo = names,
                               !.pc = IF names = {} THEN "reconcile" ELSE "load"]
  <2>1. c.op = "reload" /\ c.pc \in Reloading
    BY DEF Idle, Reloading
  <2>2. call' = [call EXCEPT ![k] = c]
    BY <1>3 DEF Reload
  <2> HIDE DEF c
  <2>3. QED
    BY <1>1, <2>1, <2>2
<1>4. CASE WireOpens(k)
  <2> DEFINE c == [call[k] EXCEPT !.pc = "reconcile", !.on = None]
  <2>1. call[k].op = "reload" /\ call[k] \in Call /\ call' = [call EXCEPT ![k] = c]
    BY <1>2, <1>4 DEF WireOpens, Reloading
  <2>2. c.op = "reload" /\ c.pc \in Reloading
    BY <2>1 DEF Call, Reloading
  <2> HIDE DEF c
  <2>3. QED
    BY <1>1, <2>1, <2>2
<1>5. CASE WireFails(k)
  BY <1>5, IdleClaims, ApartKept DEF WireFails
<1>6. ASSUME NEW s \in Service, Reads(k, s) PROVE OneStart'
  <2> DEFINE found == [call[k].load EXCEPT ![s] = IF files[s] = Broken THEN None ELSE files[s]]
             rest  == call[k].todo \ {s}
             c == [call[k] EXCEPT
                     !.load = found,
                     !.todo = IF rest = {} THEN {n \in Service : found[n] # None} ELSE rest,
                     !.pc = IF rest = {} THEN "reconcile" ELSE "load"]
  <2>1. call[k].op = "reload" /\ call[k] \in Call /\ call' = [call EXCEPT ![k] = c]
    BY <1>2, <1>6 DEF Reads, Reloading
  <2> HIDE DEF found, rest
  <2>2. c.op = "reload" /\ c.pc \in Reloading
    BY <2>1 DEF Call, Reloading
  <2> HIDE DEF c
  <2>3. QED
    BY <1>1, <2>1, <2>2
<1>7. ASSUME NEW s \in Service, Adds(k, s) \/ Updates(k, s) PROVE OneStart'
  <2> DEFINE d == call[k].load[s]
             c == [call[k] EXCEPT !.todo = @ \ {s}, !.pc = IF d \in Budgeted THEN "wire" ELSE @,
                                  !.on = IF d \in Budgeted THEN s ELSE @]
  <2>0. call' = [call EXCEPT ![k] = c]
    BY <1>7 DEF Adds, Updates, Wires
  <2>1. /\ call[k].op = "reload" /\ call[k].pc = "reconcile" /\ call[k] \in Call
        /\ call' = [call EXCEPT ![k] = c]
    BY <1>2, <1>7, <2>0 DEF Adds, Updates, Visits, Reloading
  <2>2. c.op = "reload" /\ c.pc \in Reloading
    BY <2>1 DEF Call, Reloading
  <2> HIDE DEF c
  <2>3. QED
    BY <1>1, <2>1, <2>2
<1>8. ASSUME NEW s \in Service, Keeps(k, s) \/ Stages(k, s) PROVE OneStart'
  <2> DEFINE c == [call[k] EXCEPT !.todo = @ \ {s}]
  <2>1. /\ call[k].op = "reload" /\ call[k].pc = "reconcile" /\ call[k] \in Call
        /\ call' = [call EXCEPT ![k] = c]
    BY <1>2, <1>8 DEF Keeps, Stages, Visits, Advances, Reloading
  <2>2. c.op = "reload" /\ c.pc \in Reloading
    BY <2>1 DEF Call, Reloading
  <2> HIDE DEF c
  <2>3. QED
    BY <1>1, <2>1, <2>2
<1>9. QED
  BY <1>3, <1>4, <1>5, <1>6, <1>7, <1>8

\* A start that goes on with a record of its own keeps its claim.
LEMMA ApartDetached ==
    ASSUME TypeInv, OneStart, NEW c \in [Calls -> Call], NEW names, call' = Detached(c, names),
           \A j \in Calls : c[j] = call[j] \/ c[j] = Idle
    PROVE  OneStart'
<1>1. ASSUME NEW j \in Calls PROVE Shaped(call'[j]) /\ ClaimsOf(call'[j]) \subseteq Claims(j)
  <2>1. Shaped(c[j]) /\ ClaimsOf(c[j]) \subseteq Claims(j)
    BY IdleClaims DEF OneStart, Claims
  <2>2. CASE call'[j] = c[j]
    BY <2>1, <2>2
  <2>3. CASE call'[j] # c[j]
    <3> DEFINE d == record[c[j].on].config
               q == [c[j] EXCEPT !.own = d]
    <3>1. c[j].pc \in Spawning \cup {"settle"} /\ call'[j] = q
      BY <2>3 DEF Detached
    <3> HIDE DEF d
    <3>2. q.pc = c[j].pc /\ q.on = c[j].on /\ q.todo = c[j].todo /\ q.op = c[j].op
      BY DEF Call
    <3> HIDE DEF q
    <3>3. QED
      BY <2>1, <3>1, <3>2 DEF Shaped, ClaimsOf, Spawning, Reloading
  <2>4. QED
    BY <2>2, <2>3
<1>2. QED
  BY <1>1, ApartShrinks

\* The calls that leave, one by one or with their service, and those that save.
LEMMA ApartReturns ==
    ASSUME TypeInv, OneStart, NEW k \in Calls,
           \/ EnableReturns(k) \/ UnquarantineReturns(k) \/ BootReturns(k) \/ ReloadReturns(k)
           \/ \E s \in Service : \/ Unquarantine(k, s) \/ BootSkips(k, s)
                                 \/ \E bit \in BOOLEAN : Enable(k, s, bit)
    PROVE  OneStart'
<1>1. CASE EnableReturns(k) \/ UnquarantineReturns(k) \/ BootReturns(k)
  BY <1>1, IdleClaims, ApartKept DEF EnableReturns, UnquarantineReturns, BootReturns
<1>2. CASE ReloadReturns(k)
  <2> DEFINE c == [call EXCEPT ![k] = Idle]
  <2>1. call' = Detached(c, Dropped(k))
    BY <1>2, Removals DEF TypeInv
  <2>2. c \in [Calls -> Call] /\ \A j \in Calls : c[j] = call[j] \/ c[j] = Idle
    BY IdleTyped DEF TypeInv, Typed, TypeOK
  <2> HIDE DEF c
  <2>3. QED
    BY <2>1, <2>2, ApartDetached
<1>3. ASSUME NEW s \in Service, NEW bit \in BOOLEAN, Enable(k, s, bit) \/ Unquarantine(k, s)
      PROVE  OneStart'
  <2>1. PICK o \in {"enable", "disable", "unquarantine"} :
           call' = [call EXCEPT ![k] = [Idle EXCEPT !.op = o, !.pc = "write", !.on = s]]
    BY <1>3 DEF Enable, Unquarantine
  <2> DEFINE c == [Idle EXCEPT !.op = o, !.pc = "write", !.on = s]
  <2>2. c.op = o /\ c.pc = "write"
    BY DEF Idle
  <2> HIDE DEF c
  <2>3. Shaped(c) /\ ClaimsOf(c) = {}
    BY <2>2, NoClaims DEF Spawning, Reloading
  <2>4. QED
    BY <2>1, <2>3, ApartKept DEF c
<1>4. ASSUME NEW s \in Service, BootSkips(k, s) PROVE OneStart'
  <2> DEFINE c == [call[k] EXCEPT !.todo = @ \ {s}]
  <2>1. /\ call[k].pc = "next" /\ call[k] \in Call /\ call' = [call EXCEPT ![k] = c]
        /\ call[k].op = "boot" /\ call[k].own = None
    BY <1>4 DEF BootSkips, Advances, OneStart, Shaped, TypeInv, Typed, TypeOK
  <2>2. /\ c.op = "boot" /\ c.pc = "next" /\ c.own = None /\ c.todo \subseteq call[k].todo
        /\ c.on = call[k].on
    BY <2>1 DEF Call
  <2> HIDE DEF c
  <2>3. Shaped(c) /\ ClaimsOf(c) \subseteq Claims(k)
    BY <2>1, <2>2 DEF Shaped, ClaimsOf, Claims, Spawning, Reloading
  <2>4. QED
    BY <2>1, <2>3, ApartKept
<1>5. QED
  BY <1>1, <1>2, <1>3, <1>4

\* A write that ends claims nothing.
LEMMA ApartWrites ==
    ASSUME TypeInv, OneStart, WriteEnds \/ WriteFails
    PROVE  OneStart'
<1>1. ASSUME NEW j \in Calls PROVE Shaped(call'[j]) /\ ClaimsOf(call'[j]) \subseteq Claims(j)
  <2> DEFINE c == [call[j] EXCEPT !.pc = "written"]
  <2>1. c.pc = "written" /\ c.op = call[j].op /\ c.todo = call[j].todo
    BY DEF TypeInv, Typed, TypeOK, Call
  <2>2. call'[j] \in {call[j], c, Idle}
    BY DEF WriteEnds, WriteFails
  <2> HIDE DEF c
  <2>3. Shaped(c) /\ ClaimsOf(c) \subseteq Claims(j)
    BY <2>1 DEF Shaped, ClaimsOf, Claims, Spawning, Reloading
  <2>4. QED
    BY <2>2, <2>3, IdleClaims DEF OneStart, Claims
<1>2. QED
  BY <1>1, ApartShrinks

\* A crash ends every call; a boot is the only one.
LEMMA ApartAcrossCrash ==
    ASSUME TypeInv, Crash \/ \E k \in Calls : Boot(k)
    PROVE  OneStart'
<1>1. CASE Crash
  BY <1>1, IdleClaims DEF Crash, Off, OneStart, Claims, Shaped, ClaimsOf
<1>2. ASSUME NEW k \in Calls, Boot(k) PROVE OneStart'
  <2> DEFINE c == [Idle EXCEPT !.op = "boot", !.pc = "next", !.todo = disk.enabled]
  <2>1. c.op = "boot" /\ c.pc = "next" /\ c.own = None
    BY DEF Idle
  <2>2. call'[k] = c /\ \A j \in Calls \ {k} : call'[j] = Idle
    BY <1>2 DEF Boot, TypeInv, DownIsEmpty, Typed, TypeOK
  <2> HIDE DEF c
  <2>3. Shaped(c)
    BY <2>1 DEF Shaped, Reloading
  <2>4. QED
    BY <2>2, <2>3, IdleClaims DEF OneStart, Claims, Shaped, ClaimsOf
<1>3. QED
  BY <1>1, <1>2

\* Where no service is started again while a start of it is in progress, no two calls start one.
THEOREM ApartInvariant == ASSUME "again" \notin Overlap PROVE Spec => []OneStart
<1>1. Init => OneStart
  BY IdleClaims DEF Init, OneStart, Claims, Shaped, ClaimsOf
<1>2. ASSUME TypeInv, OneStart, [Next]_vars PROVE OneStart'
  <2>1. CASE call' = call
    <3>1. \A j \in Calls : Shaped(call'[j]) /\ ClaimsOf(call'[j]) \subseteq Claims(j)
      BY <1>2, <2>1 DEF OneStart, Claims
    <3>2. QED
      BY <1>2, <3>1, ApartShrinks
  <2>2. ASSUME NEW k \in Calls, CallSteps(k) PROVE OneStart'
    <3>1. CASE Boot(k)
      BY <1>2, <3>1, ApartAcrossCrash
    <3>2. CASE ~Boot(k)
      BY <1>2, <2>1, <2>2, <3>2, ApartReturns, ApartStarted, ApartRestart, ApartReload,
         ApartStartActions DEF CallSteps
    <3>3. QED
      BY <3>1, <3>2
  <2>3. ASSUME NEW s \in Service, ServiceSteps(s) PROVE OneStart'
    <3>1. CASE ExitDeregisters(s)
      <4>1. call \in [Calls -> Call] /\ call' = Detached(call, {s})
        BY <1>2, <3>1 DEF ExitDeregisters, TypeInv, Typed, TypeOK
      <4>2. QED
        BY <1>2, <4>1, ApartDetached
    <3>2. CASE ~ExitDeregisters(s)
      BY <2>1, <2>3, <3>2 DEF ServiceSteps, Stop, RelaunchRefused, Edit, ExitQuarantines,
         ExitOfUnknown, ExitRests, ExitRelaunches
    <3>3. QED
      BY <3>1, <3>2
  <2>4. CASE UNCHANGED vars \/ \E p \in Path, e \in Entry : Touch(p, e)
    BY <2>1, <2>4 DEF vars, Touch
  <2>5. QED
    BY <1>2, <2>2, <2>3, <2>4, ApartWrites, ApartAcrossCrash DEF Next
<1>3. QED
  BY <1>1, <1>2, TypeCorrect, PTL DEF Spec

-----------------------------------------------------------------------------
(* What the steps of a start have in common. *)

\* A call that is not in the middle of a start after the step, or was not touched.
NoStart(j) == call'[j].pc \in Spawning => call'[j] = call[j]

\* One call goes on, and no start with it.
LEMMA OneNoStart ==
    ASSUME TypeInv, NEW k \in Calls, NEW c, call' = [call EXCEPT ![k] = c], c.pc \notin Spawning
    PROVE  \A j \in Calls : NoStart(j)
BY DEF TypeInv, Typed, TypeOK, NoStart

\* The steps of a call that neither begin a start nor take one further.
LEMMA NoStartCalls ==
    ASSUME TypeInv, NEW k \in Calls,
           \/ EnableReturns(k) \/ UnquarantineReturns(k) \/ BootReturns(k) \/ WireOpens(k)
           \/ WireFails(k) \/ StoreFails(k) \/ Spawns(k) \/ Settles(k) \/ Reload(k)
           \/ (RestartContinues(k) /\ ~CanStart(call[k].on))
    PROVE  \A j \in Calls : NoStart(j)
<1>1. call[k] \in Call /\ Idle.pc \notin Spawning
  BY DEF TypeInv, Typed, TypeOK, Idle, Spawning
<1>2. CASE EnableReturns(k) \/ UnquarantineReturns(k) \/ BootReturns(k) \/ WireFails(k)
           \/ (RestartContinues(k) /\ ~CanStart(call[k].on))
  BY <1>1, <1>2, OneNoStart DEF EnableReturns, UnquarantineReturns, BootReturns, WireFails,
     RestartContinues
<1>3. CASE WireOpens(k)
  <2>1. [call[k] EXCEPT !.pc = "reconcile", !.on = None].pc \notin Spawning
    BY <1>1 DEF Call, Spawning
  <2>2. call' = [call EXCEPT ![k] = [call[k] EXCEPT !.pc = "reconcile", !.on = None]]
    BY <1>3 DEF WireOpens
  <2>3. QED
    BY <2>1, <2>2, OneNoStart
<1>4. CASE Spawns(k)
  <2>1. [call[k] EXCEPT !.pc = "settle", !.args = None].pc \notin Spawning
    BY <1>1 DEF Call, Spawning
  <2>2. call' = [call EXCEPT ![k] = [call[k] EXCEPT !.pc = "settle", !.args = None]]
    BY <1>4 DEF Spawns
  <2>3. QED
    BY <2>1, <2>2, OneNoStart
<1>5. CASE StoreFails(k) \/ Settles(k)
  <2> DEFINE c == IF call[k].op = "boot"
                  THEN [Idle EXCEPT !.op = "boot", !.pc = "next", !.todo = call[k].todo]
                  ELSE Idle
  <2>1. c.pc \notin Spawning
    BY DEF Idle, Spawning
  <2>2. call' = [call EXCEPT ![k] = c]
    BY <1>5 DEF StoreFails, Settles, Over
  <2> HIDE DEF c
  <2>3. QED
    BY <2>1, <2>2, OneNoStart
<1>6. CASE Reload(k)
  <2> DEFINE names == {n \in Service : files[n] # None}
             c == [Idle EXCEPT !.op = "reload", !.todo = names,
                               !.pc = IF names = {} THEN "reconcile" ELSE "load"]
  <2>1. c.pc \notin Spawning
    BY DEF Idle, Spawning
  <2>2. call' = [call EXCEPT ![k] = c]
    BY <1>6 DEF Reload
  <2> HIDE DEF c
  <2>3. QED
    BY <2>1, <2>2, OneNoStart
<1>7. QED
  BY <1>2, <1>3, <1>4, <1>5, <1>6

\* The steps of a call on a service that neither begin a start nor take one further.
LEMMA NoStartNames ==
    ASSUME TypeInv, NEW k \in Calls, NEW s \in Service,
           \/ Unquarantine(k, s) \/ Restart(k, s) \/ Reads(k, s) \/ Adds(k, s) \/ Keeps(k, s)
           \/ Stages(k, s) \/ Updates(k, s) \/ BootSkips(k, s)
           \/ \E bit \in BOOLEAN : Enable(k, s, bit)
    PROVE  \A j \in Calls : NoStart(j)
<1>1. call[k] \in Call
  BY DEF TypeInv, Typed, TypeOK
<1>2. CASE Unquarantine(k, s) \/ Restart(k, s) \/ \E bit \in BOOLEAN : Enable(k, s, bit)
  <2>1. CASE Restart(k, s)
    <3>1. [Idle EXCEPT !.op = "restart", !.pc = "stopping", !.on = s].pc = "stopping"
      BY DEF Idle
    <3>2. QED
      BY <2>1, <3>1, OneNoStart DEF Restart, Spawning
  <2>2. CASE Unquarantine(k, s)
    <3>1. [Idle EXCEPT !.op = "unquarantine", !.pc = "write", !.on = s].pc = "write"
      BY DEF Idle
    <3>2. QED
      BY <2>2, <3>1, OneNoStart DEF Unquarantine, Spawning
  <2>3. ASSUME NEW bit \in BOOLEAN, Enable(k, s, bit) PROVE \A j \in Calls : NoStart(j)
    <3> DEFINE c == [Idle EXCEPT !.op = IF bit THEN "enable" ELSE "disable", !.pc = "write", !.on = s]
    <3>1. c.pc = "write" /\ call' = [call EXCEPT ![k] = c]
      BY <2>3 DEF Idle, Enable
    <3> HIDE DEF c
    <3>2. QED
      BY <3>1, OneNoStart DEF Spawning
  <2>4. QED
    BY <1>2, <2>1, <2>2, <2>3
<1>3. CASE Reads(k, s)
  <2> DEFINE found == [call[k].load EXCEPT ![s] = IF files[s] = Broken THEN None ELSE files[s]]
             rest  == call[k].todo \ {s}
             c == [call[k] EXCEPT
                     !.load = found,
                     !.todo = IF rest = {} THEN {n \in Service : found[n] # None} ELSE rest,
                     !.pc = IF rest = {} THEN "reconcile" ELSE "load"]
  <2>1. call' = [call EXCEPT ![k] = c]
    BY <1>3 DEF Reads
  <2> HIDE DEF found, rest
  <2>2. c.pc \notin Spawning
    BY <1>1 DEF Call, Spawning
  <2> HIDE DEF c
  <2>3. QED
    BY <2>1, <2>2, OneNoStart
<1>4. CASE Adds(k, s) \/ Updates(k, s)
  <2> DEFINE d == call[k].load[s]
             c == [call[k] EXCEPT !.todo = @ \ {s}, !.pc = IF d \in Budgeted THEN "wire" ELSE @,
                                  !.on = IF d \in Budgeted THEN s ELSE @]
  <2>0. call[k].pc = "reconcile"
    BY <1>4 DEF Adds, Updates, Visits
  <2>1. call' = [call EXCEPT ![k] = c]
    BY <1>4 DEF Adds, Updates, Wires
  <2>2. c.pc \notin Spawning
    BY <1>1, <2>0 DEF Call, Spawning
  <2> HIDE DEF c
  <2>3. QED
    BY <2>1, <2>2, OneNoStart
<1>5. CASE Keeps(k, s) \/ Stages(k, s) \/ BootSkips(k, s)
  <2> DEFINE c == [call[k] EXCEPT !.todo = @ \ {s}]
  <2>1. call' = [call EXCEPT ![k] = c] /\ call[k].pc \in {"reconcile", "next"}
    BY <1>5 DEF Keeps, Stages, BootSkips, Visits, Advances
  <2>2. c.pc \notin Spawning
    BY <1>1, <2>1 DEF Call, Spawning
  <2> HIDE DEF c
  <2>3. QED
    BY <2>1, <2>2, OneNoStart
<1>6. QED
  BY <1>2, <1>3, <1>4, <1>5

\* A write that ends takes no start further.
LEMMA NoStartWrites ==
    ASSUME TypeInv, WriteEnds \/ WriteFails
    PROVE  \A j \in Calls : NoStart(j)
<1>1. ASSUME NEW j \in Calls PROVE NoStart(j)
  <2>1. call'[j] \in {call[j], [call[j] EXCEPT !.pc = "written"], Idle}
    BY DEF WriteEnds, WriteFails
  <2>2. [call[j] EXCEPT !.pc = "written"].pc = "written" /\ Idle.pc = "idle"
    BY DEF TypeInv, Typed, TypeOK, Call, Idle
  <2>3. QED
    BY <2>1, <2>2 DEF NoStart, Spawning
<1>2. QED
  BY <1>1

\* A start that begins: nobody else starts the service, its record has what the start goes on
\* with, and a wiring that is under way has been raced.
Begins(k, s) ==
    /\ s \in Registered /\ record[s].state # "quarantined" /\ child[s] = None
    /\ record' \in Records /\ Registered' = Registered
    /\ \A n \in Service \ {s} : record'[n] = record[n]
    /\ record'[s].config = Upcoming(s) /\ record'[s].pending = None
    /\ record'[s].orphaned = record[s].orphaned
    /\ record'[s].state \in {record[s].state, "starting"}
    /\ \A j \in Calls \ {k} : call'[j] = call[j] /\ ~Spawner(j, s)
    /\ call[k].pc \in {"idle", "next", "stopping"}
    /\ Spawner(k, s)' /\ call'[k].own = None
    /\ call'[k].pc = "log" => call'[k].args = Upcoming(s)
    /\ raced \subseteq raced'
    /\ s \in raced' \/ \A j \in Calls : ~Wiring(j, s)
    /\ IF call'[k].pc = "log" /\ record[s].pending # None
       THEN Upcoming(s) \notin Budgeted /\ Governed(s, Upcoming(s))
       ELSE UNCHANGED <<governed, unopened>>
    /\ record[s].pending = None => call'[k].pc = "log"
    /\ UNCHANGED <<child, mem, forgotten, daemon, files, agreed>>

\* The start action of a call.
Starting(k, s) ==
    \/ Start(k, s) \/ Relaunch(k, s) \/ BootStarts(k, s)
    \/ Poll(k, s) /\ Fires(s) /\ CanStart(s)
    \/ RestartContinues(k) /\ s = call[k].on /\ CanStart(s)

\* start() begins a start.
LEMMA StartsBegins ==
    ASSUME TypeInv, NEW k \in Calls, NEW s \in Service, CanStart(s), NEW c \in Call,
           c.own = None, NEW fired \in BOOLEAN, Starts(k, s, c, fired),
           \A j \in Calls \ {k} : s \notin Claims(j),
           call[k].pc \in {"idle", "next", "stopping"},
           UNCHANGED <<mem, forgotten, daemon, files, agreed>>
    PROVE  Begins(k, s)
<1> DEFINE open == record[s].pending # None /\ Upcoming(s) \in Budgeted
           next == [c EXCEPT !.on = s, !.pc = IF open THEN "budget" ELSE "log",
                             !.args = IF open THEN None ELSE Upcoming(s)]
<1>1. s \in Registered /\ record[s].state # "quarantined" /\ child[s] = None
  BY DEF CanStart
<1>2. /\ record' \in Records /\ Registered' = Registered
      /\ \A n \in Service \ {s} : record'[n] = record[n]
      /\ record'[s].config = Upcoming(s) /\ record'[s].pending = None
      /\ record'[s].orphaned = record[s].orphaned
      /\ record'[s].state \in {record[s].state, "starting"}
  BY <1>1, StartsRecord DEF TypeInv
<1>3. /\ next.on = s /\ next.own = None /\ next.pc \in Spawning
      /\ next.pc = IF open THEN "budget" ELSE "log"
      /\ next.args = IF open THEN None ELSE Upcoming(s)
  BY DEF Call, Spawning
<1>4. call' = [call EXCEPT ![k] = next]
  BY DEF Starts, Upcoming
<1> HIDE DEF next
<1>5. call'[k] = next /\ \A j \in Calls \ {k} : call'[j] = call[j]
  BY <1>4 DEF TypeInv, Typed, TypeOK
<1>6. \A j \in Calls \ {k} : ~Spawner(j, s)
  BY DEF Claims, ClaimsOf, Spawner
<1>7. raced \subseteq raced' /\ (s \in raced' \/ \A j \in Calls : ~Wiring(j, s))
  BY DEF Starts, InProgress, Wiring
<1>8. IF open \/ record[s].pending = None THEN UNCHANGED <<governed, unopened>>
      ELSE Governed(s, Upcoming(s))
  BY DEF Starts, Upcoming
<1>9. child' = child
  BY DEF Starts
<1>10. QED
  BY <1>1, <1>2, <1>3, <1>5, <1>6, <1>7, <1>8, <1>9 DEF Begins, Spawner

\* Whichever way a start is asked for, it begins alone.
LEMMA StartingBegins ==
    ASSUME "again" \notin Overlap, TypeInv, OneStart, NEW k \in Calls, NEW s \in Service,
           Starting(k, s)
    PROVE  Begins(k, s)
<1> USE DEF history, power, store
<1>1. CASE Start(k, s) \/ Relaunch(k, s) \/ (Poll(k, s) /\ Fires(s) /\ CanStart(s))
  <2>1. PICK o \in {"start", "job"}, fired \in BOOLEAN : Starts(k, s, [Idle EXCEPT !.op = o], fired)
    BY <1>1 DEF Start, Relaunch, Poll
  <2>2. CanStart(s) /\ MayStart(s) /\ call[k] = Idle /\ UNCHANGED <<mem, forgotten, daemon, files, agreed>>
    BY <1>1 DEF Start, Relaunch, Poll, Free
  <2> DEFINE c == [Idle EXCEPT !.op = o]
  <2>3. c \in Call /\ c.own = None /\ Idle.pc = "idle"
    BY DEF Idle, Call
  <2> HIDE DEF c
  <2>4. Starts(k, s, c, fired)
    BY <2>1 DEF c
  <2>5. \A j \in Calls \ {k} : s \notin Claims(j)
    BY <2>2, Unclaimed DEF MayStart
  <2>6. QED
    BY <2>2, <2>3, <2>4, <2>5, StartsBegins
<1>2. CASE BootStarts(k, s)
  <2>1. /\ call[k] \in Call /\ call[k].op = "boot" /\ call[k].own = None /\ call[k].pc = "next"
        /\ s \in call[k].todo /\ CanStart(s) /\ UNCHANGED <<mem, forgotten, daemon, files, agreed>>
    BY <1>2 DEF BootStarts, BootWants, OneStart, Shaped, TypeInv, Typed, TypeOK
  <2> DEFINE c == [call[k] EXCEPT !.todo = @ \ {s}]
  <2>2. c \in Call /\ c.own = None
    BY <2>1 DEF Call
  <2> HIDE DEF c
  <2>3. Starts(k, s, c, FALSE)
    BY <1>2 DEF BootStarts, c
  <2>4. s \in Claims(k)
    BY <2>1 DEF Claims, ClaimsOf
  <2>5. \A j \in Calls \ {k} : s \notin Claims(j)
    BY <2>4 DEF OneStart
  <2>6. QED
    BY <2>1, <2>2, <2>3, <2>5, StartsBegins
<1>3. CASE RestartContinues(k) /\ s = call[k].on /\ CanStart(s)
  <2> DEFINE c == [Idle EXCEPT !.op = "start"]
  <2>1. c \in Call /\ c.own = None
    BY DEF Idle, Call
  <2>2. /\ Starts(k, s, c, FALSE) /\ call[k].pc = "stopping"
        /\ UNCHANGED <<mem, forgotten, daemon, files, agreed>>
    BY <1>3 DEF RestartContinues
  <2> HIDE DEF c
  <2>3. s \in Claims(k)
    BY <1>3, <2>2 DEF Claims, ClaimsOf
  <2>4. \A j \in Calls \ {k} : s \notin Claims(j)
    BY <2>3 DEF OneStart
  <2>5. QED
    BY <1>3, <2>1, <2>2, <2>4, StartsBegins
<1>4. QED
  BY <1>1, <1>2, <1>3 DEF Starting

-----------------------------------------------------------------------------
(* What runs is what the record says, and what is held does not run. *)

\* Where no start begins or goes on and children only exit, a service that is held stays so and
\* one that runs runs its record.
LEMMA LifeKept ==
    ASSUME TypeInv, LifeInv, SameDefinitions, \A j \in Calls : NoStart(j), raced' = raced,
           \A n \in Service : child'[n] \in {child[n], None},
           \A n \in Registered : record'[n].state = "quarantined" =>
              record[n].state = "quarantined" \/ (child[n] # None /\ child'[n] = None),
           QuarantinedIsHeld'
    PROVE  LifeInv'
<1>1. Registered' = Registered
  BY SameRegistered
<1>2. \A n \in Service, j \in Calls : Spawner(j, n)' => Spawner(j, n) /\ call'[j] = call[j]
  BY DEF Spawner, NoStart
<1>3. \A n \in Registered : record'[n].config = record[n].config
  BY DEF SameDefinitions, Registered
<1>4. StartsAlone'
  BY <1>2 DEF StartsAlone, LifeInv
<1>5. HeldIsStill'
  <2>1. ASSUME NEW n \in Registered, record'[n].state = "quarantined"
        PROVE  child'[n] = None /\ \A j \in Calls : ~Spawner(j, n)'
    <3>1. n \in Service
      BY DEF Registered
    <3>2. CASE record[n].state = "quarantined"
      BY <1>2, <3>1, <3>2 DEF LifeInv, HeldIsStill
    <3>3. CASE child[n] # None /\ child'[n] = None
      BY <1>2, <3>1, <3>3 DEF LifeInv, StartsAlone
    <3>4. QED
      BY <2>1, <3>2, <3>3
  <2>2. QED
    BY <1>1, <2>1 DEF HeldIsStill
<1>6. StartsFitTheRecord'
  <2>1. ASSUME NEW n \in Service \ raced, NEW j \in Calls, Spawner(j, n)'
        PROVE  /\ call'[j].own = None
               /\ call'[j].pc = "log" => call'[j].args = record'[n].config
    <3>1. Spawner(j, n) /\ call'[j] = call[j] /\ call[j].own = None
      BY <1>2, <2>1 DEF LifeInv, StartsFitTheRecord
    <3>2. n \in Registered
      BY <3>1 DEF Spawner, TypeInv, Typed, CallsFit, CallFits
    <3>3. QED
      BY <1>3, <3>1, <3>2 DEF LifeInv, StartsFitTheRecord
  <2>2. QED
    BY <2>1 DEF StartsFitTheRecord
<1>7. RunsItsRecord'
  BY <1>1, <1>3 DEF LifeInv, RunsItsRecord
<1>8. QED
  BY <1>4, <1>5, <1>6, <1>7 DEF LifeInv

\* What leaves the registry, the children and the quarantines alone.
LEMMA LifeUntouched ==
    ASSUME TypeInv, LifeInv, \A j \in Calls : NoStart(j), UNCHANGED <<record, child, raced, forgotten>>,
           mem'.quarantined = mem.quarantined
    PROVE  LifeInv'
<1>1. SameDefinitions
  BY SameRecord DEF TypeInv, Typed
<1>2. QuarantinedIsHeld'
  BY DEF LifeInv, HeldIsStill, QuarantinedIsHeld, Registered
<1>3. QED
  BY <1>1, <1>2, LifeKept

\* A service that runs changes its state, or exits: it was not held.
LEMMA LifeOfState ==
    ASSUME TypeInv, LifeInv, NEW s \in Registered, NEW t \in States,
           record' = [record EXCEPT ![s].state = t], \A j \in Calls : NoStart(j),
           raced' = raced, forgotten' = forgotten, child[s] # None,
           \A n \in Service : child'[n] \in {child[n], None},
           \/ t # "quarantined" /\ mem'.quarantined = mem.quarantined
           \/ t = "quarantined" /\ child'[s] = None /\ mem'.quarantined = mem.quarantined \cup {s}
    PROVE  LifeInv'
<1>1. SameDefinitions /\ record'[s].state = t /\ \A n \in Service \ {s} : record'[n] = record[n]
  BY SetState DEF TypeInv, Typed
<1>2. Registered' = Registered /\ s \in Service
  BY <1>1, SameRegistered DEF Registered
<1>3. record[s].state # "quarantined"
  BY DEF LifeInv, HeldIsStill
<1>4. QuarantinedIsHeld'
  <2>1. ASSUME NEW n \in Registered \ forgotten, n \in mem'.quarantined
        PROVE  record'[n].state = "quarantined"
    <3>1. CASE n = s
      BY <1>1, <1>3, <2>1, <3>1 DEF LifeInv, HeldIsStill, QuarantinedIsHeld
    <3>2. CASE n # s
      BY <1>1, <2>1, <3>2 DEF LifeInv, HeldIsStill, QuarantinedIsHeld, Registered
    <3>3. QED
      BY <3>1, <3>2
  <2>2. QED
    BY <1>2, <2>1 DEF QuarantinedIsHeld
<1>5. \A n \in Registered : record'[n].state = "quarantined" =>
         record[n].state = "quarantined" \/ (child[n] # None /\ child'[n] = None)
  BY <1>1 DEF Registered
<1>6. QED
  BY <1>1, <1>4, <1>5, LifeKept

\* A snapshot of enabled bits is none of quarantines.
LEMMA EnabledOnly ==
    ASSUME TypeInv, NEW s \in Service, NEW b \in BOOLEAN
    PROVE  /\ WithEnabled(s, b).quarantined = mem.quarantined
           /\ WithQuarantined(s, b).quarantined
                = IF b THEN mem.quarantined \cup {s} ELSE mem.quarantined \ {s}
BY DEF WithEnabled, WithQuarantined, TypeInv, Typed, TypeOK, Bits

\* The steps of the calls that start and hold nothing.
LEMMA LifeAside ==
    ASSUME TypeInv, LifeInv, NEW k \in Calls,
           \/ EnableReturns(k) \/ UnquarantineReturns(k) \/ BootReturns(k) \/ WireOpens(k)
           \/ WireFails(k) \/ StoreFails(k) \/ Reload(k)
           \/ (RestartContinues(k) /\ ~CanStart(call[k].on))
           \/ \E s \in Service : \/ Reads(k, s) \/ BootSkips(k, s)
                                 \/ \E bit \in BOOLEAN : Enable(k, s, bit)
    PROVE  LifeInv'
<1>1. \A j \in Calls : NoStart(j)
  BY NoStartCalls, NoStartNames
<1>2. UNCHANGED <<record, child, raced, forgotten>>
  BY DEF EnableReturns, UnquarantineReturns, BootReturns, WireOpens, WireFails, StoreFails, Reload,
     Reads, BootSkips, Enable, RestartContinues, lifecycle, history
<1>3. mem'.quarantined = mem.quarantined
  <2>1. ASSUME NEW s \in Service, NEW bit \in BOOLEAN, Enable(k, s, bit)
        PROVE  mem'.quarantined = mem.quarantined
    BY <2>1, EnabledOnly DEF Enable, Save
  <2>2. mem' = mem \/ \E s \in Service, bit \in BOOLEAN : Enable(k, s, bit)
    BY DEF EnableReturns, UnquarantineReturns, BootReturns, WireOpens, WireFails, StoreFails,
       Reload, Reads, BootSkips, RestartContinues, store
  <2>3. QED
    BY <2>1, <2>2
<1>4. QED
  BY <1>1, <1>2, <1>3, LifeUntouched

\* A write that ends, with or without an error.
LEMMA LifeOfWrites ==
    ASSUME TypeInv, LifeInv, WriteEnds \/ WriteFails
    PROVE  LifeInv'
BY NoStartWrites, LifeUntouched DEF WriteEnds, WriteFails, lifecycle, history

\* stop(), and the exits but the one of an orphan.
LEMMA LifeOfExits ==
    ASSUME TypeInv, LifeInv, NEW s \in Service, NEW relaunch \in BOOLEAN, NEW giveUp \in BOOLEAN,
           \/ Stop(s) \/ RelaunchRefused(s) \/ Edit(s) \/ ExitOfUnknown(s) \/ ExitQuarantines(s)
           \/ ExitRests(s) \/ ExitRelaunches(s, relaunch, giveUp)
           \/ \E k \in Calls : Restart(k, s)
    PROVE  LifeInv'
<1>1. \A j \in Calls : NoStart(j)
  <2>1. CASE \E k \in Calls : Restart(k, s)
    BY <2>1, NoStartNames
  <2>2. CASE call' = call
    BY <2>2 DEF NoStart
  <2>3. QED
    BY <2>1, <2>2 DEF Stop, RelaunchRefused, Edit, ExitOfUnknown, ExitQuarantines, ExitRests,
       ExitRelaunches
<1>2. UNCHANGED <<raced, forgotten>>
  BY DEF Stop, RelaunchRefused, Edit, ExitOfUnknown, ExitQuarantines, ExitRests, ExitRelaunches,
     Restart, history
<1>3. \A n \in Service : child'[n] \in {child[n], None}
  BY DEF Stop, RelaunchRefused, Edit, ExitOfUnknown, ExitQuarantines, ExitRests, ExitRelaunches,
     Restart, Stops, Leaves, lifecycle, TypeInv, Typed, TypeOK
<1>4. CASE RelaunchRefused(s) \/ Edit(s)
  BY <1>1, <1>2, <1>4, LifeUntouched DEF RelaunchRefused, Edit, lifecycle, store
<1>5. CASE Stop(s) \/ \E k \in Calls : Restart(k, s)
  <2>1. /\ s \in Registered /\ child' = child /\ mem' = mem
        /\ record' = IF child[s] = None THEN record ELSE [record EXCEPT ![s].state = "stopping"]
    BY <1>5 DEF Stop, Restart, Stops, store
  <2>2. CASE child[s] = None
    BY <1>1, <1>2, <2>1, <2>2, LifeUntouched
  <2>3. CASE child[s] # None
    BY <1>1, <1>2, <2>1, <2>3, LifeOfState DEF States
  <2>4. QED
    BY <2>2, <2>3
<1>6. CASE ExitOfUnknown(s)
  <2>1. record' = record /\ mem' = mem
    BY <1>6 DEF ExitOfUnknown, store
  <2>2. SameDefinitions /\ QuarantinedIsHeld'
    BY <1>2, <2>1, SameRecord DEF TypeInv, Typed, LifeInv, HeldIsStill, QuarantinedIsHeld, Registered
  <2>3. QED
    BY <1>1, <1>2, <1>3, <2>1, <2>2, LifeKept
<1>7. CASE ExitRests(s) \/ ExitRelaunches(s, relaunch, giveUp)
  <2>1. /\ s \in Registered /\ child[s] # None /\ mem' = mem
        /\ record' = [record EXCEPT ![s].state = "stopped"]
    BY <1>7 DEF ExitRests, ExitRelaunches, Leaves, store
  <2>2. QED
    BY <1>1, <1>2, <1>3, <2>1, LifeOfState DEF States
<1>8. CASE ExitQuarantines(s)
  <2>1. /\ s \in Registered /\ child[s] # None /\ child'[s] = None
        /\ mem' = WithQuarantined(s, TRUE)
        /\ record' = [record EXCEPT ![s].state = "quarantined"]
    BY <1>8 DEF ExitQuarantines, Leaves, Save, TypeInv, Typed, TypeOK
  <2>2. mem'.quarantined = mem.quarantined \cup {s}
    BY <2>1, EnabledOnly
  <2>3. QED
    BY <1>1, <1>2, <1>3, <2>1, <2>2, LifeOfState DEF States
<1>9. QED
  BY <1>4, <1>5, <1>6, <1>7, <1>8

\* unquarantine() lets a service go that memory does not hold any more.
LEMMA LifeOfUnquarantine ==
    ASSUME TypeInv, LifeInv, NEW k \in Calls, NEW s \in Service, Unquarantine(k, s)
    PROVE  LifeInv'
<1>1. \A j \in Calls : NoStart(j)
  BY NoStartNames
<1>2. /\ s \in Registered /\ UNCHANGED <<child, raced, forgotten>>
      /\ mem'.quarantined = mem.quarantined \ {s}
  BY EnabledOnly DEF Unquarantine, Save, lifecycle, history
<1>3. \/ record' = record
      \/ record' = [record EXCEPT ![s].state = "stopped"]
  BY DEF Unquarantine
<1>4. SameDefinitions /\ \A n \in Service \ {s} : record'[n] = record[n]
  BY <1>2, <1>3, SameRecord, SetState DEF TypeInv, Typed, States
<1>5. \A n \in Registered : record'[n].state = "quarantined" => record[n].state = "quarantined"
  <2>1. record'[s].state \in {record[s].state, "stopped"}
    BY <1>2, <1>3, SetState DEF TypeInv, Typed, States
  <2>2. QED
    BY <1>4, <2>1 DEF Registered
<1>6. QuarantinedIsHeld'
  BY <1>2, <1>4, SameRegistered DEF LifeInv, HeldIsStill, QuarantinedIsHeld, Registered
<1>7. QED
  BY <1>1, <1>2, <1>4, <1>5, <1>6, LifeKept

\* A start that begins is one of a service that is not held and does not run.
LEMMA LifeOfBegins ==
    ASSUME TypeInv, LifeInv, NEW k \in Calls, NEW s \in Service, Begins(k, s)
    PROVE  LifeInv'
<1> USE DEF Begins
<1>1. \A n \in Service, j \in Calls : Spawner(j, n)' =>
         \/ j = k /\ n = s
         \/ j # k /\ n # s /\ Spawner(j, n) /\ call'[j] = call[j]
  BY DEF Spawner
<1>2. StartsAlone'
  BY <1>1 DEF StartsAlone, LifeInv
<1>3. HeldIsStill'
  <2>1. record'[s].state # "quarantined" /\ (s \in mem.quarantined => s \in forgotten)
    BY DEF LifeInv, HeldIsStill, QuarantinedIsHeld
  <2>2. \A n \in Registered \ {s} : record'[n] = record[n]
    BY DEF Registered
  <2>3. ASSUME NEW n \in Registered, record'[n].state = "quarantined"
        PROVE  child[n] = None /\ \A j \in Calls : ~Spawner(j, n)'
    <3>1. n \in Service /\ n # s
      BY <2>1, <2>3 DEF Registered
    <3>2. QED
      BY <1>1, <2>2, <2>3, <3>1 DEF LifeInv, HeldIsStill
  <2>4. QuarantinedIsHeld'
    BY <2>1, <2>2 DEF LifeInv, HeldIsStill, QuarantinedIsHeld
  <2>5. QED
    BY <2>3, <2>4 DEF HeldIsStill
<1>4. StartsFitTheRecord'
  <2>1. ASSUME NEW n \in Service \ raced', NEW j \in Calls, Spawner(j, n)'
        PROVE  /\ call'[j].own = None
               /\ call'[j].pc = "log" => call'[j].args = record'[n].config
    <3>1. n \in Service \ raced
      OBVIOUS
    <3>2. QED
      BY <1>1, <2>1, <3>1 DEF LifeInv, StartsFitTheRecord
  <2>2. QED
    BY <2>1 DEF StartsFitTheRecord
<1>5. RunsItsRecord'
  <2>1. ASSUME NEW n \in Service \ raced', child'[n] # None
        PROVE  n \in Registered /\ child[n].args = record'[n].config /\ child[n].rest = record'[n].config
    <3>1. n \in Service \ raced /\ n # s /\ child[n] # None
      BY <2>1
    <3>2. QED
      BY <3>1 DEF LifeInv, RunsItsRecord
  <2>2. QED
    BY <2>1 DEF RunsItsRecord
<1>6. QED
  BY <1>2, <1>3, <1>4, <1>5 DEF LifeInv

\* The store of a starting service opens: the service is not held, and the start goes on with
\* what its record says.
LEMMA LifeOfStoreOpens ==
    ASSUME TypeInv, LifeInv, NEW k \in Calls, StoreOpens(k)
    PROVE  LifeInv'
<1> DEFINE s == call[k].on
           c == [call[k] EXCEPT !.pc = "log", !.args = Held(k)]
<1>1. Spawner(k, s) /\ s \in Service /\ (call[k].own = None => s \in Registered)
  BY DEF StoreOpens, Spawner, Spawning, TypeInv, Typed, CallsFit, CallFits
<1>2. c.pc = "log" /\ c.args = Held(k) /\ c.on = s /\ c.own = call[k].own
  BY DEF TypeInv, Typed, TypeOK, Call
<1>3. call' = [call EXCEPT ![k] = c]
  BY DEF StoreOpens
<1> HIDE DEF c
<1>4. call'[k] = c /\ \A j \in Calls \ {k} : call'[j] = call[j]
  BY <1>3 DEF TypeInv, Typed, TypeOK
<1>5. \A n \in Service, j \in Calls : Spawner(j, n)' => Spawner(j, n) /\ (j # k => call'[j] = call[j])
  BY <1>1, <1>2, <1>4 DEF Spawner
<1>6. UNCHANGED <<child, mem, forgotten, raced>>
  BY DEF StoreOpens, store, history
<1>7. /\ SameDefinitions /\ \A n \in Service \ {s} : record'[n] = record[n]
      /\ \/ call[k].own # None /\ record' = record
         \/ call[k].own = None /\ record'[s].state = "starting"
  <2>1. CASE call[k].own = None
    <3>1. record' = [record EXCEPT ![s].state = "starting"]
      BY <2>1 DEF StoreOpens
    <3>2. QED
      BY <1>1, <2>1, <3>1, SetState DEF TypeInv, Typed, States
  <2>2. CASE call[k].own # None
    BY <2>2, SameRecord DEF StoreOpens, TypeInv, Typed
  <2>3. QED
    BY <2>1, <2>2
<1>8. Registered' = Registered /\ \A n \in Registered : record'[n].config = record[n].config
  BY <1>7, SameRegistered DEF SameDefinitions, Registered
<1>9. s \in Registered => record[s].state # "quarantined"
  BY <1>1 DEF LifeInv, HeldIsStill
<1> HIDE DEF s
<1>10. StartsAlone'
  BY <1>5, <1>6 DEF StartsAlone, LifeInv
<1>11. HeldIsStill'
  <2>1. \A n \in Registered : record'[n].state = "quarantined" => record[n].state = "quarantined"
    BY <1>7, <1>9 DEF Registered
  <2>2. \A n \in Registered \ forgotten : n \in mem.quarantined => record'[n].state = "quarantined"
    BY <1>7, <1>9 DEF Registered, LifeInv, HeldIsStill, QuarantinedIsHeld
  <2>3. \A n \in Registered : record'[n].state = "quarantined" =>
           child'[n] = None /\ \A j \in Calls : ~Spawner(j, n)'
    BY <1>5, <1>6, <2>1 DEF Registered, LifeInv, HeldIsStill
  <2>4. QuarantinedIsHeld'
    BY <1>6, <1>8, <2>2 DEF QuarantinedIsHeld
  <2>5. QED
    BY <1>8, <2>3, <2>4 DEF HeldIsStill
<1>12. StartsFitTheRecord'
  <2>1. ASSUME NEW n \in Service \ raced, NEW j \in Calls, Spawner(j, n)'
        PROVE  /\ call'[j].own = None
               /\ call'[j].pc = "log" => call'[j].args = record'[n].config
    <3>1. Spawner(j, n) /\ call[j].own = None
      BY <1>5, <2>1 DEF LifeInv, StartsFitTheRecord
    <3>2. n \in Registered
      BY <3>1 DEF Spawner, TypeInv, Typed, CallsFit, CallFits
    <3>3. CASE j # k
      BY <1>5, <1>8, <2>1, <3>1, <3>2, <3>3 DEF LifeInv, StartsFitTheRecord
    <3>4. CASE j = k
      <4>1. call'[j].own = None /\ call'[j].args = Held(k) /\ n = call[k].on
        BY <1>2, <1>4, <3>1, <3>4 DEF Spawner
      <4>2. Held(k) = record[n].config
        BY <3>1, <3>4, <4>1 DEF Held
      <4>3. QED
        BY <1>8, <3>2, <4>1, <4>2
    <3>5. QED
      BY <3>3, <3>4
  <2>2. QED
    BY <1>6, <2>1 DEF StartsFitTheRecord
<1>13. RunsItsRecord'
  BY <1>6, <1>8 DEF LifeInv, RunsItsRecord
<1>14. QED
  BY <1>10, <1>11, <1>12, <1>13 DEF LifeInv

\* The child that is spawned is the only one, of a service that is not held, with one definition.
LEMMA LifeOfSpawns ==
    ASSUME TypeInv, OneStart, LifeInv, NEW k \in Calls, Spawns(k)
    PROVE  LifeInv'
<1> DEFINE s == call[k].on
<1>1. /\ Spawner(k, s) /\ s \in Service /\ (call[k].own = None => s \in Registered)
      /\ call[k].pc = "log"
  BY DEF Spawns, Spawner, Spawning, TypeInv, Typed, CallsFit, CallFits
<1>2. /\ child'[s] = [args |-> call[k].args, rest |-> Held(k)]
      /\ \A n \in Service \ {s} : child'[n] = child[n]
  BY <1>1 DEF Spawns, TypeInv, Typed, TypeOK
<1>3. UNCHANGED <<record, mem, forgotten, raced>>
  BY DEF Spawns, store, history
<1>4. (\A j \in Calls : NoStart(j)) /\ \A n \in Service : ~Spawner(k, n)'
  <2>1. [call[k] EXCEPT !.pc = "settle", !.args = None].pc = "settle"
    BY DEF TypeInv, Typed, TypeOK, Call
  <2>2. call'[k].pc = "settle"
    BY <2>1 DEF Spawns, TypeInv, Typed, TypeOK
  <2>3. QED
    BY <2>2, NoStartCalls DEF Spawner, Spawning
<1>5. \A j \in Calls \ {k} : ~Spawner(j, s)
  BY <1>1 DEF OneStart, Claims, ClaimsOf, Spawner
<1> HIDE DEF s
<1>6. \A n \in Service, j \in Calls : Spawner(j, n)' => n # s /\ Spawner(j, n) /\ call'[j] = call[j]
  BY <1>4, <1>5 DEF Spawner, NoStart
<1>7. StartsAlone'
  BY <1>2, <1>6 DEF StartsAlone, LifeInv
<1>8. HeldIsStill'
  <2>1. s \in Registered => record[s].state # "quarantined"
    BY <1>1 DEF LifeInv, HeldIsStill
  <2>2. \A n \in Registered : record[n].state = "quarantined" =>
           child'[n] = None /\ \A j \in Calls : ~Spawner(j, n)'
    BY <1>2, <1>6, <2>1 DEF Registered, LifeInv, HeldIsStill
  <2>3. QED
    BY <1>3, <2>2 DEF LifeInv, HeldIsStill, QuarantinedIsHeld, Registered
<1>9. StartsFitTheRecord'
  BY <1>3, <1>6 DEF LifeInv, StartsFitTheRecord
<1>10. RunsItsRecord'
  <2>1. ASSUME s \notin raced
        PROVE  /\ s \in Registered
               /\ child'[s].args = record[s].config /\ child'[s].rest = record[s].config
    <3>1. call[k].own = None /\ call[k].args = record[s].config
      BY <1>1, <2>1 DEF LifeInv, StartsFitTheRecord
    <3>2. Held(k) = record[s].config
      BY <3>1 DEF Held, s
    <3>3. QED
      BY <1>1, <1>2, <3>1, <3>2
  <2>2. QED
    BY <1>2, <1>3, <2>1 DEF LifeInv, RunsItsRecord, Registered
<1>11. QED
  BY <1>7, <1>8, <1>9, <1>10 DEF LifeInv

\* The settle ends, with or without the child.
LEMMA LifeOfSettles ==
    ASSUME TypeInv, LifeInv, NEW k \in Calls, Settles(k)
    PROVE  LifeInv'
<1> DEFINE s == call[k].on
<1>1. s \in Service /\ (call[k].own = None => s \in Registered)
  BY DEF Settles, TypeInv, Typed, CallsFit, CallFits
<1>2. UNCHANGED <<child, mem, forgotten, raced>> /\ \A j \in Calls : NoStart(j)
  BY NoStartCalls DEF Settles, store, history
<1>3. \/ record' = record
      \/ child[s] # None /\ s \in Registered /\ record' = [record EXCEPT ![s].state = "running"]
  BY <1>1 DEF Settles
<1> HIDE DEF s
<1>4. CASE record' = record
  BY <1>2, <1>4, LifeUntouched
<1>5. CASE child[s] # None /\ s \in Registered /\ record' = [record EXCEPT ![s].state = "running"]
  BY <1>2, <1>5, LifeOfState DEF States
<1>6. QED
  BY <1>3, <1>4, <1>5

\* A name that a reload visits: an addition does not run, a change applies to what does not run,
\* and starts on their way are raced.
LEMMA LifeOfVisit ==
    ASSUME TypeInv, LifeInv, AllKnown, NEW k \in Calls, NEW s \in Service,
           Adds(k, s) \/ Keeps(k, s) \/ Stages(k, s) \/ Updates(k, s)
    PROVE  LifeInv'
<1>1. /\ Registered' = Registered \cup {s} /\ \A n \in Service \ {s} : record'[n] = record[n]
      /\ s \in Registered => record'[s].state = record[s].state
      /\ s \notin Registered => record'[s].state = "stopped"
      /\ Stages(k, s) => record'[s].config = record[s].config
      /\ ~Stages(k, s) => record'[s].config = call[k].load[s]
  BY VisitRegisters
<1>2. UNCHANGED <<child, mem, forgotten>> /\ call[k].pc = "reconcile"
  BY DEF Adds, Keeps, Stages, Updates, Visits, store
<1>3. \A n \in Service, j \in Calls : Spawner(j, n)' => Spawner(j, n) /\ call'[j] = call[j]
  BY NoStartNames DEF Spawner, NoStart
<1>4. \/ raced' = raced /\ s \in Registered /\ record'[s].config = record[s].config
      \/ raced' = raced \cup OnTheirWay({s}) /\ (s \in Registered => child[s] = None)
  BY <1>1 DEF Adds, Keeps, Stages, Updates, Wires
<1>5. s \in Registered \cup forgotten
  <2>1. daemon = "up"
    BY <1>2, UpInCalls
  <2>2. QED
    BY <2>1 DEF AllKnown
<1>6. StartsAlone'
  BY <1>2, <1>3 DEF StartsAlone, LifeInv
<1>7. HeldIsStill'
  <2>1. \A n \in Registered' : record'[n].state = "quarantined" =>
           n \in Registered /\ record[n].state = "quarantined"
    BY <1>1 DEF Registered
  <2>2. \A n \in Registered' \ forgotten : n \in Registered /\ record'[n].state = record[n].state
    BY <1>1, <1>5 DEF Registered
  <2>3. \A n \in Registered' : record'[n].state = "quarantined" =>
           child[n] = None /\ \A j \in Calls : ~Spawner(j, n)'
    BY <1>3, <2>1 DEF Registered, LifeInv, HeldIsStill
  <2>4. QuarantinedIsHeld'
    BY <1>2, <2>2 DEF LifeInv, HeldIsStill, QuarantinedIsHeld
  <2>5. QED
    BY <1>2, <2>3, <2>4 DEF HeldIsStill
<1>8. StartsFitTheRecord'
  <2>1. ASSUME NEW n \in Service \ raced', NEW j \in Calls, Spawner(j, n)'
        PROVE  /\ call'[j].own = None
               /\ call'[j].pc = "log" => call'[j].args = record'[n].config
    <3>1. n \notin raced /\ Spawner(j, n) /\ call'[j] = call[j]
      BY <1>3, <1>4, <2>1
    <3>2. record'[n].config = record[n].config
      <4>1. CASE n = s
        <5>1. s \in OnTheirWay({s})
          BY <3>1, <4>1 DEF OnTheirWay, InProgress, Spawner
        <5>2. QED
          BY <1>4, <2>1, <4>1, <5>1
      <4>2. QED
        BY <1>1, <4>1
    <3>3. QED
      BY <3>1, <3>2 DEF LifeInv, StartsFitTheRecord
  <2>2. QED
    BY <2>1 DEF StartsFitTheRecord
<1>9. RunsItsRecord'
  <2>1. ASSUME NEW n \in Service \ raced', child[n] # None
        PROVE  /\ n \in Registered /\ record'[n].config = record[n].config
               /\ child[n].args = record[n].config /\ child[n].rest = record[n].config
    <3>1. n \notin raced
      BY <1>4, <2>1
    <3>2. /\ n \in Registered
          /\ child[n].args = record[n].config /\ child[n].rest = record[n].config
      BY <2>1, <3>1 DEF LifeInv, RunsItsRecord
    <3>3. QED
      BY <1>1, <1>4, <2>1, <3>2
  <2>2. QED
    BY <1>1, <1>2, <2>1 DEF RunsItsRecord
<1>10. QED
  BY <1>6, <1>7, <1>8, <1>9 DEF LifeInv

\* Services that leave the registry do not run, and their starts on the way are raced.
LEMMA LifeOfRemoval ==
    ASSUME TypeInv, LifeInv, NEW names \in SUBSET Registered, Registered' = Registered \ names,
           \A n \in Registered \ names : /\ record'[n].config = record[n].config
                                         /\ record'[n].state = record[n].state,
           \A n \in Service : child'[n] \in {child[n], None}, \A n \in names : child'[n] = None,
           NEW c \in [Calls -> Call], call' = Detached(c, names),
           \A j \in Calls : c[j] = call[j] \/ c[j] = Idle,
           raced' = raced \cup OnTheirWay(names), forgotten' = forgotten \cup names, mem' = mem
    PROVE  LifeInv'
<1>1. \A n \in Service, j \in Calls : Spawner(j, n)' =>
         Spawner(j, n) /\ (n \notin names => call'[j] = call[j])
  <2>1. ASSUME NEW n \in Service, NEW j \in Calls, Spawner(j, n)'
        PROVE  Spawner(j, n) /\ (n \notin names => call'[j] = call[j])
    <3> DEFINE d == record[c[j].on].config
               q == [c[j] EXCEPT !.own = d]
    <3>1. call'[j] = c[j] \/ (c[j].on \in names /\ call'[j] = q)
      BY DEF Detached
    <3> HIDE DEF d
    <3>2. q.pc = c[j].pc /\ q.on = c[j].on
      BY DEF Call
    <3> HIDE DEF q
    <3>3. Idle.pc \notin Spawning
      BY DEF Idle, Spawning
    <3>4. QED
      BY <2>1, <3>1, <3>2, <3>3 DEF Spawner
  <2>2. QED
    BY <2>1
<1>2. StartsAlone'
  BY <1>1 DEF StartsAlone, LifeInv
<1>3. HeldIsStill'
  BY <1>1 DEF Registered, LifeInv, HeldIsStill, QuarantinedIsHeld
<1>4. StartsFitTheRecord'
  <2>1. ASSUME NEW n \in Service \ raced', NEW j \in Calls, Spawner(j, n)'
        PROVE  /\ call'[j].own = None
               /\ call'[j].pc = "log" => call'[j].args = record'[n].config
    <3>1. Spawner(j, n) /\ n \notin raced
      BY <1>1, <2>1
    <3>2. n \notin names
      BY <2>1, <3>1 DEF OnTheirWay, InProgress, Spawner
    <3>3. call'[j] = call[j] /\ call[j].own = None
      BY <1>1, <2>1, <3>1, <3>2 DEF LifeInv, StartsFitTheRecord
    <3>4. n \in Registered
      BY <3>1, <3>3 DEF Spawner, TypeInv, Typed, CallsFit, CallFits
    <3>5. QED
      BY <3>1, <3>2, <3>3, <3>4 DEF LifeInv, StartsFitTheRecord
  <2>2. QED
    BY <2>1 DEF StartsFitTheRecord
<1>5. RunsItsRecord'
  BY DEF LifeInv, RunsItsRecord
<1>6. QED
  BY <1>2, <1>3, <1>4, <1>5 DEF LifeInv

\* The removals of a reload, and the exit of an orphan.
LEMMA LifeOfRemovals ==
    ASSUME TypeInv, LifeInv,
           (\E k \in Calls : ReloadReturns(k)) \/ (\E s \in Service : ExitDeregisters(s))
    PROVE  LifeInv'
<1>1. ASSUME NEW k \in Calls, ReloadReturns(k) PROVE LifeInv'
  <2>1. /\ Registered' = Registered \ Dropped(k) /\ Deregister(Dropped(k))
        /\ \A n \in Registered \ Fileless(k) : record'[n] = record[n]
        /\ \A n \in Fileless(k) \ Dropped(k) :
              record'[n].config = record[n].config /\ record'[n].state = record[n].state
        /\ call' = Detached([call EXCEPT ![k] = Idle], Dropped(k))
    BY <1>1, Removals DEF TypeInv
  <2> DEFINE c == [call EXCEPT ![k] = Idle]
  <2>2. c \in [Calls -> Call] /\ \A j \in Calls : c[j] = call[j] \/ c[j] = Idle
    BY IdleTyped DEF TypeInv, Typed, TypeOK
  <2> HIDE DEF c
  <2>3. call' = Detached(c, Dropped(k))
    BY <2>1 DEF c
  <2>4. /\ Dropped(k) \in SUBSET Registered /\ \A n \in Dropped(k) : child[n] = None
        /\ \A n \in Registered \ Dropped(k) : n \in Registered \ Fileless(k) \/ n \in Fileless(k) \ Dropped(k)
    BY DEF Dropped, Fileless
  <2>5. child' = child /\ mem' = mem
    BY <1>1 DEF ReloadReturns, store
  <2>6. raced' = raced \cup OnTheirWay(Dropped(k)) /\ forgotten' = forgotten \cup Dropped(k)
    BY <2>1 DEF Deregister
  <2>7. \A n \in Registered \ Dropped(k) :
           record'[n].config = record[n].config /\ record'[n].state = record[n].state
    BY <2>1, <2>4
  <2>8. QED
    BY <2>1, <2>2, <2>3, <2>4, <2>5, <2>6, <2>7, LifeOfRemoval
<1>2. ASSUME NEW s \in Service, ExitDeregisters(s) PROVE LifeInv'
  <2>1. /\ s \in Registered /\ call' = Detached(call, {s}) /\ mem' = mem
        /\ raced' = raced \cup OnTheirWay({s}) /\ forgotten' = forgotten \cup {s}
    BY <1>2 DEF ExitDeregisters, Leaves, Deregister, store
  <2>2. /\ record'[s] = None /\ \A n \in Service \ {s} : record'[n] = record[n]
        /\ child'[s] = None /\ \A n \in Service \ {s} : child'[n] = child[n]
        /\ call \in [Calls -> Call]
    BY <1>2 DEF ExitDeregisters, Leaves, TypeInv, Typed, TypeOK
  <2>3. Registered' = Registered \ {s} /\ \A n \in Registered \ {s} : record'[n] = record[n]
    BY <2>2 DEF Registered
  <2>4. QED
    BY <2>1, <2>2, <2>3, LifeOfRemoval
<1>3. QED
  BY <1>1, <1>2

\* A crash leaves nothing; a boot holds what was written, and starts nothing yet.
LEMMA LifeAcrossCrash ==
    ASSUME TypeInv, Crash \/ \E k \in Calls : Boot(k)
    PROVE  LifeInv'
<1>1. \A j \in Calls : call'[j].pc \notin Spawning
  <2>1. CASE Crash
    BY <2>1 DEF Crash, Off, Idle, Spawning
  <2>2. ASSUME NEW k \in Calls, Boot(k) PROVE \A j \in Calls : call'[j].pc \notin Spawning
    <3>1. [Idle EXCEPT !.op = "boot", !.pc = "next", !.todo = disk.enabled].pc = "next"
          /\ Idle.pc = "idle"
      BY DEF Idle
    <3>2. QED
      BY <2>2, <3>1 DEF Boot, TypeInv, DownIsEmpty, Typed, TypeOK, Spawning
  <2>3. QED
    BY <2>1, <2>2
<1>2. \A n \in Service : child'[n] = None
  BY DEF Crash, Off, Boot, TypeInv, DownIsEmpty, NoDefinitions
<1>3. QuarantinedIsHeld'
  <2>1. CASE Crash
    BY <2>1 DEF Crash, Off, NoDefinitions, QuarantinedIsHeld, Registered
  <2>2. ASSUME NEW k \in Calls, Boot(k) PROVE QuarantinedIsHeld'
    <3>1. \A n \in Service : n \in Registered' => files[n] \in Definition
      BY <2>2 DEF Boot, BootRecord, Registered
    <3>2. QED
      BY <2>2, <3>1 DEF Boot, BootRecord, QuarantinedIsHeld, Registered
  <2>3. QED
    BY <2>1, <2>2
<1>4. QED
  BY <1>1, <1>2, <1>3
     DEF LifeInv, StartsAlone, HeldIsStill, StartsFitTheRecord, RunsItsRecord, Spawner, Registered

\* Where no service is started again while it is being started: nothing of a service runs while a
\* start of it is on its way, what is held has no child and no start, and a start goes on with the
\* definition of the record.
THEOREM LifeInvariant == ASSUME "again" \notin Overlap PROVE Spec => []LifeInv
<1>1. Init => LifeInv
  BY DEF Init, NoDefinitions, Idle, Spawning, LifeInv, StartsAlone, HeldIsStill, StartsFitTheRecord,
     RunsItsRecord, QuarantinedIsHeld, Spawner, Registered
<1>2. ASSUME TypeInv, OneStart, AllKnown, LifeInv, [Next]_vars PROVE LifeInv'
  <2>1. CASE UNCHANGED vars \/ \E p \in Path, e \in Entry : Touch(p, e)
    <3>1. /\ UNCHANGED <<record, child, raced, forgotten, mem>> /\ call' = call
      BY <2>1 DEF vars, Touch, lifecycle, history, store
    <3>2. QED
      BY <1>2, <3>1, LifeUntouched DEF NoStart
  <2>2. ASSUME NEW k \in Calls, CallSteps(k) PROVE LifeInv'
    <3>1. ASSUME NEW s \in Service, Starting(k, s) PROVE LifeInv'
      BY <1>2, <3>1, StartingBegins, LifeOfBegins
    <3>2. CASE RestartContinues(k)
      <4>1. CanStart(call[k].on) => call[k].on \in Service
        BY DEF CanStart, Registered
      <4>2. QED
        BY <1>2, <3>1, <3>2, <4>1, LifeAside DEF Starting
    <3>3. ASSUME NEW s \in Service, Poll(k, s) PROVE LifeInv'
      <4>1. CASE Fires(s) /\ CanStart(s)
        BY <3>1, <3>3, <4>1 DEF Starting
      <4>2. CASE ~(Fires(s) /\ CanStart(s))
        <5>1. UNCHANGED <<record, child, raced, forgotten, mem>> /\ call' = call
          BY <3>3, <4>2 DEF Poll, lifecycle, store
        <5>2. QED
          BY <1>2, <5>1, LifeUntouched DEF NoStart
      <4>3. QED
        BY <4>1, <4>2
    <3>4. ASSUME NEW s \in Service, Restart(k, s) PROVE LifeInv'
      BY <1>2, <3>4, LifeOfExits
    <3>5. QED
      BY <1>2, <2>2, <3>1, <3>2, <3>3, <3>4, LifeAside, LifeOfStoreOpens, LifeOfSpawns,
         LifeOfSettles, LifeOfVisit, LifeOfUnquarantine, LifeOfRemovals, LifeAcrossCrash
         DEF CallSteps, Starting
  <2>3. ASSUME NEW s \in Service, ServiceSteps(s) PROVE LifeInv'
    BY <1>2, <2>3, LifeOfExits, LifeOfRemovals DEF ServiceSteps
  <2>4. CASE WriteEnds \/ WriteFails
    BY <1>2, <2>4, LifeOfWrites
  <2>5. QED
    BY <1>2, <2>1, <2>2, <2>3, <2>4, LifeAcrossCrash DEF Next
<1>3. WatchersAreEnabled => AllKnown
  BY DEF WatchersAreEnabled
<1>4. QED
  BY <1>1, <1>2, <1>3, TypeCorrect, ApartInvariant, WatchersInvariant, PTL DEF Spec

\* A name in quarantined[] is held: across boots, reloads, edits and failed writes nothing but
\* `unquarantine` lets a service start again that was registered ever since the boot.
THEOREM QuarantineTheorem == ASSUME "again" \notin Overlap PROVE Spec => []QuarantinedIsHeld
<1>1. LifeInv => QuarantinedIsHeld
  BY DEF LifeInv, HeldIsStill
<1>2. QED
  BY <1>1, LifeInvariant, PTL

\* Reload never changes what a running service runs (index.ts:535, ADR 0010): all of the child
\* comes from the one definition its record holds.
THEOREM RunsItsRecordTheorem == ASSUME "again" \notin Overlap PROVE Spec => []RunsItsRecord
<1>1. LifeInv => RunsItsRecord
  BY DEF LifeInv
<1>2. QED
  BY <1>1, LifeInvariant, PTL
===============================================================================
