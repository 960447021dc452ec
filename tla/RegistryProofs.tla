---------------------------- MODULE RegistryProofs ----------------------------
(***************************************************************************)
(* Theorems about Registry, for every set of services, definitions, calls, *)
(* paths and entries, and every bound on the environment.                  *)
(***************************************************************************)
EXTENDS Registry, SequenceTheorems, TLAPS

-----------------------------------------------------------------------------
(* The inductive invariants. *)

\* A call has what its next step reads: the name it is about, the arguments made for its child,
\* the definitions it still has to reconcile.
CallFits(k) ==
    /\ call[k].pc \in Spawning \cup {"settle", "stopping", "wire"} => call[k].on \in Service
    /\ call[k].op \in {"enable", "disable"} =>
          call[k].on \in Service /\ call[k].pc \in {"write", "written"}
    /\ call[k].pc \in Spawning \cup {"settle"} /\ call[k].own = None => call[k].on \in Registered
    /\ call[k].pc = "log" => call[k].args \in Definition
    /\ call[k].pc = "wire" => call[k].load[call[k].on] \in Definition
    /\ call[k].pc \in {"reconcile", "wire"} => \A s \in call[k].todo : call[k].load[s] \in Definition

CallsFit == \A k \in Calls : CallFits(k)

Typed == TypeOK /\ CallsFit

\* A daemon that is down has nothing in memory.
DownIsEmpty ==
    daemon = "down" =>
        /\ record = NoDefinitions /\ child = NoDefinitions /\ tracked = NoDefinitions
        /\ writes = <<>>
        /\ \A s \in Service : ~armed[s]
        /\ \A k \in Calls : call[k] = Idle

\* A relaunch that is pending is for a registered service, and an orphan is one that runs.
TimersAreCancelled ==
    \A s \in Service :
        /\ armed[s] => s \in Registered
        /\ s \in Registered /\ record[s].orphaned => child[s] # None

\* A queued snapshot that an `enable` or `disable` of s waits for.
Toggles(i, s) == writes[i].by # None /\ Toggling(writes[i].by, s)

IsOn(k) == call[k].op = "enable"

\* Each call waits for one snapshot, at the write.
Waits ==
    \A i \in 1 .. Len(writes) : writes[i].by # None =>
        /\ call[writes[i].by].pc = "write"
        /\ \A j \in 1 .. Len(writes) : writes[j].by = writes[i].by => j = i

\* The snapshot of a toggle has its bit; behind the last toggle every snapshot has the bit in memory.
SnapshotsInOrder ==
    \A s \in Service, i \in 1 .. Len(writes) :
        /\ Toggles(i, s) => (s \in writes[i].bits.enabled <=> IsOn(writes[i].by))
        /\ (\A j \in (i + 1) .. Len(writes) : ~Toggles(j, s)) =>
              (s \in writes[i].bits.enabled <=> s \in mem.enabled)

\* A toggle that was written is on disk, and in memory unless a later one waits.
WrittenIsOnDisk ==
    \A s \in Service, k \in Calls : Toggling(k, s) /\ call[k].pc = "written" =>
        /\ s \in disk.enabled <=> IsOn(k)
        /\ (\A i \in 1 .. Len(writes) : ~Toggles(i, s)) => (s \in disk.enabled <=> s \in mem.enabled)

\* What was acknowledged has no toggle under way, and memory and disk agree on it.
Acknowledged ==
    \A s \in Service : promised[s] # "open" =>
        /\ \A k \in Calls : ~Toggling(k, s)
        /\ s \in disk.enabled <=> promised[s] = "yes"
        /\ daemon = "up" => (s \in mem.enabled <=> promised[s] = "yes")

DurableInv == Waits /\ SnapshotsInOrder /\ WrittenIsOnDisk /\ Acknowledged

-----------------------------------------------------------------------------
(* Records and calls: what one update of them gives. *)

Records == [Service -> Record \cup {None}]

\* Every update the code makes to a record gives a record.
LEMMA NewRecords ==
    ASSUME NEW r \in Record, NEW t \in States, NEW d \in Definition,
           NEW p \in Definition \cup {None}, NEW o \in BOOLEAN
    PROVE  /\ [r EXCEPT !.config = d, !.pending = p, !.state = t] \in Record
           /\ [r EXCEPT !.orphaned = o, !.pending = p] \in Record
           /\ [r EXCEPT !.orphaned = o, !.pending = p, !.config = d] \in Record
           /\ [config |-> d, pending |-> p, orphaned |-> o, state |-> t] \in Record
BY DEF Record

\* A change of state gives a record and leaves the rest of it.
LEMMA StateFields ==
    ASSUME NEW r \in Record, NEW t \in States
    PROVE  LET q == [r EXCEPT !.state = t]
           IN  /\ q \in Record
               /\ q.config = r.config /\ q.pending = r.pending /\ q.orphaned = r.orphaned
               /\ q.state = t
BY DEF Record

\* All the registry keeps of a service but its state.
SameDefinitions ==
    \A n \in Service :
        /\ record'[n] = None <=> record[n] = None
        /\ record[n] # None => /\ record'[n].config = record[n].config
                               /\ record'[n].pending = record[n].pending
                               /\ record'[n].orphaned = record[n].orphaned

\* A change of the state of one service keeps every service registered with its definitions.
LEMMA SetState ==
    ASSUME TypeOK, NEW s \in Registered, NEW t \in States,
           record' = [record EXCEPT ![s].state = t]
    PROVE  /\ record' \in Records
           /\ SameDefinitions
           /\ record'[s].state = t
           /\ \A n \in Service \ {s} : record'[n] = record[n]
<1>1. record \in Records /\ s \in Service /\ record[s] \in Record
  BY DEF TypeOK, Registered, Records
<1> DEFINE r == [record[s] EXCEPT !.state = t]
<1>2. /\ r \in Record /\ r.state = t
      /\ r.config = record[s].config /\ r.pending = record[s].pending
      /\ r.orphaned = record[s].orphaned
  BY <1>1, StateFields
<1>3. /\ record' \in Records
      /\ record'[s] = r
      /\ \A n \in Service \ {s} : record'[n] = record[n]
  BY <1>1, <1>2 DEF Records
<1>4. record'[s] # None /\ record[s] # None
  BY <1>1, <1>2, <1>3, NullAssumption
<1> HIDE DEF r
<1>5. QED
  BY <1>1, <1>2, <1>3, <1>4 DEF SameDefinitions

\* An unchanged registry keeps every service with its definitions.
LEMMA SameRecord ==
    ASSUME TypeOK, record' = record
    PROVE  record' \in Records /\ SameDefinitions
BY DEF TypeOK, Records, SameDefinitions

\* Idle is a call.
LEMMA IdleTyped == Idle \in Call
BY DEF Idle, Call

\* A call that did not change still fits a registry that lost no service.
LEMMA OtherFits ==
    ASSUME Typed, NEW j \in Calls, call'[j] = call[j], Registered \subseteq Registered'
    PROVE  CallFits(j)'
BY DEF Typed, CallsFit, CallFits

\* An idle call fits any registry.
LEMMA IdleFits ==
    ASSUME NEW j, call'[j] = Idle
    PROVE  CallFits(j)'
BY DEF CallFits, Idle, Spawning

\* All calls fit when one of them does and no other changed.
LEMMA OneCallFits ==
    ASSUME Typed, NEW k \in Calls, CallFits(k)', Registered \subseteq Registered',
           \A j \in Calls \ {k} : call'[j] = call[j]
    PROVE  CallsFit'
BY OtherFits DEF CallsFit

\* All calls fit when none changed.
LEMMA NoCallChanges ==
    ASSUME Typed, call' = call, Registered \subseteq Registered'
    PROVE  CallsFit'
BY OtherFits DEF CallsFit

\* Services with the same definitions are registered before and after.
LEMMA SameRegistered ==
    ASSUME SameDefinitions
    PROVE  Registered' = Registered
BY DEF SameDefinitions, Registered

\* A call returns.
LEMMA ReturnTyped ==
    ASSUME Typed, NEW k \in Calls, call' = [call EXCEPT ![k] = Idle],
           Registered \subseteq Registered'
    PROVE  call' \in [Calls -> Call] /\ CallsFit'
<1>1. call' \in [Calls -> Call] /\ call'[k] = Idle /\ \A j \in Calls \ {k} : call'[j] = call[j]
  BY IdleTyped DEF Typed, TypeOK
<1>2. QED
  BY <1>1, IdleFits, OneCallFits

\* A start that is over: the boot goes on with its loop.
LEMMA OverTyped ==
    ASSUME Typed, NEW k \in Calls, Over(k), Registered \subseteq Registered'
    PROVE  call' \in [Calls -> Call] /\ CallsFit'
<1>1. \A c \in Call : [Idle EXCEPT !.op = "boot", !.pc = "next", !.todo = c.todo] \in Call
  BY DEF Idle, Call
<1>2. /\ call' \in [Calls -> Call]
      /\ \A j \in Calls \ {k} : call'[j] = call[j]
      /\ call'[k] \in {Idle, [Idle EXCEPT !.op = "boot", !.pc = "next", !.todo = call[k].todo]}
  BY <1>1, IdleTyped DEF Typed, TypeOK, Over
<1>3. CallFits(k)'
  <2>1. CASE call'[k] = Idle
    BY <2>1, IdleFits
  <2>2. CASE call'[k] = [Idle EXCEPT !.op = "boot", !.pc = "next", !.todo = call[k].todo]
    <3>1. call'[k].op = "boot" /\ call'[k].pc = "next"
      BY <2>2 DEF Idle
    <3>2. QED
      BY <3>1 DEF CallFits, Spawning
  <2>3. QED
    BY <1>2, <2>1, <2>2
<1>4. QED
  BY <1>2, <1>3, OneCallFits

\* The definition a start goes on with is a definition.
LEMMA HeldTyped ==
    ASSUME Typed, NEW k \in Calls, call[k].pc \in Spawning \cup {"settle"}
    PROVE  Held(k) \in Definition /\ call[k].on \in Service
<1>1. call[k].on \in Service /\ (call[k].own = None => call[k].on \in Registered)
  BY DEF Typed, CallsFit, CallFits
<1>2. CASE call[k].own = None
  BY <1>1, <1>2 DEF Held, Typed, TypeOK, Registered, Record
<1>3. CASE call[k].own # None
  BY <1>1, <1>3 DEF Held, Typed, TypeOK, Call
<1>4. QED
  BY <1>2, <1>3, <1>1

\* What start() assigns up to its first suspension.
StartTyped ==
    /\ record' \in Records
    /\ governed' \in [Service -> Definition \cup {None}] /\ unopened' \in SUBSET Service
    /\ started' \in [Service -> BOOLEAN] /\ armed' \in [Service -> BOOLEAN]
    /\ raced' \in SUBSET Service
    /\ call' \in [Calls -> Call]
    /\ CallsFit'

\* The record start() leaves: the staged definition adopted, nothing pending.
LEMMA StartsRecord ==
    ASSUME Typed, NEW k \in Calls, NEW s \in Registered, NEW c, NEW fired,
           Starts(k, s, c, fired)
    PROVE  /\ record' \in Records /\ Registered' = Registered
           /\ \A n \in Service \ {s} : record'[n] = record[n]
           /\ record'[s].config = Upcoming(s) /\ record'[s].pending = None
           /\ record'[s].orphaned = record[s].orphaned
           /\ record'[s].state \in {record[s].state, "starting"}
           /\ Upcoming(s) \in Definition
<1>1. s \in Service /\ record[s] \in Record /\ record[s] # None /\ record \in Records
  BY DEF Typed, TypeOK, Registered, Records
<1>2. Upcoming(s) \in Definition
  BY <1>1 DEF Upcoming, Record
<1>3. PICK t \in {record[s].state, "starting"} :
         record' = [record EXCEPT ![s] =
                      [record[s] EXCEPT !.config = Upcoming(s), !.pending = None, !.state = t]]
  BY <1>1 DEF Starts, Upcoming, Records
<1>4. t \in States
  BY <1>1, <1>3 DEF Record, States
<1> DEFINE r == [record[s] EXCEPT !.config = Upcoming(s), !.pending = None, !.state = t]
<1>5. r \in Record
  BY <1>1, <1>2, <1>4, NewRecords
<1>6. /\ r.config = Upcoming(s) /\ r.pending = None /\ r.orphaned = record[s].orphaned
      /\ r.state = t
  BY <1>1 DEF Record
<1>7. /\ record' \in Records /\ record'[s] = r
      /\ \A n \in Service \ {s} : record'[n] = record[n]
  BY <1>1, <1>3, <1>5 DEF Records
<1>8. Registered' = Registered
  BY <1>1, <1>5, <1>7, NullAssumption DEF Registered
<1>9. QED
  BY <1>2, <1>3, <1>6, <1>7, <1>8

\* start() up to its first suspension keeps the types, whichever operation it is part of.
LEMMA StartsTyped ==
    ASSUME Typed, NEW k \in Calls, NEW s \in Registered, NEW c \in Call,
           c.op \notin {"enable", "disable"}, NEW fired \in BOOLEAN, Starts(k, s, c, fired)
    PROVE  StartTyped
<1> DEFINE open == record[s].pending # None /\ Upcoming(s) \in Budgeted
           next == [c EXCEPT !.on = s, !.pc = IF open THEN "budget" ELSE "log",
                             !.args = IF open THEN None ELSE Upcoming(s)]
<1>1. /\ record' \in Records /\ Registered' = Registered
      /\ Upcoming(s) \in Definition /\ s \in Service
  BY StartsRecord DEF Registered
<1>2. /\ next \in Call /\ next.on = s /\ next.op = c.op /\ next.pc \in Spawning
      /\ next.args = IF open THEN None ELSE Upcoming(s)
      /\ next.pc = IF open THEN "budget" ELSE "log"
  BY <1>1 DEF Call, Spawning
<1> HIDE DEF next
<1>3. call' = [call EXCEPT ![k] = next]
  BY DEF Starts, Upcoming, next
<1>4. /\ call' \in [Calls -> Call] /\ call'[k] = next
      /\ \A j \in Calls \ {k} : call'[j] = call[j]
  BY <1>2, <1>3 DEF Typed, TypeOK
<1>5. CallFits(k)'
  BY <1>1, <1>2, <1>4 DEF CallFits, Spawning
<1>6. CallsFit'
  BY <1>1, <1>4, <1>5, OneCallFits
<1>7. governed' \in [Service -> Definition \cup {None}] /\ unopened' \in SUBSET Service
  <2>1. UNCHANGED <<governed, unopened>> \/ Governed(s, Upcoming(s))
    BY DEF Starts, Upcoming
  <2>2. QED
    BY <1>1, <2>1 DEF Governed, Typed, TypeOK
<1>8. /\ started' \in [Service -> BOOLEAN] /\ armed' \in [Service -> BOOLEAN]
      /\ raced' \in SUBSET Service
  BY <1>1 DEF Starts, Typed, TypeOK
<1>9. QED
  BY <1>1, <1>4, <1>6, <1>7, <1>8 DEF StartTyped

\* A write that ends, with or without an error, keeps the types.
LEMMA WriteTyped ==
    ASSUME Typed, WriteEnds \/ WriteFails
    PROVE  Typed'
<1> DEFINE Entry0 == [by : Calls \cup {None}, bits : Bits]
<1>1. /\ writes \in Seq(Entry0) /\ writes # <<>>
      /\ Head(writes) \in Entry0 /\ Tail(writes) \in Seq(Entry0)
  BY HeadTailProperties DEF Typed, TypeOK, WriteEnds, WriteFails
<1>2. /\ writes' \in Seq(Entry0) /\ disk' \in Bits
  BY <1>1 DEF WriteEnds, WriteFails, Typed, TypeOK
<1>3. \A c \in Call : [c EXCEPT !.pc = "written"] \in Call
  BY DEF Call
<1>4. call' \in [Calls -> Call]
  <2>1. \A k \in Calls : call[k] \in Call /\ [call[k] EXCEPT !.pc = "written"] \in Call
    BY <1>3 DEF Typed, TypeOK
  <2>2. CASE WriteEnds
    BY <2>1, <2>2, Zenon DEF WriteEnds
  <2>3. CASE WriteFails
    BY <2>1, <2>3, IdleTyped, Zenon DEF WriteFails
  <2>4. QED
    BY <2>2, <2>3
<1>5. events' \in 0 .. MaxEvents
  BY RegistryAssumption DEF WriteEnds, WriteFails, Typed, TypeOK, Happens, power
<1>6. TypeOK'
  BY <1>2, <1>4, <1>5 DEF WriteEnds, WriteFails, Typed, TypeOK, FileWatchTypeOK,
     watchVars, lifecycle, power, history
<1>7. Registered' = Registered
  BY DEF WriteEnds, WriteFails, Registered
<1>8. ASSUME NEW k \in Calls PROVE CallFits(k)'
  <2>1. CASE call'[k] = Idle
    BY <2>1, IdleFits
  <2>2. CASE call'[k] = call[k]
    BY <2>2, <1>7, OtherFits
  <2>3. CASE call'[k] = [call[k] EXCEPT !.pc = "written"]
    <3>1. call[k] \in Call /\ CallFits(k)
      BY DEF Typed, TypeOK, CallsFit
    <3>2. call'[k].op = call[k].op /\ call'[k].on = call[k].on /\ call'[k].pc = "written"
      BY <2>3, <3>1 DEF Call
    <3>3. QED
      BY <3>1, <3>2 DEF CallFits, Spawning
  <2>4. QED
    BY <2>1, <2>2, <2>3 DEF WriteEnds, WriteFails
<1>9. QED
  BY <1>6, <1>8 DEF Typed, CallsFit

\* Queueing a snapshot keeps the types of the store.
LEMMA SaveTyped ==
    ASSUME Typed, NEW k \in Calls \cup {None}, NEW bits \in Bits, Save(k, bits)
    PROVE  /\ mem' \in Bits /\ disk' \in Bits
           /\ writes' \in Seq([by : Calls \cup {None}, bits : Bits])
BY AppendProperties DEF Typed, TypeOK, Save

\* The snapshots that are queued are bits.
LEMMA NewBits ==
    ASSUME Typed, NEW s \in Service, NEW b \in BOOLEAN
    PROVE  WithEnabled(s, b) \in Bits /\ WithQuarantined(s, b) \in Bits
BY DEF WithEnabled, WithQuarantined, Typed, TypeOK, Bits

\* enable() and disable() keep the types.
LEMMA EnableTyped ==
    ASSUME Typed, NEW k \in Calls, NEW s \in Service, NEW bit \in BOOLEAN, Enable(k, s, bit)
    PROVE  Typed'
<1> DEFINE c == [Idle EXCEPT !.op = IF bit THEN "enable" ELSE "disable", !.pc = "write", !.on = s]
<1>1. c \in Call /\ c.on = s /\ c.pc = "write"
  BY DEF Idle, Call
<1> HIDE DEF c
<1>2. call' = [call EXCEPT ![k] = c]
  BY DEF Enable, c
<1>3. /\ call' \in [Calls -> Call] /\ call'[k] = c
      /\ \A j \in Calls \ {k} : call'[j] = call[j]
  BY <1>1, <1>2 DEF Typed, TypeOK
<1>4. CallFits(k)'
  BY <1>1, <1>3 DEF CallFits, Spawning
<1>5. CallsFit'
  BY <1>3, <1>4, OneCallFits DEF Enable, Registered
<1>6. Save(k, WithEnabled(s, bit)) /\ WithEnabled(s, bit) \in Bits
  BY NewBits DEF Enable
<1>7. /\ mem' \in Bits /\ disk' \in Bits
      /\ writes' \in Seq([by : Calls \cup {None}, bits : Bits])
  BY <1>6, SaveTyped
<1>8. TypeOK'
  BY <1>3, <1>7 DEF Enable, Typed, TypeOK, FileWatchTypeOK, watchVars, lifecycle, power
<1>9. QED
  BY <1>5, <1>8 DEF Typed

\* unquarantine() keeps the types.
LEMMA UnquarantineTyped ==
    ASSUME Typed, NEW k \in Calls, NEW s \in Service, Unquarantine(k, s)
    PROVE  Typed'
<1> DEFINE c == [Idle EXCEPT !.op = "unquarantine", !.pc = "write", !.on = s]
<1>1. c \in Call /\ c.op = "unquarantine" /\ c.pc = "write"
  BY DEF Idle, Call
<1> HIDE DEF c
<1>2. call' = [call EXCEPT ![k] = c]
  BY DEF Unquarantine, c
<1>3. /\ call' \in [Calls -> Call] /\ call'[k] = c
      /\ \A j \in Calls \ {k} : call'[j] = call[j]
  BY <1>1, <1>2 DEF Typed, TypeOK
<1>4. record' \in Records /\ Registered' = Registered
  BY SetState, SameRecord, SameRegistered DEF Unquarantine, Typed, States
<1>5. CallsFit'
  <2>1. CallFits(k)'
    BY <1>1, <1>3 DEF CallFits, Spawning
  <2>2. QED
    BY <1>3, <1>4, <2>1, OneCallFits
<1>6. /\ mem' \in Bits /\ disk' \in Bits
      /\ writes' \in Seq([by : Calls \cup {None}, bits : Bits])
  BY NewBits, SaveTyped DEF Unquarantine
<1>7. TypeOK'
  BY <1>3, <1>4, <1>6
     DEF Unquarantine, Typed, TypeOK, Records, FileWatchTypeOK, watchVars, lifecycle, power, history
<1>8. QED
  BY <1>5, <1>7 DEF Typed

\* Synchronising the triggers keeps the types.
LEMMA SyncedTyped ==
    ASSUME Typed, NEW registry \in Records
    PROVE  Synced(registry) \in [Service -> Watcher \cup {None}]
<1>1. ASSUME NEW s \in Service, registry[s] # None, TriggerOf[registry[s].config] # None
      PROVE  Armed(s, TriggerOf[registry[s].config]) \in Watcher
  <2>1. TriggerOf[registry[s].config] \in Trigger
    BY <1>1, FileWatchAssumption DEF Records, Record
  <2>2. QED
    BY <2>1 DEF Armed, Watcher, Trigger, Typed, TypeOK, FileWatchTypeOK
<1>2. QED
  BY <1>1 DEF Synced, Typed, TypeOK, FileWatchTypeOK

\* enable(), disable(), unquarantine() and the boot return with the types kept.
LEMMA ReturnsTyped ==
    ASSUME Typed, NEW k \in Calls, EnableReturns(k) \/ UnquarantineReturns(k) \/ BootReturns(k)
    PROVE  Typed'
<1>1. tracked' \in [Service -> Watcher \cup {None}]
  BY SyncedTyped DEF EnableReturns, UnquarantineReturns, BootReturns, watchVars, Typed, TypeOK,
     FileWatchTypeOK, Records
<1>2. call' \in [Calls -> Call] /\ CallsFit'
  BY ReturnTyped DEF EnableReturns, UnquarantineReturns, BootReturns, Registered
<1>3. promised' \in [Service -> {"yes", "no", "open"}]
  BY DEF EnableReturns, UnquarantineReturns, BootReturns, history, Typed, TypeOK
<1>4. TypeOK'
  BY <1>1, <1>2, <1>3 DEF EnableReturns, UnquarantineReturns, BootReturns, Typed, TypeOK,
     FileWatchTypeOK, watchVars, lifecycle, power, history, store
<1>5. QED
  BY <1>2, <1>4 DEF Typed

\* A start that was asked for, that a timer or a watcher fires, or that the boot makes, keeps the
\* types.
LEMMA StartActionsTyped ==
    ASSUME Typed, NEW k \in Calls, NEW s \in Service,
           Start(k, s) \/ Relaunch(k, s) \/ BootStarts(k, s) \/ Poll(k, s)
    PROVE  Typed'
<1>1. CASE Start(k, s)
  <2>1. [Idle EXCEPT !.op = "start"] \in Call /\ [Idle EXCEPT !.op = "start"].op = "start"
    BY DEF Idle, Call
  <2>2. StartTyped
    BY <1>1, <2>1, StartsTyped DEF Start, CanStart
  <2>3. QED
    BY <1>1, <2>2 DEF Start, StartTyped, Records, Starts, Typed, TypeOK, FileWatchTypeOK, watchVars, store, power
<1>2. CASE Relaunch(k, s)
  <2>1. [Idle EXCEPT !.op = "start"] \in Call /\ [Idle EXCEPT !.op = "start"].op = "start"
    BY DEF Idle, Call
  <2>2. StartTyped
    BY <1>2, <2>1, StartsTyped DEF Relaunch, CanStart
  <2>3. QED
    BY <1>2, <2>2 DEF Relaunch, StartTyped, Records, Starts, Typed, TypeOK, FileWatchTypeOK, watchVars, store, power
<1>3. CASE BootStarts(k, s)
  <2>1. call[k] \in Call /\ call[k].op \notin {"enable", "disable"}
    BY <1>3 DEF BootStarts, Typed, TypeOK, CallsFit, CallFits
  <2> DEFINE c == [call[k] EXCEPT !.todo = @ \ {s}]
  <2>2. c \in Call /\ c.op = call[k].op
    BY <2>1 DEF Call
  <2> HIDE DEF c
  <2>3. Starts(k, s, c, FALSE)
    BY <1>3 DEF BootStarts, c
  <2>4. StartTyped
    BY <1>3, <2>1, <2>2, <2>3, StartsTyped DEF BootStarts, BootWants, CanStart
  <2>5. QED
    BY <1>3, <2>4 DEF BootStarts, StartTyped, Records, Starts, Typed, TypeOK, FileWatchTypeOK, watchVars, store, power
<1>4. CASE Poll(k, s)
  <2>1. tracked' \in [Service -> Watcher \cup {None}]
    <3>1. tracked[s] \in Watcher
      BY <1>4 DEF Poll, Due, Typed, TypeOK, FileWatchTypeOK
    <3>2. \A l \in Listing : [tracked[s] EXCEPT !.prev = l] \in Watcher
      BY <3>1 DEF Watcher
    <3>3. listing[tracked[s].trigger.path] \in Listing
      BY <3>1 DEF Watcher, Trigger, Typed, TypeOK, FileWatchTypeOK
    <3>4. QED
      BY <1>4, <3>2, <3>3 DEF Poll, Polled, Typed, TypeOK, FileWatchTypeOK
  <2>2. CASE Fires(s) /\ CanStart(s)
    <3>1. [Idle EXCEPT !.op = "job"] \in Call /\ [Idle EXCEPT !.op = "job"].op = "job"
      BY DEF Idle, Call
    <3>2. Starts(k, s, [Idle EXCEPT !.op = "job"], FALSE) /\ job' = job \cup {s}
      BY <1>4, <2>2 DEF Poll
    <3>3. StartTyped
      BY <2>2, <3>1, <3>2, StartsTyped DEF CanStart
    <3>4. child' = child
      BY <3>2 DEF Starts
    <3>5. QED
      BY <1>4, <2>1, <3>2, <3>3, <3>4 DEF Poll, StartTyped, Records, Typed, TypeOK, FileWatchTypeOK, store, power
  <2>3. CASE ~(Fires(s) /\ CanStart(s))
    <3>1. UNCHANGED <<record, lifecycle, call, raced>>
      BY <1>4, <2>3 DEF Poll
    <3>2. CallsFit'
      BY <3>1, NoCallChanges DEF Registered
    <3>3. QED
      BY <1>4, <2>1, <3>1, <3>2 DEF Poll, lifecycle, Typed, TypeOK, FileWatchTypeOK, store, power
  <2>4. QED
    BY <2>2, <2>3
<1>5. QED
  BY <1>1, <1>2, <1>3, <1>4

\* A restart that goes on when the child has exited keeps the types.
LEMMA RestartContinuesTyped ==
    ASSUME Typed, NEW k \in Calls, RestartContinues(k)
    PROVE  Typed'
<1>1. CASE CanStart(call[k].on)
  <2>1. [Idle EXCEPT !.op = "start"] \in Call /\ [Idle EXCEPT !.op = "start"].op = "start"
    BY DEF Idle, Call
  <2>2. Starts(k, call[k].on, [Idle EXCEPT !.op = "start"], FALSE)
    BY <1>1 DEF RestartContinues
  <2>3. StartTyped
    BY <1>1, <2>1, <2>2, StartsTyped DEF CanStart
  <2>4. child' = child
    BY <2>2 DEF Starts
  <2>5. QED
    BY <2>3, <2>4 DEF RestartContinues, StartTyped, Records, Typed, TypeOK, FileWatchTypeOK, watchVars, store, power
<1>2. CASE ~CanStart(call[k].on)
  <2>1. /\ call' = [call EXCEPT ![k] = Idle]
        /\ UNCHANGED <<record, child, governed, unopened, started, armed, raced>>
    BY <1>2 DEF RestartContinues
  <2>2. call' \in [Calls -> Call] /\ CallsFit'
    BY <2>1, ReturnTyped DEF Registered
  <2>3. QED
    BY <2>1, <2>2 DEF RestartContinues, Typed, TypeOK, FileWatchTypeOK, watchVars, store, power
<1>3. QED
  BY <1>1, <1>2

\* The store of a starting service opens, or does not.
LEMMA StoreTyped ==
    ASSUME Typed, NEW k \in Calls, StoreOpens(k) \/ StoreFails(k)
    PROVE  Typed'
<1>1. CASE StoreOpens(k)
  <2>1. call[k].pc = "budget" /\ Held(k) \in Definition /\ call[k].on \in Service
    BY <1>1, HeldTyped DEF StoreOpens, Spawning
  <2>2. call[k].own = None => call[k].on \in Registered
    BY <2>1 DEF Typed, CallsFit, CallFits, Spawning
  <2>3. record' \in Records /\ Registered' = Registered
    BY <1>1, <2>2, SetState, SameRecord, SameRegistered DEF StoreOpens, Typed, States
  <2> DEFINE c == [call[k] EXCEPT !.pc = "log", !.args = Held(k)]
  <2>4. /\ c \in Call /\ c.pc = "log" /\ c.on = call[k].on /\ c.own = call[k].own
        /\ c.op = call[k].op /\ c.args = Held(k)
    BY <2>1 DEF Typed, TypeOK, Call, Spawning
  <2> HIDE DEF c
  <2>5. call' = [call EXCEPT ![k] = c]
    BY <1>1 DEF StoreOpens, c
  <2>6. call' \in [Calls -> Call] /\ call'[k] = c /\ \A j \in Calls \ {k} : call'[j] = call[j]
    BY <2>4, <2>5 DEF Typed, TypeOK
  <2>7. CallFits(k)'
    BY <2>1, <2>2, <2>3, <2>4, <2>6 DEF CallFits, Spawning, Typed, CallsFit
  <2>8. CallsFit'
    BY <2>3, <2>6, <2>7, OneCallFits
  <2>9. governed' \in [Service -> Definition \cup {None}] /\ unopened' \in SUBSET Service
    BY <1>1, <2>1 DEF StoreOpens, Governed, Typed, TypeOK
  <2>10. QED
    BY <1>1, <2>3, <2>6, <2>8, <2>9 DEF StoreOpens, Records, Typed, TypeOK, FileWatchTypeOK, watchVars, store, power, history
<1>2. CASE StoreFails(k)
  <2>1. call[k].on \in Service
    BY <1>2, HeldTyped DEF StoreFails, Spawning
  <2>2. call' \in [Calls -> Call] /\ CallsFit'
    BY <1>2, OverTyped DEF StoreFails, Registered
  <2>3. events' \in 0 .. MaxEvents
    BY <1>2, RegistryAssumption DEF StoreFails, MayNotOpen, Typed, TypeOK, Happens
  <2>4. QED
    BY <1>2, <2>1, <2>2, <2>3 DEF StoreFails, MayNotOpen, Typed, TypeOK, FileWatchTypeOK, watchVars, store, history
<1>3. QED
  BY <1>1, <1>2

\* The spawn and the end of the settle keep the types.
LEMMA SpawnTyped ==
    ASSUME Typed, NEW k \in Calls, Spawns(k) \/ Settles(k)
    PROVE  Typed'
<1> DEFINE s == call[k].on
<1>1. s \in Service /\ Held(k) \in Definition /\ (call[k].own = None => s \in Registered)
  BY HeldTyped DEF Spawns, Settles, Typed, CallsFit, CallFits, Spawning
<1>2. CASE Spawns(k)
  <2>1. call[k].args \in Definition
    BY <1>2 DEF Spawns, Typed, CallsFit, CallFits
  <2>2. child' \in [Service -> Child \cup {None}]
    BY <1>1, <1>2, <2>1 DEF Spawns, Child, Typed, TypeOK
  <2> DEFINE c == [call[k] EXCEPT !.pc = "settle", !.args = None]
  <2>4. /\ c \in Call /\ c.pc = "settle" /\ c.on = s /\ c.own = call[k].own
        /\ c.op = call[k].op
    BY DEF Typed, TypeOK, Call
  <2> HIDE DEF c
  <2>5. call' = [call EXCEPT ![k] = c]
    BY <1>2 DEF Spawns, c
  <2>6. call' \in [Calls -> Call] /\ call'[k] = c /\ \A j \in Calls \ {k} : call'[j] = call[j]
    BY <2>4, <2>5 DEF Typed, TypeOK
  <2>7. Registered' = Registered
    BY <1>2 DEF Spawns, Registered
  <2>8. CallFits(k)'
    BY <1>1, <1>2, <2>4, <2>6, <2>7 DEF Spawns, CallFits, Spawning, Typed, CallsFit
  <2>9. CallsFit'
    BY <2>6, <2>7, <2>8, OneCallFits
  <2>10. QED
    BY <1>2, <2>2, <2>6, <2>9 DEF Spawns, Typed, TypeOK, FileWatchTypeOK, watchVars, store, power, history
<1>3. CASE Settles(k)
  <2>1. record' = record \/ (s \in Registered /\ record' = [record EXCEPT ![s].state = "running"])
    BY <1>1, <1>3 DEF Settles
  <2>2. record' \in Records /\ Registered' = Registered
    BY <2>1, SetState, SameRecord, SameRegistered DEF Typed, States
  <2>3. call' \in [Calls -> Call] /\ CallsFit'
    BY <1>3, <2>2, OverTyped DEF Settles
  <2>4. started' \in [Service -> BOOLEAN] /\ job' \in SUBSET Service
    BY <1>1, <1>3 DEF Settles, Typed, TypeOK
  <2>5. QED
    BY <1>3, <2>2, <2>3, <2>4 DEF Settles, Records, Typed, TypeOK, FileWatchTypeOK, watchVars, store, power, history
<1>4. QED
  BY <1>2, <1>3

\* What stop() does to the registry keeps its types.
LEMMA StopsTyped ==
    ASSUME Typed, NEW s \in Registered, Stops(s)
    PROVE  /\ record' \in Records /\ Registered' = Registered
           /\ started' \in [Service -> BOOLEAN] /\ armed' \in [Service -> BOOLEAN]
<1>1. record' = record \/ record' = [record EXCEPT ![s].state = "stopping"]
  BY DEF Stops
<1>2. QED
  BY <1>1, SetState, SameRecord, SameRegistered DEF Stops, Disarm, Typed, States

\* stop() and a refused relaunch keep the types.
LEMMA StopTyped ==
    ASSUME Typed, NEW s \in Service, Stop(s) \/ RelaunchRefused(s)
    PROVE  Typed'
<1>1. CASE Stop(s)
  <2>1. /\ record' \in Records /\ Registered' = Registered
        /\ started' \in [Service -> BOOLEAN] /\ armed' \in [Service -> BOOLEAN]
    BY <1>1, StopsTyped DEF Stop
  <2>2. CallsFit'
    BY <1>1, <2>1, NoCallChanges DEF Stop
  <2>3. QED
    BY <1>1, <2>1, <2>2
       DEF Stop, Stops, Records, Typed, TypeOK, FileWatchTypeOK, watchVars, store, power, history
<1>2. CASE RelaunchRefused(s)
  <2>1. CallsFit'
    BY <1>2, NoCallChanges DEF RelaunchRefused, Registered
  <2>2. QED
    BY <1>2, <2>1 DEF RelaunchRefused, Typed, TypeOK, FileWatchTypeOK, watchVars, store, power, history
<1>3. QED
  BY <1>1, <1>2

\* restart(), up to the exit it waits for, keeps the types.
LEMMA RestartTyped ==
    ASSUME Typed, NEW k \in Calls, NEW s \in Service, Restart(k, s)
    PROVE  Typed'
<1>1. /\ record' \in Records /\ Registered' = Registered
      /\ started' \in [Service -> BOOLEAN] /\ armed' \in [Service -> BOOLEAN]
  BY StopsTyped DEF Restart
<1> DEFINE c == [Idle EXCEPT !.op = "restart", !.pc = "stopping", !.on = s]
<1>2. c \in Call /\ c.on = s /\ c.pc = "stopping" /\ c.op = "restart"
  BY DEF Idle, Call
<1> HIDE DEF c
<1>3. call' = [call EXCEPT ![k] = c]
  BY DEF Restart, c
<1>4. call' \in [Calls -> Call] /\ call'[k] = c /\ \A j \in Calls \ {k} : call'[j] = call[j]
  BY <1>2, <1>3 DEF Typed, TypeOK
<1>5. CallFits(k)'
  BY <1>2, <1>4 DEF CallFits, Spawning
<1>6. CallsFit'
  BY <1>1, <1>4, <1>5, OneCallFits
<1>7. QED
  BY <1>1, <1>4, <1>6
     DEF Restart, Stops, Records, Typed, TypeOK, FileWatchTypeOK, watchVars, store, power, history

\* A start whose service is deregistered keeps the record it holds.
LEMMA DetachedTyped ==
    ASSUME Typed, NEW c \in [Calls -> Call], NEW names \in SUBSET Registered,
           \A k \in Calls : c[k] = call[k] \/ c[k] = Idle,
           call' = Detached(c, names), Registered' = Registered \ names
    PROVE  call' \in [Calls -> Call] /\ CallsFit'
<1>1. ASSUME NEW k \in Calls
      PROVE  call'[k] \in Call /\ CallFits(k)'
  <2>1. CASE c[k] = Idle
    <3>1. c[k].pc \notin Spawning \cup {"settle"}
      BY <2>1 DEF Idle, Spawning
    <3>2. call'[k] = Idle
      BY <2>1, <3>1 DEF Detached
    <3>3. QED
      BY <3>2, IdleFits, IdleTyped
  <2>2. CASE /\ c[k] = call[k] /\ call[k].on \in names /\ call[k].own = None
             /\ call[k].pc \in Spawning \cup {"settle"}
    <3> DEFINE d == record[call[k].on].config
    <3>1. d \in Definition
      BY <2>2 DEF Typed, TypeOK, Registered, Record
    <3> HIDE DEF d
    <3> DEFINE q == [call[k] EXCEPT !.own = d]
    <3>2. call'[k] = q
      BY <2>2 DEF Detached, d
    <3>a. /\ q \in Call /\ q.own = d /\ q.on = call[k].on /\ q.pc = call[k].pc
          /\ q.op = call[k].op /\ q.args = call[k].args
      <4>1. call[k] \in Call
        BY DEF Typed, TypeOK
      <4>2. QED
        BY <3>1, <4>1 DEF Call
    <3> HIDE DEF q
    <3>3. /\ call'[k] \in Call /\ call'[k].own = d /\ call'[k].on = call[k].on
          /\ call'[k].pc = call[k].pc /\ call'[k].op = call[k].op /\ call'[k].args = call[k].args
      BY <3>2, <3>a
    <3>4. d # None
      BY <3>1, FileWatchAssumption
    <3>5. QED
      BY <2>2, <3>3, <3>4 DEF Typed, CallsFit, CallFits, Spawning
  <2>3. CASE /\ c[k] = call[k]
             /\ ~(/\ call[k].on \in names /\ call[k].own = None
                  /\ call[k].pc \in Spawning \cup {"settle"})
    <3>1. call'[k] = call[k]
      BY <2>3 DEF Detached
    <3>2. QED
      BY <2>3, <3>1 DEF Typed, TypeOK, CallsFit, CallFits
  <2>4. QED
    BY <2>1, <2>2, <2>3
<1>2. QED
  BY <1>1 DEF CallsFit, Detached

\* An exit keeps the types.
LEMMA ExitTyped ==
    ASSUME Typed, NEW s \in Service, NEW relaunch \in BOOLEAN, NEW giveUp \in BOOLEAN,
           \/ ExitQuarantines(s) \/ ExitDeregisters(s) \/ ExitOfUnknown(s) \/ ExitRests(s)
           \/ ExitRelaunches(s, relaunch, giveUp)
    PROVE  Typed'
<1>0. child' \in [Service -> Child \cup {None}] /\ job' \in SUBSET Service
  BY DEF ExitQuarantines, ExitDeregisters, ExitOfUnknown, ExitRests, ExitRelaunches, Leaves,
     Typed, TypeOK
<1>1. CASE ExitQuarantines(s)
  <2>1. record' \in Records /\ Registered' = Registered
    BY <1>1, SetState, SameRegistered DEF ExitQuarantines, Leaves, Typed, States
  <2>2. /\ mem' \in Bits /\ disk' \in Bits
        /\ writes' \in Seq([by : Calls \cup {None}, bits : Bits])
    BY <1>1, NewBits, SaveTyped DEF ExitQuarantines
  <2>3. CallsFit'
    BY <1>1, <2>1, NoCallChanges DEF ExitQuarantines
  <2>4. QED
    BY <1>0, <1>1, <2>1, <2>2, <2>3
       DEF ExitQuarantines, Leaves, Disarm, Records, Typed, TypeOK, FileWatchTypeOK, watchVars, power
<1>2. CASE ExitRests(s)
  <2>1. record' \in Records /\ Registered' = Registered
    BY <1>2, SetState, SameRegistered DEF ExitRests, Leaves, Typed, States
  <2>2. CallsFit'
    BY <1>2, <2>1, NoCallChanges DEF ExitRests
  <2>3. started' \in [Service -> BOOLEAN] /\ armed' \in [Service -> BOOLEAN]
    BY <1>2 DEF ExitRests, Disarm, Typed, TypeOK
  <2>4. QED
    BY <1>0, <1>2, <2>1, <2>2, <2>3
       DEF ExitRests, Leaves, Records, Typed, TypeOK, FileWatchTypeOK, watchVars, power, store
<1>3. CASE ExitRelaunches(s, relaunch, giveUp)
  <2>1. record' \in Records /\ Registered' = Registered
    BY <1>3, SetState, SameRegistered DEF ExitRelaunches, Leaves, Typed, States
  <2>2. CallsFit'
    BY <1>3, <2>1, NoCallChanges DEF ExitRelaunches
  <2>3. started' \in [Service -> BOOLEAN] /\ armed' \in [Service -> BOOLEAN]
    BY <1>3 DEF ExitRelaunches, Typed, TypeOK
  <2>4. QED
    BY <1>0, <1>3, <2>1, <2>2, <2>3
       DEF ExitRelaunches, Leaves, Records, Typed, TypeOK, FileWatchTypeOK, watchVars, power, store
<1>4. CASE ExitDeregisters(s)
  <2>1. record' \in Records /\ Registered' = Registered \ {s}
    BY <1>4 DEF ExitDeregisters, Records, Registered, Typed, TypeOK
  <2>2. call' \in [Calls -> Call] /\ CallsFit'
    <3>1. call \in [Calls -> Call] /\ {s} \in SUBSET Registered /\ call' = Detached(call, {s})
      BY <1>4 DEF ExitDeregisters, Leaves, Typed, TypeOK
    <3>2. QED
      BY <2>1, <3>1, DetachedTyped
  <2>3. /\ started' \in [Service -> BOOLEAN] /\ armed' \in [Service -> BOOLEAN]
        /\ governed' \in [Service -> Definition \cup {None}]
        /\ forgotten' \in SUBSET Service /\ raced' \in SUBSET Service
    BY <1>4 DEF ExitDeregisters, Deregister, Disarm, OnTheirWay, Typed, TypeOK
  <2>4. QED
    BY <1>0, <1>4, <2>1, <2>2, <2>3
       DEF ExitDeregisters, Leaves, Records, Typed, TypeOK, FileWatchTypeOK, watchVars, power, store
<1>5. CASE ExitOfUnknown(s)
  <2>1. CallsFit'
    BY <1>5, NoCallChanges DEF ExitOfUnknown, Registered
  <2>2. QED
    BY <1>0, <1>5, <2>1
       DEF ExitOfUnknown, Typed, TypeOK, FileWatchTypeOK, watchVars, power, store, history
<1>6. QED
  BY <1>1, <1>2, <1>3, <1>4, <1>5

\* What a reload assigns when it goes on with the next name.
ReloadTyped ==
    /\ record' \in Records
    /\ governed' \in [Service -> Definition \cup {None}] /\ unopened' \in SUBSET Service
    /\ started' \in [Service -> BOOLEAN] /\ armed' \in [Service -> BOOLEAN]
    /\ raced' \in SUBSET Service
    /\ call' \in [Calls -> Call]
    /\ CallsFit'

\* A name that is visited has a valid definition.
LEMMA VisitedTyped ==
    ASSUME Typed, NEW k \in Calls, NEW s \in Service, Visits(k, s)
    PROVE  /\ call[k].load[s] \in Definition
           /\ call[k].op \notin {"enable", "disable"}
BY DEF Visits, Typed, CallsFit, CallFits

\* The loop of a reload or of the boot goes on.
LEMMA AdvancesTyped ==
    ASSUME Typed, NEW k \in Calls, NEW s \in Service, call[k].pc \in {"next", "reconcile"},
           Advances(k, s), Registered' = Registered
    PROVE  call' \in [Calls -> Call] /\ CallsFit'
<1> DEFINE c == [call[k] EXCEPT !.todo = @ \ {s}]
<1>1. call[k] \in Call
  BY DEF Typed, TypeOK
<1>2. /\ c \in Call /\ c.pc = call[k].pc /\ c.op = call[k].op /\ c.load = call[k].load
      /\ c.todo \subseteq call[k].todo
  BY <1>1 DEF Call
<1>3. call' = [call EXCEPT ![k] = c]
  BY DEF Advances
<1> HIDE DEF c
<1>4. call' \in [Calls -> Call] /\ call'[k] = c /\ \A j \in Calls \ {k} : call'[j] = call[j]
  BY <1>2, <1>3 DEF Typed, TypeOK
<1>5. CallFits(k)'
  BY <1>2, <1>4 DEF CallFits, Typed, CallsFit, Spawning
<1>6. QED
  BY <1>4, <1>5, OneCallFits

\* A definition that is new or changed is wired.
LEMMA WiresTyped ==
    ASSUME Typed, NEW k \in Calls, NEW s \in Service, Visits(k, s), Wires(k, s),
           Registered \subseteq Registered'
    PROVE  /\ call' \in [Calls -> Call] /\ CallsFit'
           /\ governed' \in [Service -> Definition \cup {None}] /\ unopened' \in SUBSET Service
           /\ raced' \in SUBSET Service
<1> DEFINE d == call[k].load[s]
           c == [call[k] EXCEPT !.todo = @ \ {s}, !.pc = IF d \in Budgeted THEN "wire" ELSE @,
                                !.on = IF d \in Budgeted THEN s ELSE @]
<1>1. call[k] \in Call /\ d \in Definition /\ call[k].pc = "reconcile"
  BY VisitedTyped DEF Typed, TypeOK, Visits
<1>2. /\ c \in Call /\ c.op = call[k].op /\ c.load = call[k].load
      /\ c.todo \subseteq call[k].todo
      /\ \/ c.pc = "wire" /\ c.on = s
         \/ c.pc = "reconcile"
  BY <1>1 DEF Call, Reloading
<1>3. call' = [call EXCEPT ![k] = c]
  BY DEF Wires
<1> HIDE DEF c
<1>4. call' \in [Calls -> Call] /\ call'[k] = c /\ \A j \in Calls \ {k} : call'[j] = call[j]
  BY <1>2, <1>3 DEF Typed, TypeOK
<1>5. CallFits(k)'
  BY <1>1, <1>2, <1>4, VisitedTyped DEF CallFits, Typed, CallsFit, Spawning
<1>6. CallsFit'
  BY <1>4, <1>5, OneCallFits
<1>7. governed' \in [Service -> Definition \cup {None}] /\ unopened' \in SUBSET Service
  BY <1>1 DEF Wires, Governed, Typed, TypeOK
<1>8. raced' \in SUBSET Service
  BY DEF Wires, OnTheirWay, Typed, TypeOK
<1>9. QED
  BY <1>4, <1>6, <1>7, <1>8

\* One name of a reload keeps the types.
LEMMA VisitTyped ==
    ASSUME Typed, NEW k \in Calls, NEW s \in Service,
           Adds(k, s) \/ Keeps(k, s) \/ Stages(k, s) \/ Updates(k, s)
    PROVE  Typed'
<1> DEFINE d == call[k].load[s]
<1>0. Visits(k, s) /\ d \in Definition /\ call[k].pc = "reconcile"
  BY VisitedTyped DEF Adds, Keeps, Stages, Updates, Visits
<1> HIDE DEF d
<1>1. SUFFICES ReloadTyped
  BY <1>0 DEF Visits, ReloadTyped, Records, Typed, TypeOK, FileWatchTypeOK, watchVars, store, power
<1>2. CASE Adds(k, s)
  <2> DEFINE r == [config |-> d, pending |-> None, orphaned |-> FALSE, state |-> "stopped"]
  <2>1. r \in Record
    BY <1>0 DEF Record, States
  <2>2. record' = [record EXCEPT ![s] = r]
    BY <1>2 DEF Adds, d
  <2> HIDE DEF r
  <2>3. record' \in Records /\ Registered \subseteq Registered'
    BY <2>1, <2>2, NullAssumption DEF Typed, TypeOK, Records, Registered
  <2>4. QED
    BY <1>0, <1>2, <2>3, WiresTyped DEF Adds, Disarm, ReloadTyped, Typed, TypeOK
<1>3. ASSUME NEW r \in Record, s \in Registered, record' = [record EXCEPT ![s] = r]
      PROVE  record' \in Records /\ Registered' = Registered
  BY <1>3, NullAssumption DEF Typed, TypeOK, Records, Registered
<1>4. CASE s \in Registered
  <2> DEFINE q == record[s]
  <2>1. q \in Record
    BY <1>4 DEF Typed, TypeOK, Registered
  <2> HIDE DEF q
  <2>2. /\ [q EXCEPT !.orphaned = FALSE, !.pending = None] \in Record
        /\ [q EXCEPT !.orphaned = FALSE, !.pending = d] \in Record
        /\ [q EXCEPT !.orphaned = FALSE, !.pending = None, !.config = d] \in Record
    BY <1>0, <2>1 DEF Record
  <2>3. CASE Keeps(k, s)
    <3>1. record' = [record EXCEPT ![s] = [q EXCEPT !.orphaned = FALSE, !.pending = None]]
      BY <2>3 DEF Keeps, q
    <3>2. record' \in Records /\ Registered' = Registered
      BY <1>3, <1>4, <2>2, <3>1
    <3>3. QED
      BY <1>0, <2>3, <3>2, AdvancesTyped DEF Keeps, ReloadTyped, Typed, TypeOK
  <2>4. CASE Stages(k, s)
    <3>1. record' = [record EXCEPT ![s] = [q EXCEPT !.orphaned = FALSE, !.pending = d]]
      BY <2>4 DEF Stages, q, d
    <3>2. record' \in Records /\ Registered' = Registered
      BY <1>3, <1>4, <2>2, <3>1
    <3>3. QED
      BY <1>0, <2>4, <3>2, AdvancesTyped DEF Stages, ReloadTyped, Typed, TypeOK
  <2>5. CASE Updates(k, s)
    <3>1. record' = [record EXCEPT ![s] = [q EXCEPT !.orphaned = FALSE, !.pending = None, !.config = d]]
      BY <2>5 DEF Updates, q, d
    <3>2. record' \in Records /\ Registered' = Registered
      BY <1>3, <1>4, <2>2, <3>1
    <3>3. QED
      BY <1>0, <2>5, <3>2, WiresTyped DEF Updates, Disarm, ReloadTyped, Typed, TypeOK
  <2>6. CASE Adds(k, s)
    BY <1>4, <2>6 DEF Adds
  <2>7. QED
    BY <2>3, <2>4, <2>5, <2>6
<1>5. CASE s \notin Registered
  BY <1>2, <1>5 DEF Keeps, Stages, Updates
<1>6. QED
  BY <1>4, <1>5

\* A reload that begins keeps the types.
LEMMA ReloadTypes ==
    ASSUME Typed, NEW k \in Calls, Reload(k)
    PROVE  Typed'
<1> DEFINE names == {n \in Service : files[n] # None}
           c == [Idle EXCEPT !.op = "reload", !.todo = names,
                             !.pc = IF names = {} THEN "reconcile" ELSE "load"]
<1>1. /\ c \in Call /\ c.op = "reload" /\ c.pc \in {"reconcile", "load"}
      /\ c.pc = "reconcile" => c.todo = {}
  BY DEF Idle, Call, Reloading
<1>2. call' = [call EXCEPT ![k] = c]
  BY DEF Reload
<1> HIDE DEF c
<1>3. call' \in [Calls -> Call] /\ call'[k] = c /\ \A j \in Calls \ {k} : call'[j] = call[j]
  BY <1>1, <1>2 DEF Typed, TypeOK
<1>4. CallFits(k)'
  BY <1>1, <1>3 DEF CallFits, Spawning
<1>5. CallsFit'
  BY <1>3, <1>4, OneCallFits DEF Reload, Registered
<1>6. QED
  BY <1>3, <1>5
     DEF Reload, Typed, TypeOK, FileWatchTypeOK, watchVars, lifecycle, store, power

\* A reload that reads a file keeps the types.
LEMMA ReadsTyped ==
    ASSUME Typed, NEW k \in Calls, NEW s \in Service, Reads(k, s)
    PROVE  Typed'
<1> DEFINE found == [call[k].load EXCEPT ![s] = IF files[s] = Broken THEN None ELSE files[s]]
           rest  == call[k].todo \ {s}
           todo  == IF rest = {} THEN {n \in Service : found[n] # None} ELSE rest
           c == [call[k] EXCEPT !.load = found, !.todo = todo,
                                !.pc = IF rest = {} THEN "reconcile" ELSE "load"]
<1>0. call[k] \in Call /\ call[k].op \notin {"enable", "disable"}
  BY DEF Reads, Typed, TypeOK, CallsFit, CallFits
<1>1. /\ found \in [Service -> Definition \cup {None}] /\ todo \in SUBSET Service
  BY <1>0 DEF Typed, TypeOK, Call
<1>2. call' = [call EXCEPT ![k] = c]
  BY DEF Reads
<1>3. rest = {} => \A n \in todo : found[n] \in Definition
  BY <1>1
<1> HIDE DEF found, todo, rest
<1>4. /\ c \in Call /\ c.op = call[k].op /\ c.load = found /\ c.todo = todo
      /\ c.pc = IF rest = {} THEN "reconcile" ELSE "load"
  BY <1>0, <1>1 DEF Call, Reloading
<1> HIDE DEF c
<1>5. call' \in [Calls -> Call] /\ call'[k] = c /\ \A j \in Calls \ {k} : call'[j] = call[j]
  BY <1>2, <1>4 DEF Typed, TypeOK
<1>6. CallFits(k)'
  BY <1>0, <1>3, <1>4, <1>5 DEF CallFits, Spawning
<1>7. CallsFit'
  BY <1>5, <1>6, OneCallFits DEF Reads, Registered
<1>8. QED
  BY <1>5, <1>7
     DEF Reads, Typed, TypeOK, FileWatchTypeOK, watchVars, lifecycle, store, power, history

\* The store of a reloaded service opens, or does not.
LEMMA WireTyped ==
    ASSUME Typed, NEW k \in Calls, WireOpens(k) \/ WireFails(k)
    PROVE  Typed'
<1>0. call[k] \in Call /\ call[k].on \in Service /\ call[k].load[call[k].on] \in Definition
  BY DEF WireOpens, WireFails, Typed, TypeOK, CallsFit, CallFits
<1>1. CASE WireOpens(k)
  <2> DEFINE c == [call[k] EXCEPT !.pc = "reconcile", !.on = None]
  <2>1. /\ c \in Call /\ c.op = call[k].op /\ c.load = call[k].load
        /\ c.todo = call[k].todo /\ c.pc = "reconcile"
    BY <1>0 DEF Call, Reloading
  <2>2. call' = [call EXCEPT ![k] = c]
    BY <1>1 DEF WireOpens
  <2> HIDE DEF c
  <2>3. call' \in [Calls -> Call] /\ call'[k] = c /\ \A j \in Calls \ {k} : call'[j] = call[j]
    BY <2>1, <2>2 DEF Typed, TypeOK
  <2>4. CallFits(k)'
    BY <1>1, <2>1, <2>3 DEF WireOpens, CallFits, Spawning, Typed, CallsFit
  <2>5. CallsFit'
    BY <1>1, <2>3, <2>4, OneCallFits DEF WireOpens, Registered
  <2>6. governed' \in [Service -> Definition \cup {None}] /\ unopened' \in SUBSET Service
    BY <1>0, <1>1 DEF WireOpens, Governed, Typed, TypeOK
  <2>7. QED
    BY <1>1, <2>3, <2>5, <2>6
       DEF WireOpens, Typed, TypeOK, FileWatchTypeOK, watchVars, store, power, history
<1>2. CASE WireFails(k)
  <2>1. call' \in [Calls -> Call] /\ CallsFit'
    BY <1>2, ReturnTyped DEF WireFails, Registered
  <2>2. events' \in 0 .. MaxEvents
    BY <1>2, RegistryAssumption DEF WireFails, MayNotOpen, Typed, TypeOK, Happens
  <2>3. QED
    BY <1>0, <1>2, <2>1, <2>2
       DEF WireFails, MayNotOpen, Typed, TypeOK, FileWatchTypeOK, watchVars, store
<1>3. QED
  BY <1>1, <1>2

\* The registry a reload leaves behind: removals, orphans, and the rest as it was.
Fileless(k) == {s \in Registered : call[k].load[s] = None}
Dropped(k) == {s \in Fileless(k) : child[s] = None}

\* A reload that returns drops the services without a file that do not run, and only those.
LEMMA Removals ==
    ASSUME Typed, NEW k \in Calls, ReloadReturns(k)
    PROVE  /\ record' \in Records /\ Registered' = Registered \ Dropped(k)
           /\ \A s \in Registered \ Fileless(k) : record'[s] = record[s]
           /\ \A s \in Fileless(k) \ Dropped(k) :
                 /\ record'[s].orphaned /\ record'[s].pending = None
                 /\ record'[s].config = record[s].config /\ record'[s].state = record[s].state
           /\ tracked' = Synced(record') /\ Deregister(Dropped(k))
           /\ call' = Detached([call EXCEPT ![k] = Idle], Dropped(k))
<1>1. /\ record' = [s \in Service |->
                       IF s \in Dropped(k) THEN None
                       ELSE IF s \in Fileless(k)
                       THEN [record[s] EXCEPT !.orphaned = TRUE, !.pending = None]
                       ELSE record[s]]
      /\ tracked' = Synced(record') /\ Deregister(Dropped(k))
      /\ call' = Detached([call EXCEPT ![k] = Idle], Dropped(k))
  BY DEF ReloadReturns, Fileless, Dropped
<1>2. ASSUME NEW s \in Fileless(k)
      PROVE  LET r == [record[s] EXCEPT !.orphaned = TRUE, !.pending = None]
             IN  /\ r \in Record /\ r.orphaned /\ r.pending = None
                 /\ r.config = record[s].config /\ r.state = record[s].state
  <2>1. record[s] \in Record
    BY DEF Typed, TypeOK, Fileless, Registered
  <2>2. QED
    BY <2>1 DEF Record
<1>3. ASSUME NEW s \in Service
      PROVE  /\ record'[s] \in Record \cup {None}
             /\ s \in Fileless(k) \ Dropped(k) =>
                  /\ record'[s] \in Record
                  /\ record'[s].orphaned /\ record'[s].pending = None
                  /\ record'[s].config = record[s].config /\ record'[s].state = record[s].state
  <2>1. CASE s \in Fileless(k) \ Dropped(k)
    BY <1>1, <1>2, <2>1
  <2>2. CASE s \notin Fileless(k) \ Dropped(k)
    BY <1>1, <2>2 DEF Typed, TypeOK
  <2>3. QED
    BY <2>1, <2>2
<1>4. /\ Fileless(k) \subseteq Registered /\ Dropped(k) \subseteq Fileless(k) /\ Registered \subseteq Service
  BY DEF Fileless, Dropped, Registered
<1>5. \A s \in Registered \ Fileless(k) : record'[s] = record[s]
  BY <1>1, <1>4
<1>6. \A s \in Service : record'[s] # None <=> s \in Registered \ Dropped(k)
  BY <1>1, <1>3, <1>4, NullAssumption DEF Registered
<1>7. record' \in Records
  BY <1>1, <1>3 DEF Records
<1>8. QED
  BY <1>1, <1>3, <1>4, <1>5, <1>6, <1>7 DEF Registered

\* A reload that returns keeps the types.
LEMMA ReloadReturnsTyped ==
    ASSUME Typed, NEW k \in Calls, ReloadReturns(k)
    PROVE  Typed'
<1>1. /\ record' \in Records /\ Registered' = Registered \ Dropped(k)
      /\ tracked' = Synced(record') /\ Deregister(Dropped(k))
      /\ call' = Detached([call EXCEPT ![k] = Idle], Dropped(k))
  BY Removals
<1> DEFINE c == [call EXCEPT ![k] = Idle]
<1>2. Dropped(k) \in SUBSET Registered
  BY DEF Dropped, Fileless
<1>3. /\ c \in [Calls -> Call]
      /\ \A j \in Calls : c[j] = call[j] \/ c[j] = Idle
  BY IdleTyped DEF Typed, TypeOK
<1> HIDE DEF c
<1>4. call' = Detached(c, Dropped(k))
  BY <1>1 DEF c
<1>5. call' \in [Calls -> Call] /\ CallsFit'
  BY <1>1, <1>2, <1>3, <1>4, DetachedTyped
<1>6. tracked' \in [Service -> Watcher \cup {None}]
  BY <1>1, SyncedTyped
<1>7. /\ started' \in [Service -> BOOLEAN] /\ armed' \in [Service -> BOOLEAN]
      /\ governed' \in [Service -> Definition \cup {None}]
      /\ forgotten' \in SUBSET Service /\ raced' \in SUBSET Service
  BY <1>1, <1>2 DEF Deregister, Disarm, OnTheirWay, Typed, TypeOK, Registered
<1>8. TypeOK'
  BY <1>1, <1>5, <1>6, <1>7
     DEF ReloadReturns, Records, Typed, TypeOK, FileWatchTypeOK, store, power
<1>9. QED
  BY <1>5, <1>8 DEF Typed

\* The death of the daemon keeps the types.
LEMMA CrashTyped ==
    ASSUME Typed, Crash
    PROVE  Typed'
<1>1. call' \in [Calls -> Call] /\ CallsFit'
  BY IdleTyped, IdleFits DEF Crash, Off, CallsFit
<1>2. events' \in 0 .. MaxEvents
  BY RegistryAssumption DEF Crash, Typed, TypeOK, Happens
<1>3. mem' \in Bits /\ writes' \in Seq([by : Calls \cup {None}, bits : Bits])
  BY EmptySeq DEF Crash, Off, NoBits, Bits
<1>4. QED
  BY <1>1, <1>2, <1>3 DEF Crash, Off, NoDefinitions, Typed, TypeOK, FileWatchTypeOK

\* A boot keeps the types: the calls of the last daemon are gone.
LEMMA BootTyped ==
    ASSUME Typed, DownIsEmpty, NEW k \in Calls, Boot(k)
    PROVE  Typed'
<1>1. \A s \in Service : BootRecord(s) \in Record \cup {None}
  BY DEF BootRecord, Record, States
<1>2. record' \in Records
  BY <1>1 DEF Boot, Records
<1> DEFINE c == [Idle EXCEPT !.op = "boot", !.pc = "next", !.todo = disk.enabled]
<1>3. c \in Call /\ c.op = "boot" /\ c.pc = "next"
  BY DEF Idle, Call, Typed, TypeOK, Bits
<1>4. call' = [call EXCEPT ![k] = c]
  BY DEF Boot
<1> HIDE DEF c
<1>5. call' \in [Calls -> Call] /\ call'[k] = c /\ \A j \in Calls \ {k} : call'[j] = Idle
  BY <1>3, <1>4 DEF Typed, TypeOK, DownIsEmpty, Boot
<1>6. CallFits(k)'
  BY <1>3, <1>5 DEF CallFits, Spawning
<1>7. CallsFit'
  BY <1>5, <1>6, IdleFits DEF CallsFit
<1>8. \A s \in Service : files[s] \in Budgeted => files[s] \in Definition
  BY RegistryAssumption
<1>9. mem' \in Bits
  BY DEF Boot, Typed, TypeOK
<1>10. QED
  BY <1>2, <1>5, <1>7, <1>8, <1>9 DEF Boot, Records, Typed, TypeOK, FileWatchTypeOK, watchVars

\* A name the boot skips keeps the types.
LEMMA BootSkipsTyped ==
    ASSUME Typed, NEW k \in Calls, NEW s \in Service, BootSkips(k, s)
    PROVE  Typed'
<1>1. call' \in [Calls -> Call] /\ CallsFit'
  BY AdvancesTyped DEF BootSkips, Registered
<1>2. QED
  BY <1>1 DEF BootSkips, Typed, TypeOK, FileWatchTypeOK, watchVars, lifecycle, store, power, history

\* Who edits a service file keeps the types.
LEMMA EditTyped ==
    ASSUME Typed, NEW s \in Service, Edit(s)
    PROVE  Typed'
<1>1. CallsFit'
  BY NoCallChanges DEF Edit, Registered
<1>2. files' \in [Service -> Definition \cup {None, Broken}]
  BY DEF Edit, Typed, TypeOK
<1>3. events' \in 0 .. MaxEvents
  BY RegistryAssumption DEF Edit, Typed, TypeOK, Happens
<1>4. QED
  BY <1>1, <1>2, <1>3 DEF Edit, Typed, TypeOK, FileWatchTypeOK, watchVars, lifecycle, store

\* Who changes a watched file keeps the types.
LEMMA TouchTyped ==
    ASSUME Typed, NEW p \in Path, NEW e \in Entry, Touch(p, e)
    PROVE  Typed'
<1>1. CallsFit'
  BY NoCallChanges DEF Touch, Registered
<1>a. changes \in 0 .. MaxChanges /\ changes < MaxChanges /\ changes' = changes + 1
  BY DEF Touch, Changes, Typed, TypeOK, FileWatchTypeOK, Mtimes
<1>b. MaxChanges \in Nat
  BY FileWatchAssumption
<1>2. changes' \in Mtimes /\ changes + 1 \in Mtimes /\ Gone \in Mtimes
  BY <1>a, <1>b DEF Mtimes, Gone
<1>3. PICK m \in {changes + 1, Gone} \ {listing[p][e]} : listing' = [listing EXCEPT ![p][e] = m]
  BY Zenon DEF Touch, Changes
<1>4. listing[p] \in Listing /\ m \in Mtimes
  BY <1>2 DEF Typed, TypeOK, FileWatchTypeOK
<1>5. [listing[p] EXCEPT ![e] = m] \in Listing
  BY <1>4 DEF Listing
<1>6. listing' \in [Path -> Listing]
  BY <1>3, <1>5 DEF Typed, TypeOK, FileWatchTypeOK
<1>7. QED
  BY <1>1, <1>2, <1>6
     DEF Touch, Changes, Typed, TypeOK, FileWatchTypeOK, lifecycle, store, power, history

\* While the daemon is down it boots, or files change, and nothing else happens.
LEMMA DownSteps ==
    ASSUME Typed, DownIsEmpty, daemon = "down", Next
    PROVE  \/ \E k \in Calls : Boot(k)
           \/ \E s \in Service : Edit(s)
           \/ \E p \in Path, e \in Entry : Touch(p, e)
<1>1. ~Quiet
  BY DEF Quiet
<1>2. \A k \in Calls : call[k].pc = "idle"
  BY DEF DownIsEmpty, Idle
<1>3. ~WriteEnds /\ ~WriteFails /\ ~Crash
  BY <1>1 DEF WriteEnds, WriteFails, Crash
<1>4. ASSUME NEW k \in Calls, CallSteps(k) PROVE Boot(k)
  <2>1. /\ ~EnableReturns(k) /\ ~UnquarantineReturns(k) /\ ~RestartContinues(k)
        /\ ~ReloadReturns(k) /\ ~BootReturns(k)
    BY <1>2 DEF EnableReturns, UnquarantineReturns, RestartContinues, ReloadReturns, BootReturns
  <2>2. /\ ~StoreOpens(k) /\ ~StoreFails(k) /\ ~Spawns(k) /\ ~Settles(k) /\ ~Reload(k)
        /\ ~WireOpens(k) /\ ~WireFails(k)
    BY <1>1 DEF StoreOpens, StoreFails, Spawns, Settles, Reload, WireOpens, WireFails
  <2>3. ASSUME NEW s \in Service
        PROVE  /\ \A bit \in BOOLEAN : ~Enable(k, s, bit)
               /\ ~Unquarantine(k, s) /\ ~Start(k, s) /\ ~Restart(k, s) /\ ~Relaunch(k, s)
               /\ ~Poll(k, s) /\ ~Reads(k, s)
               /\ ~Adds(k, s) /\ ~Keeps(k, s) /\ ~Stages(k, s) /\ ~Updates(k, s)
               /\ ~BootStarts(k, s) /\ ~BootSkips(k, s)
    BY <1>1, <1>2 DEF Enable, Unquarantine, Start, Restart, Relaunch, Poll, Reads, Adds, Keeps,
       Stages, Updates, Visits, BootStarts, BootSkips
  <2>4. QED
    BY <1>4, <2>1, <2>2, <2>3 DEF CallSteps
<1>5. ASSUME NEW s \in Service, ServiceSteps(s) PROVE Edit(s)
  BY <1>1, <1>5 DEF ServiceSteps, Stop, RelaunchRefused, ExitQuarantines, ExitDeregisters,
     ExitOfUnknown, ExitRests, ExitRelaunches, Leaves
<1>6. QED
  BY <1>3, <1>4, <1>5 DEF Next

\* Only a crash takes the daemon down.
LEMMA UpSteps ==
    ASSUME Next, daemon = "up", ~Crash
    PROVE  daemon' = "up"
<1>1. ASSUME NEW k \in Calls, CallSteps(k) PROVE daemon' = "up"
  <2>1. ASSUME NEW s \in Service,
               \/ \E bit \in BOOLEAN : Enable(k, s, bit)
               \/ Unquarantine(k, s) \/ Start(k, s) \/ Restart(k, s) \/ Relaunch(k, s)
               \/ Poll(k, s) \/ Reads(k, s)
               \/ Adds(k, s) \/ Keeps(k, s) \/ Stages(k, s) \/ Updates(k, s)
               \/ BootStarts(k, s) \/ BootSkips(k, s)
        PROVE  daemon' = "up"
    BY <2>1 DEF Enable, Unquarantine, Start, Restart, Relaunch, Poll, Reads, Adds, Keeps,
       Stages, Updates, Visits, BootStarts, BootSkips, power
  <2>2. QED
    BY <1>1, <2>1 DEF CallSteps, EnableReturns, UnquarantineReturns, RestartContinues,
       ReloadReturns, BootReturns, StoreOpens, StoreFails, Spawns, Settles, Reload, WireOpens,
       WireFails, Boot, power
<1>2. ASSUME NEW s \in Service, ServiceSteps(s) PROVE daemon' = "up"
  BY <1>2 DEF ServiceSteps, Stop, RelaunchRefused, Edit, ExitQuarantines, ExitDeregisters,
     ExitOfUnknown, ExitRests, ExitRelaunches, Leaves, power
<1>3. QED
  BY <1>1, <1>2 DEF Next, WriteEnds, WriteFails, Touch, power

-----------------------------------------------------------------------------
(* Type correctness, and what it needs of a daemon that is down. *)

TypeInv == Typed /\ DownIsEmpty

\* A step keeps the types.
LEMMA TypedStep ==
    ASSUME TypeInv, [Next]_vars
    PROVE  Typed'
<1>1. CASE UNCHANGED vars
  <2>1. CallsFit'
    BY <1>1, NoCallChanges DEF TypeInv, vars, Registered
  <2>2. QED
    BY <1>1, <2>1 DEF TypeInv, Typed, TypeOK, FileWatchTypeOK, vars, watchVars, lifecycle, store,
       power, history
<1>2. ASSUME NEW k \in Calls, CallSteps(k) PROVE Typed'
  BY <1>2, ReturnsTyped, StoreTyped, SpawnTyped, RestartContinuesTyped, ReloadTypes, WireTyped,
     ReloadReturnsTyped, BootTyped, EnableTyped, UnquarantineTyped, StartActionsTyped,
     RestartTyped, ReadsTyped, VisitTyped, BootSkipsTyped
     DEF CallSteps, TypeInv
<1>3. ASSUME NEW s \in Service, ServiceSteps(s) PROVE Typed'
  BY <1>3, StopTyped, ExitTyped, EditTyped DEF ServiceSteps, TypeInv
<1>4. QED
  BY <1>1, <1>2, <1>3, WriteTyped, CrashTyped, TouchTyped DEF Next, TypeInv

\* A daemon that is down stays empty, whatever is done to the files, until it boots.
LEMMA DownIsEmptyStep ==
    ASSUME TypeInv, [Next]_vars
    PROVE  DownIsEmpty'
<1>1. CASE UNCHANGED vars
  BY <1>1 DEF TypeInv, DownIsEmpty, vars, watchVars, lifecycle, store, power
<1>2. CASE Crash
  BY <1>2 DEF Crash, Off, DownIsEmpty
<1>3. CASE Next /\ daemon = "up" /\ ~Crash
  BY <1>3, UpSteps DEF DownIsEmpty
<1>4. CASE Next /\ daemon = "down"
  <2>1. CASE \E k \in Calls : Boot(k)
    BY <2>1 DEF Boot, DownIsEmpty
  <2>2. CASE \E s \in Service : Edit(s)
    BY <2>2, <1>4 DEF Edit, TypeInv, DownIsEmpty, watchVars, lifecycle, store
  <2>3. CASE \E p \in Path, e \in Entry : Touch(p, e)
    BY <2>3, <1>4 DEF Touch, Changes, TypeInv, DownIsEmpty, lifecycle, store
  <2>4. QED
    BY <1>4, <2>1, <2>2, <2>3, DownSteps DEF TypeInv
<1>5. QED
  BY <1>1, <1>2, <1>3, <1>4 DEF TypeInv, Typed, TypeOK

\* At the start nothing runs and nothing is in memory.
LEMMA InitTypeInv ==
    ASSUME Init
    PROVE  TypeInv
<1>1. FileWatchTypeOK
  <2>1. 0 \in 0 .. MaxChanges
    BY FileWatchAssumption
  <2>2. Gone \in Mtimes /\ changes \in Mtimes
    BY <2>1 DEF Init, FileWatchInit, Mtimes, Gone
  <2>3. listing \in [Path -> Listing] /\ tracked \in [Service -> Watcher \cup {None}]
    BY <2>2 DEF Init, FileWatchInit, Listing
  <2>4. QED
    BY <2>2, <2>3 DEF FileWatchTypeOK
<1>2. /\ mem \in Bits /\ writes \in Seq([by : Calls \cup {None}, bits : Bits])
  BY EmptySeq DEF Init, NoBits, Bits
<1>3. call \in [Calls -> Call] /\ CallsFit
  BY IdleTyped DEF Init, CallsFit, CallFits, Idle, Spawning
<1>4. events \in 0 .. MaxEvents
  BY RegistryAssumption DEF Init
<1>5. TypeOK
  BY <1>1, <1>2, <1>3, <1>4 DEF Init, TypeOK, NoDefinitions
<1>6. DownIsEmpty
  BY DEF Init, FileWatchInit, DownIsEmpty, NoDefinitions
<1>7. QED
  BY <1>3, <1>5, <1>6 DEF TypeInv, Typed

\* Every variable of the registry keeps its type, every call in progress has what its next step
\* reads, and a daemon that is down has nothing in memory.
THEOREM TypeCorrect == Spec => []TypeInv
<1>1. Init => TypeInv
  BY InitTypeInv
<1>2. TypeInv /\ [Next]_vars => TypeInv'
  BY TypedStep, DownIsEmptyStep DEF TypeInv
<1>3. QED
  BY <1>1, <1>2, PTL DEF Spec

\* Every variable of the registry has its type in every state it can reach.
THEOREM TypesHold == Spec => []TypeOK
<1>1. TypeInv => TypeOK
  BY DEF TypeInv, Typed
<1>2. QED
  BY <1>1, TypeCorrect, PTL

-----------------------------------------------------------------------------
(* Timers and orphans. *)

\* Timers stay with their services when none is set and no service is removed or orphaned.
LEMMA TimersKept ==
    ASSUME TimersAreCancelled, Registered' = Registered, child' = child,
           \A n \in Registered : record'[n].orphaned => record[n].orphaned,
           \A n \in Service : armed'[n] => armed[n]
    PROVE  TimersAreCancelled'
BY DEF TimersAreCancelled

\* What the store, the answers, the boot, the edits and the reads do leaves the timers alone.
LEMMA TimersUntouched ==
    ASSUME TypeInv, TimersAreCancelled, record' = record, UNCHANGED <<child, armed>>
    PROVE  TimersAreCancelled'
BY DEF TimersAreCancelled, Registered

\* A change of state of a service leaves its timer alone, or cancels it.
LEMMA TimersOfState ==
    ASSUME TypeInv, TimersAreCancelled, NEW s \in Service, NEW t \in States,
           s \in Registered, record' = [record EXCEPT ![s].state = t],
           child' = child, \A n \in Service : armed'[n] => armed[n]
    PROVE  TimersAreCancelled'
<1>1. SameDefinitions
  BY SetState DEF TypeInv, Typed
<1>2. Registered' = Registered
  BY <1>1, SameRegistered
<1>3. \A n \in Registered : record'[n].orphaned = record[n].orphaned
  BY <1>1 DEF SameDefinitions, Registered
<1>4. QED
  BY <1>2, <1>3, TimersKept

\* A start cancels the timer of a service whose staged definition it adopts.
LEMMA TimersOfStarts ==
    ASSUME TypeInv, TimersAreCancelled, NEW k \in Calls, NEW s \in Registered, NEW c,
           NEW fired \in BOOLEAN, Starts(k, s, c, fired)
    PROVE  TimersAreCancelled'
<1>1. /\ Registered' = Registered /\ record'[s].orphaned = record[s].orphaned
      /\ \A n \in Service \ {s} : record'[n] = record[n]
  BY StartsRecord DEF TypeInv
<1>2. child' = child /\ \A n \in Service : armed'[n] => armed[n]
  BY DEF Starts, TypeInv, Typed, TypeOK, Registered
<1>3. \A n \in Registered : record'[n].orphaned = record[n].orphaned
  BY <1>1 DEF Registered
<1>4. QED
  BY <1>1, <1>2, <1>3, TimersKept

\* The actions that start a service.
LEMMA TimersOfStartActions ==
    ASSUME TypeInv, TimersAreCancelled, NEW k \in Calls, NEW s \in Service,
           Start(k, s) \/ Relaunch(k, s) \/ BootStarts(k, s) \/ Poll(k, s)
    PROVE  TimersAreCancelled'
<1>1. CASE Start(k, s)
  BY <1>1, TimersOfStarts DEF Start, CanStart
<1>2. CASE Relaunch(k, s)
  BY <1>2, TimersOfStarts DEF Relaunch, CanStart
<1>3. CASE BootStarts(k, s)
  BY <1>3, TimersOfStarts DEF BootStarts, BootWants, CanStart
<1>4. CASE Poll(k, s)
  <2>1. CASE Fires(s) /\ CanStart(s)
    BY <1>4, <2>1, TimersOfStarts DEF Poll, CanStart
  <2>2. CASE ~(Fires(s) /\ CanStart(s))
    BY <1>4, <2>2, TimersUntouched DEF Poll, lifecycle
  <2>3. QED
    BY <2>1, <2>2
<1>5. QED
  BY <1>1, <1>2, <1>3, <1>4

\* The rest of a restart.
LEMMA TimersOfRestart ==
    ASSUME TypeInv, TimersAreCancelled, NEW k \in Calls, RestartContinues(k)
    PROVE  TimersAreCancelled'
<1>1. CASE CanStart(call[k].on)
  BY <1>1, TimersOfStarts DEF RestartContinues, CanStart
<1>2. CASE ~CanStart(call[k].on)
  BY <1>2, TimersUntouched DEF RestartContinues
<1>3. QED
  BY <1>1, <1>2

\* The store opens, the child is spawned, the settle ends.
LEMMA TimersOfStarted ==
    ASSUME TypeInv, TimersAreCancelled, NEW k \in Calls,
           StoreOpens(k) \/ StoreFails(k) \/ Spawns(k) \/ Settles(k)
    PROVE  TimersAreCancelled'
<1> DEFINE s == call[k].on
<1>1. call[k].pc \in Spawning \cup {"settle"}
  BY DEF StoreOpens, StoreFails, Spawns, Settles, Spawning
<1>2. s \in Service /\ (call[k].own = None => s \in Registered) /\ Held(k) \in Definition
  BY <1>1, HeldTyped DEF TypeInv, Typed, CallsFit, CallFits
<1>3. CASE StoreOpens(k)
  BY <1>2, <1>3, TimersOfState, TimersUntouched DEF StoreOpens, States
<1>4. CASE StoreFails(k)
  BY <1>4, TimersUntouched DEF StoreFails
<1>5. CASE Spawns(k)
  <2>1. call[k].args \in Definition
    BY <1>5 DEF Spawns, TypeInv, Typed, CallsFit, CallFits
  <2>2. [args |-> call[k].args, rest |-> Held(k)] \in Child
    BY <1>2, <2>1 DEF Child
  <2>3. child'[s] # None /\ \A n \in Service \ {s} : child'[n] = child[n]
    BY <1>2, <1>5, <2>2, NullAssumption DEF Spawns, TypeInv, Typed, TypeOK
  <2>4. QED
    BY <1>5, <2>3 DEF Spawns, TimersAreCancelled, Registered
<1>6. CASE Settles(k)
  <2>1. record' = record \/ (s \in Registered /\ record' = [record EXCEPT ![s].state = "running"])
    BY <1>2, <1>6 DEF Settles
  <2>2. QED
    BY <1>2, <1>6, <2>1, TimersOfState, TimersUntouched DEF Settles, States
<1>7. QED
  BY <1>3, <1>4, <1>5, <1>6

\* stop() cancels the timer.
LEMMA TimersOfStops ==
    ASSUME TypeInv, TimersAreCancelled, NEW s \in Registered, Stops(s)
    PROVE  TimersAreCancelled'
<1>1. child' = child /\ \A n \in Service : armed'[n] => armed[n]
  BY DEF Stops, Disarm
<1>2. record' = record \/ record' = [record EXCEPT ![s].state = "stopping"]
  BY DEF Stops
<1>3. CASE record' = record
  BY <1>1, <1>3, TimersKept DEF Registered
<1>4. CASE record' = [record EXCEPT ![s].state = "stopping"]
  BY <1>1, <1>4, TimersOfState DEF States, Registered
<1>5. QED
  BY <1>2, <1>3, <1>4

\* An exit arms the timer of a registered service with a file only; an orphan that exits is gone.
LEMMA TimersOfExit ==
    ASSUME TypeInv, TimersAreCancelled, NEW s \in Service, NEW relaunch \in BOOLEAN,
           NEW giveUp \in BOOLEAN,
           \/ ExitQuarantines(s) \/ ExitDeregisters(s) \/ ExitOfUnknown(s) \/ ExitRests(s)
           \/ ExitRelaunches(s, relaunch, giveUp)
    PROVE  TimersAreCancelled'
<1>1. child'[s] = None /\ \A n \in Service \ {s} : child'[n] = child[n]
  BY DEF ExitQuarantines, ExitDeregisters, ExitOfUnknown, ExitRests, ExitRelaunches, Leaves,
     TypeInv, Typed, TypeOK
<1>2. CASE ExitOfUnknown(s)
  BY <1>1, <1>2 DEF ExitOfUnknown, TimersAreCancelled, Registered
<1>3. CASE ExitDeregisters(s)
  <2>1. /\ \A n \in Service \ {s} : record'[n] = record[n] /\ armed'[n] = armed[n]
        /\ record'[s] = None /\ ~armed'[s]
    BY <1>3 DEF ExitDeregisters, Deregister, Disarm, TypeInv, Typed, TypeOK
  <2>2. QED
    BY <1>1, <2>1 DEF TimersAreCancelled, Registered
<1>4. CASE ExitQuarantines(s) \/ ExitRests(s) \/ ExitRelaunches(s, relaunch, giveUp)
  <2>1. s \in Registered /\ ~record[s].orphaned
    BY <1>4 DEF ExitQuarantines, ExitRests, ExitRelaunches, Leaves, Eligible
  <2>2. \E t \in States : record' = [record EXCEPT ![s].state = t]
    BY <1>4 DEF ExitQuarantines, ExitRests, ExitRelaunches, States
  <2>3. SameDefinitions
    BY <2>1, <2>2, SetState DEF TypeInv, Typed
  <2>4. Registered' = Registered
    BY <2>3, SameRegistered
  <2>5. \A n \in Registered : record'[n].orphaned = record[n].orphaned
    BY <2>3 DEF SameDefinitions, Registered
  <2>6. \A n \in Service \ {s} : armed'[n] => armed[n]
    BY <1>4 DEF ExitQuarantines, ExitRests, ExitRelaunches, Disarm, TypeInv, Typed, TypeOK
  <2>7. QED
    BY <1>1, <2>1, <2>4, <2>5, <2>6 DEF TimersAreCancelled
<1>5. QED
  BY <1>2, <1>3, <1>4

\* A name that a reload reconciles has no orphan any more.
LEMMA TimersOfVisit ==
    ASSUME TypeInv, TimersAreCancelled, NEW k \in Calls, NEW s \in Service,
           Adds(k, s) \/ Keeps(k, s) \/ Stages(k, s) \/ Updates(k, s)
    PROVE  TimersAreCancelled'
<1>1. child' = child /\ \A n \in Service : armed'[n] => armed[n]
  BY DEF Adds, Keeps, Stages, Updates, Visits, Disarm
<1>2. \A n \in Service \ {s} : record'[n] = record[n]
  BY DEF Adds, Keeps, Stages, Updates, TypeInv, Typed, TypeOK
<1>3. record' \in Records /\ ~record'[s].orphaned /\ record'[s] # None
  <2>1. record \in Records /\ call[k].load[s] \in Definition
    BY VisitedTyped DEF TypeInv, Typed, TypeOK, Records, Adds, Keeps, Stages, Updates
  <2>2. record' \in Records
    BY VisitTyped DEF Records, TypeInv, Typed, TypeOK
  <2>3. CASE Adds(k, s)
    <3>1. record'[s] = [config |-> call[k].load[s], pending |-> None, orphaned |-> FALSE,
                        state |-> "stopped"]
      BY <2>1, <2>3 DEF Adds, Records
    <3>2. record'[s] \in Record /\ ~record'[s].orphaned
      BY <2>1, <3>1 DEF Record, States
    <3>3. QED
      BY <2>2, <3>2, NullAssumption
  <2>4. CASE Keeps(k, s) \/ Stages(k, s) \/ Updates(k, s)
    <3>1. record[s] \in Record
      BY <2>4 DEF Keeps, Stages, Updates, Registered, TypeInv, Typed, TypeOK
    <3>2. \/ record'[s] = [record[s] EXCEPT !.orphaned = FALSE, !.pending = None]
          \/ record'[s] = [record[s] EXCEPT !.orphaned = FALSE, !.pending = call[k].load[s]]
          \/ record'[s] = [record[s] EXCEPT !.orphaned = FALSE, !.pending = None,
                                            !.config = call[k].load[s]]
      BY <2>1, <2>4 DEF Keeps, Stages, Updates, Records
    <3>3. record'[s] \in Record /\ ~record'[s].orphaned
      BY <2>1, <3>1, <3>2 DEF Record
    <3>4. QED
      BY <2>2, <3>3, NullAssumption
  <2>5. QED
    BY <2>3, <2>4
<1>4. QED
  BY <1>1, <1>2, <1>3 DEF TimersAreCancelled, Registered

\* A reload that returns cancels the timers of the services it drops; its orphans run.
LEMMA TimersOfRemovals ==
    ASSUME TypeInv, TimersAreCancelled, NEW k \in Calls, ReloadReturns(k)
    PROVE  TimersAreCancelled'
<1>1. /\ Registered' = Registered \ Dropped(k) /\ Deregister(Dropped(k))
      /\ \A s \in Registered \ Fileless(k) : record'[s] = record[s]
  BY Removals DEF TypeInv
<1>2. child' = child /\ \A n \in Service : armed'[n] => armed[n] /\ n \notin Dropped(k)
  BY <1>1 DEF ReloadReturns, Deregister, Disarm
<1>3. \A s \in Fileless(k) \ Dropped(k) : child[s] # None
  BY DEF Dropped
<1>4. QED
  BY <1>1, <1>2, <1>3 DEF TimersAreCancelled, Registered

\* A timer that is set belongs to a registered service, and an orphan runs.
THEOREM TimersInvariant == Spec => []TimersAreCancelled
<1>1. Init => TimersAreCancelled
  BY DEF Init, TimersAreCancelled, NoDefinitions, Registered
<1>2. ASSUME TypeInv, TimersAreCancelled, [Next]_vars PROVE TimersAreCancelled'
  <2>1. CASE UNCHANGED vars
    BY <1>2, <2>1, TimersUntouched DEF vars, lifecycle
  <2>2. CASE WriteEnds \/ WriteFails \/ \E p \in Path, e \in Entry : Touch(p, e)
    BY <1>2, <2>2, TimersUntouched DEF WriteEnds, WriteFails, Touch, lifecycle
  <2>3. CASE Crash
    BY <2>3 DEF Crash, Off, NoDefinitions, TimersAreCancelled, Registered
  <2>4. ASSUME NEW k \in Calls, CallSteps(k) PROVE TimersAreCancelled'
    <3>1. CASE EnableReturns(k) \/ UnquarantineReturns(k) \/ BootReturns(k) \/ Reload(k)
               \/ WireOpens(k) \/ WireFails(k)
      BY <1>2, <3>1, TimersUntouched DEF EnableReturns, UnquarantineReturns, BootReturns, Reload,
         WireOpens, WireFails, lifecycle
    <3>2. CASE Boot(k)
      <4>1. ASSUME NEW s \in Service, record'[s] # None PROVE ~record'[s].orphaned
        BY <3>2, <4>1 DEF Boot, BootRecord
      <4>2. \A s \in Service : ~armed'[s]
        BY <1>2, <3>2 DEF TypeInv, DownIsEmpty, Boot
      <4>3. QED
        BY <4>1, <4>2 DEF TimersAreCancelled, Registered
    <3>3. ASSUME NEW s \in Service,
                 Reads(k, s) \/ BootSkips(k, s) \/ \E bit \in BOOLEAN : Enable(k, s, bit)
          PROVE  TimersAreCancelled'
      BY <1>2, <3>3, TimersUntouched DEF Reads, BootSkips, Enable, lifecycle
    <3>4. ASSUME NEW s \in Service, Unquarantine(k, s)
          PROVE  TimersAreCancelled'
      BY <1>2, <3>4, TimersOfState, TimersUntouched DEF Unquarantine, lifecycle, States
    <3>5. ASSUME NEW s \in Service, Restart(k, s)
          PROVE  TimersAreCancelled'
      BY <1>2, <3>5, TimersOfStops DEF Restart
    <3>6. QED
      BY <1>2, <2>4, <3>1, <3>2, <3>3, <3>4, <3>5, TimersOfStarted, TimersOfRestart,
         TimersOfRemovals, TimersOfStartActions, TimersOfVisit DEF CallSteps
  <2>5. ASSUME NEW s \in Service, ServiceSteps(s) PROVE TimersAreCancelled'
    <3>1. CASE Stop(s)
      BY <1>2, <3>1, TimersOfStops DEF Stop
    <3>2. CASE Edit(s)
      BY <1>2, <3>2, TimersUntouched DEF Edit, lifecycle
    <3>3. CASE RelaunchRefused(s)
      <4>1. \A n \in Service : armed'[n] => armed[n]
        BY <3>3 DEF RelaunchRefused, TypeInv, Typed, TypeOK
      <4>2. QED
        BY <1>2, <3>3, <4>1, TimersKept DEF RelaunchRefused, Registered
    <3>4. QED
      BY <1>2, <2>5, <3>1, <3>2, <3>3, TimersOfExit DEF ServiceSteps
  <2>6. QED
    BY <1>2, <2>1, <2>2, <2>3, <2>4, <2>5 DEF Next
<1>3. QED
  BY <1>1, <1>2, TypeCorrect, PTL DEF Spec

\* An orphan never comes back (relaunch.ts cancel() at every removal): a relaunch that is pending
\* while nothing of its service runs is one of a registered service with its file.
THEOREM TimersTheorem == Spec => []TimersHaveDefinitions
<1>1. TimersAreCancelled => TimersHaveDefinitions
  BY DEF TimersAreCancelled, TimersHaveDefinitions
<1>2. QED
  BY <1>1, TimersInvariant, PTL

-----------------------------------------------------------------------------
(* state.json. *)

\* A call that takes no part in a change of an enabled bit.
Aside(j) ==
    \/ call'[j] = call[j]
    \/ /\ call[j].pc # "write"
       /\ call[j].op \notin {"enable", "disable"} /\ call'[j].op \notin {"enable", "disable"}

\* A queued snapshot is for a call or for nobody.
LEMMA WritersTyped ==
    ASSUME TypeInv
    PROVE  /\ Len(writes) \in Nat
           /\ \A i \in 1 .. Len(writes) : writes[i].by \in Calls \cup {None}
<1>1. writes \in Seq([by : Calls \cup {None}, bits : Bits])
  BY DEF TypeInv, Typed, TypeOK
<1>2. \A i \in 1 .. Len(writes) : writes[i] \in [by : Calls \cup {None}, bits : Bits]
  BY <1>1, ElementOfSeq
<1>3. QED
  BY <1>1, <1>2, LenProperties

\* What leaves the store and the toggles alone keeps the order of the snapshots.
LEMMA DurableKept ==
    ASSUME TypeInv, DurableInv, UNCHANGED <<store, promised, daemon>>, \A j \in Calls : Aside(j)
    PROVE  DurableInv'
<1>1. UNCHANGED <<mem, disk, writes, promised, daemon>>
  BY DEF store
<1>2. \A j \in Calls, s \in Service : Toggling(j, s)' <=> Toggling(j, s)
  BY DEF Aside, Toggling
<1>3. \A j \in Calls : call[j].pc = "write" => call'[j] = call[j]
  BY DEF Aside
<1>4. \A j \in Calls, s \in Service : Toggling(j, s) => call'[j] = call[j]
  BY DEF Aside, Toggling
<1>5. \A i \in 1 .. Len(writes) : writes[i].by # None => writes[i].by \in Calls
  BY WritersTyped
<1>6. \A i \in 1 .. Len(writes), s \in Service : Toggles(i, s)' <=> Toggles(i, s)
  BY <1>1, <1>2, <1>5 DEF Toggles
<1>7. Waits'
  BY <1>1, <1>3, <1>5 DEF DurableInv, Waits
<1>8. SnapshotsInOrder'
  <2>1. \A i \in 1 .. Len(writes), s \in Service :
           Toggles(i, s) => (IsOn(writes[i].by)' <=> IsOn(writes[i].by))
    BY <1>1, <1>4, <1>5 DEF Toggles, IsOn
  <2>2. \A i \in 1 .. Len(writes) : (i + 1) .. Len(writes) \subseteq 1 .. Len(writes)
    BY LenProperties DEF TypeInv, Typed, TypeOK
  <2>3. QED
    BY <1>1, <1>6, <2>1, <2>2 DEF DurableInv, SnapshotsInOrder
<1>9. WrittenIsOnDisk'
  BY <1>1, <1>2, <1>4, <1>6 DEF DurableInv, WrittenIsOnDisk, IsOn
<1>10. Acknowledged'
  BY <1>1, <1>2 DEF DurableInv, Acknowledged
<1>11. QED
  BY <1>7, <1>8, <1>9, <1>10 DEF DurableInv

\* One call goes on, none of an enabled bit.
LEMMA OneAside ==
    ASSUME TypeInv, NEW k \in Calls, NEW c, call' = [call EXCEPT ![k] = c],
           call[k].pc \notin {"write", "written"} \/ call[k].op = "unquarantine",
           call[k].pc # "write", c.op \notin {"enable", "disable"}
    PROVE  \A j \in Calls : Aside(j)
<1>1. call'[k] = c /\ \A j \in Calls \ {k} : call'[j] = call[j]
  BY DEF TypeInv, Typed, TypeOK
<1>2. call[k].op \notin {"enable", "disable"}
  BY DEF TypeInv, Typed, CallsFit, CallFits
<1>3. QED
  BY <1>1, <1>2 DEF Aside

\* start() is no toggle, whichever operation it is part of.
LEMMA StartsAside ==
    ASSUME TypeInv, NEW k \in Calls, NEW s \in Registered, NEW c \in Call,
           c.op \notin {"enable", "disable"}, NEW fired \in BOOLEAN, Starts(k, s, c, fired),
           call[k].pc \notin {"write", "written"}
    PROVE  \A j \in Calls : Aside(j)
<1> DEFINE next == [c EXCEPT !.on = s,
                             !.pc = IF record[s].pending # None /\ Upcoming(s) \in Budgeted
                                    THEN "budget" ELSE "log",
                             !.args = IF record[s].pending # None /\ Upcoming(s) \in Budgeted
                                      THEN None ELSE Upcoming(s)]
<1>1. next.op = c.op
  BY DEF Call
<1> HIDE DEF next
<1>2. call' = [call EXCEPT ![k] = next]
  BY DEF Starts, Upcoming, next
<1>3. QED
  BY <1>1, <1>2, OneAside

\* A start that is over, or a loop that goes on, is no toggle.
LEMMA OverAside ==
    ASSUME TypeInv, NEW k \in Calls, Over(k), call[k].pc \notin {"write", "written"}
    PROVE  \A j \in Calls : Aside(j)
<1>1. /\ Idle.op = "none"
      /\ [Idle EXCEPT !.op = "boot", !.pc = "next", !.todo = call[k].todo].op = "boot"
  BY DEF Idle
<1>2. \A j \in Calls \ {k} : call'[j] = call[j]
  BY DEF Over, TypeInv, Typed, TypeOK
<1>3. call'[k] \in {Idle, [Idle EXCEPT !.op = "boot", !.pc = "next", !.todo = call[k].todo]}
  BY DEF Over, TypeInv, Typed, TypeOK
<1>4. call[k].op \notin {"enable", "disable"}
  BY DEF TypeInv, Typed, CallsFit, CallFits
<1>5. QED
  BY <1>1, <1>2, <1>3, <1>4 DEF Aside

\* Detaching a start is no toggle.
LEMMA DetachedAside ==
    ASSUME TypeInv, NEW c \in [Calls -> Call], NEW names, call' = Detached(c, names),
           \A j \in Calls : c[j] = call[j] \/ (c[j] = Idle /\ call[j].pc \notin {"write", "written"})
    PROVE  \A j \in Calls : Aside(j)
<1> SUFFICES ASSUME NEW j \in Calls PROVE Aside(j)
  OBVIOUS
<1> DEFINE d == record[c[j].on].config
<1>1. call'[j] = c[j] \/ (c[j].pc \in Spawning \cup {"settle"} /\ call'[j] = [c[j] EXCEPT !.own = d])
  BY DEF Detached
<1> HIDE DEF d
<1>2. [c[j] EXCEPT !.own = d].op = c[j].op
  BY DEF Call
<1>3. Idle.op = "none" /\ Idle.pc = "idle"
  BY DEF Idle
<1>4. call[j].pc \notin {"write", "written"} => call[j].op \notin {"enable", "disable"}
  BY DEF TypeInv, Typed, CallsFit, CallFits
<1>5. CASE c[j] = Idle
  BY <1>1, <1>3, <1>4, <1>5 DEF Spawning, Aside
<1>6. CASE c[j] # Idle
  BY <1>1, <1>2, <1>4, <1>6 DEF Spawning, Aside
<1>7. QED
  BY <1>5, <1>6

\* A snapshot that is queued is the last one, and the ones before it stay.
LEMMA Queued ==
    ASSUME TypeInv, NEW by \in Calls \cup {None}, NEW bits \in Bits, Save(by, bits)
    PROVE  /\ Len(writes) \in Nat /\ Len(writes') = Len(writes) + 1
           /\ \A i \in 1 .. Len(writes) : writes'[i] = writes[i]
           /\ writes'[Len(writes) + 1] = [by |-> by, bits |-> bits]
<1>1. writes \in Seq([by : Calls \cup {None}, bits : Bits])
  BY DEF TypeInv, Typed, TypeOK
<1>2. QED
  BY <1>1, AppendProperties, LenProperties DEF Save

\* A snapshot that is queued, by whoever, goes behind those it must not overtake.
LEMMA DurableSaved ==
    ASSUME TypeInv, DurableInv, Quiet, NEW by \in Calls \cup {None}, NEW bits \in Bits,
           Save(by, bits), daemon' = daemon,
           \A j \in Calls \ {by} : call'[j] = call[j],
           by # None => call[by] = Idle /\ call'[by].pc = "write",
           \A s \in Service :
              IF by # None /\ Toggling(by, s)'
              THEN promised'[s] = "open" /\ (s \in bits.enabled <=> call'[by].op = "enable")
              ELSE promised'[s] = promised[s] /\ (s \in bits.enabled <=> s \in mem.enabled)
    PROVE  DurableInv'
<1>0. PICK n \in Nat : n = Len(writes)
  BY WritersTyped
<1>1. /\ Len(writes') = n + 1
      /\ \A i \in 1 .. n : writes'[i] = writes[i]
      /\ writes'[n + 1] = [by |-> by, bits |-> bits]
      /\ mem' = bits /\ disk' = disk
  BY <1>0, Queued DEF Save
<1>2. \A i \in 1 .. n : writes[i].by # None => writes[i].by \in Calls /\ writes[i].by # by
  <2>1. Idle.pc = "idle"
    BY DEF Idle
  <2>2. \A i \in 1 .. n : writes[i].by # None =>
           writes[i].by \in Calls /\ call[writes[i].by].pc = "write"
    BY <1>0, WritersTyped DEF DurableInv, Waits
  <2>3. QED
    BY <2>1, <2>2
<1>3. \A j \in Calls : call[j].pc # "written" /\ call'[j].pc # "written"
  BY RegistryAssumption DEF Quiet, Ready
<1>4. \A i \in 1 .. n, s \in Service : Toggles(i, s)' <=> Toggles(i, s)
  BY <1>1, <1>2 DEF Toggles, Toggling
<1>5. \A s \in Service : Toggles(n + 1, s)' <=> by # None /\ Toggling(by, s)'
  BY <1>1 DEF Toggles
<1>6. Waits'
  <2>1. ASSUME NEW i \in 1 .. (n + 1), writes'[i].by # None
        PROVE  /\ call'[writes'[i].by].pc = "write"
               /\ \A j \in 1 .. (n + 1) : writes'[j].by = writes'[i].by => j = i
    <3>1. CASE i \in 1 .. n
      BY <1>0, <1>1, <1>2, <2>1, <3>1 DEF DurableInv, Waits
    <3>2. CASE i = n + 1
      BY <1>1, <1>2, <2>1, <3>2
    <3>3. QED
      BY <1>1, <3>1, <3>2
  <2>2. QED
    BY <1>1, <2>1 DEF Waits
<1>7. SnapshotsInOrder'
  <2>1. ASSUME NEW s \in Service, NEW i \in 1 .. (n + 1)
        PROVE  /\ Toggles(i, s)' => (s \in writes'[i].bits.enabled <=> IsOn(writes[i].by)')
               /\ (\A j \in (i + 1) .. (n + 1) : ~Toggles(j, s)') =>
                     (s \in writes'[i].bits.enabled <=> s \in mem'.enabled)
    <3>1. CASE i \in 1 .. n
      <4>1. Toggles(i, s)' => (s \in writes'[i].bits.enabled <=> IsOn(writes[i].by)')
        <5>1. Toggles(i, s) => writes[i].by \in Calls \ {by}
          BY <1>2, <3>1 DEF Toggles
        <5>2. QED
          BY <1>0, <1>1, <1>4, <3>1, <5>1 DEF DurableInv, SnapshotsInOrder, IsOn
      <4>2. ASSUME \A j \in (i + 1) .. (n + 1) : ~Toggles(j, s)'
            PROVE  s \in writes'[i].bits.enabled <=> s \in mem'.enabled
        <5>1. ~Toggles(n + 1, s)' /\ \A j \in (i + 1) .. n : ~Toggles(j, s)
          BY <1>1, <1>4, <3>1, <4>2
        <5>2. s \in writes[i].bits.enabled <=> s \in mem.enabled
          BY <1>0, <3>1, <5>1 DEF DurableInv, SnapshotsInOrder
        <5>3. s \in bits.enabled <=> s \in mem.enabled
          BY <1>5, <5>1
        <5>4. QED
          BY <1>1, <3>1, <5>2, <5>3
      <4>3. QED
        BY <4>1, <4>2
    <3>2. CASE i = n + 1
      BY <1>1, <1>5, <3>2 DEF IsOn
    <3>3. QED
      BY <1>1, <3>1, <3>2
  <2>2. QED
    BY <1>1, <2>1 DEF SnapshotsInOrder
<1>8. WrittenIsOnDisk'
  BY <1>3 DEF WrittenIsOnDisk
<1>9. Acknowledged'
  <2>1. ASSUME NEW s \in Service, promised'[s] # "open"
        PROVE  /\ \A k \in Calls : ~Toggling(k, s)'
               /\ s \in disk.enabled <=> promised'[s] = "yes"
               /\ daemon' = "up" => (s \in bits.enabled <=> promised'[s] = "yes")
    BY <2>1, RegistryAssumption DEF DurableInv, Acknowledged, Toggling
  <2>2. QED
    BY <1>1, <2>1 DEF Acknowledged
<1>10. QED
  BY <1>6, <1>7, <1>8, <1>9 DEF DurableInv

\* The oldest snapshot leaves the queue, and the others move up.
LEMMA Dequeued ==
    ASSUME TypeInv, writes # <<>>, writes' = Tail(writes)
    PROVE  /\ Len(writes) \in Nat \ {0} /\ Len(writes') = Len(writes) - 1
           /\ \A i \in 1 .. Len(writes') : writes'[i] = writes[i + 1]
           /\ Head(writes) = writes[1]
           /\ \A i \in 1 .. Len(writes) : writes[i].by # None => writes[i].by \in Calls
<1>1. writes \in Seq([by : Calls \cup {None}, bits : Bits])
  BY DEF TypeInv, Typed, TypeOK
<1>2. QED
  BY <1>1, HeadTailProperties, EmptySeq, LenProperties, WritersTyped

\* A snapshot that is put in place, or whose write fails, leaves the order of the others.
LEMMA DurableWritten ==
    ASSUME TypeInv, DurableInv, WriteEnds \/ WriteFails
    PROVE  DurableInv'
<1>a. PICK w : w = writes[1]
  OBVIOUS
<1>0. PICK n \in Nat : n = Len(writes) /\ w = writes[1]
  BY <1>a, WritersTyped
<1>1. /\ n \in Nat \ {0} /\ Len(writes') = n - 1 /\ w = Head(writes)
      /\ \A i \in 1 .. (n - 1) : writes'[i] = writes[i + 1]
      /\ \A i \in 1 .. n : writes[i].by # None => writes[i].by \in Calls
  BY <1>0, Dequeued DEF WriteEnds, WriteFails
<1>2. /\ mem' = mem /\ promised' = promised /\ daemon' = daemon /\ daemon = "up"
      /\ \A j \in Calls : call[j].pc # "written"
  BY DEF WriteEnds, WriteFails, history, power, Quiet, Ready
<1>3. \A j \in Calls : j # w.by => call'[j] = call[j]
  BY <1>1 DEF WriteEnds, WriteFails
<1>4. \A i \in 1 .. (n - 1) : writes'[i].by # None => writes'[i].by \in Calls \ {w.by}
  BY <1>0, <1>1 DEF DurableInv, Waits
<1>5. \A i \in 1 .. (n - 1), s \in Service : Toggles(i, s)' <=> Toggles(i + 1, s)
  BY <1>1, <1>3, <1>4 DEF Toggles, Toggling
<1>6. Waits'
  <2>1. ASSUME NEW i \in 1 .. (n - 1), writes'[i].by # None
        PROVE  /\ call'[writes'[i].by].pc = "write"
               /\ \A j \in 1 .. (n - 1) : writes'[j].by = writes'[i].by => j = i
    <3>1. i + 1 \in 1 .. n /\ writes'[i] = writes[i + 1]
      BY <1>1
    <3>2. call[writes[i + 1].by].pc = "write"
      BY <1>0, <2>1, <3>1 DEF DurableInv, Waits
    <3>3. ASSUME NEW j \in 1 .. (n - 1), writes'[j].by = writes'[i].by
          PROVE  j = i
      <4>1. j + 1 \in 1 .. n /\ writes'[j] = writes[j + 1]
        BY <1>1
      <4>2. j + 1 = i + 1
        BY <1>0, <2>1, <3>1, <3>3, <4>1 DEF DurableInv, Waits
      <4>3. QED
        BY <4>2
    <3>4. QED
      BY <1>3, <1>4, <2>1, <3>1, <3>2, <3>3
  <2>2. QED
    BY <1>1, <2>1 DEF Waits
<1>7. SnapshotsInOrder'
  <2>1. ASSUME NEW s \in Service, NEW i \in 1 .. (n - 1)
        PROVE  /\ Toggles(i, s)' => (s \in writes'[i].bits.enabled <=> IsOn(writes[i].by)')
               /\ (\A j \in (i + 1) .. (n - 1) : ~Toggles(j, s)') =>
                     (s \in writes'[i].bits.enabled <=> s \in mem'.enabled)
    <3>1. i + 1 \in 1 .. n /\ writes'[i] = writes[i + 1]
      BY <1>1
    <3>2. Toggles(i, s)' => (s \in writes'[i].bits.enabled <=> IsOn(writes[i].by)')
      <4>1. Toggles(i, s)' => call'[writes'[i].by] = call[writes'[i].by]
        BY <1>3, <1>4 DEF Toggles
      <4>2. QED
        BY <1>0, <1>5, <3>1, <4>1 DEF DurableInv, SnapshotsInOrder, IsOn
    <3>3. ASSUME \A j \in (i + 1) .. (n - 1) : ~Toggles(j, s)'
          PROVE  s \in writes'[i].bits.enabled <=> s \in mem'.enabled
      <4>1. ASSUME NEW j \in (i + 2) .. n PROVE ~Toggles(j, s)
        <5>1. j - 1 \in (i + 1) .. (n - 1) /\ j - 1 \in 1 .. (n - 1) /\ (j - 1) + 1 = j
          BY <1>1
        <5>2. QED
          BY <1>5, <3>3, <5>1
      <4>2. \A j \in ((i + 1) + 1) .. n : ~Toggles(j, s)
        BY <4>1
      <4>3. QED
        BY <1>0, <1>2, <3>1, <4>2 DEF DurableInv, SnapshotsInOrder
    <3>4. QED
      BY <3>2, <3>3
  <2>2. QED
    BY <1>1, <2>1 DEF SnapshotsInOrder
<1>8. \A s \in Service : (\A j \in 1 .. (n - 1) : ~Toggles(j, s)') =>
         (s \in w.bits.enabled <=> s \in mem.enabled)
  <2>1. ASSUME NEW s \in Service, \A j \in 1 .. (n - 1) : ~Toggles(j, s)'
        PROVE  s \in w.bits.enabled <=> s \in mem.enabled
    <3>1. ASSUME NEW j \in 2 .. n PROVE ~Toggles(j, s)
      <4>1. j - 1 \in 1 .. (n - 1) /\ (j - 1) + 1 = j
        BY <1>1
      <4>2. QED
        BY <1>5, <2>1, <4>1
    <3>2. 1 \in 1 .. n /\ \A j \in (1 + 1) .. n : ~Toggles(j, s)
      BY <1>1, <3>1
    <3>3. QED
      BY <1>0, <3>2 DEF DurableInv, SnapshotsInOrder
  <2>2. QED
    BY <2>1
<1>9. \A k \in Calls : call'[k].pc = "written" => /\ WriteEnds /\ k = w.by
                                               /\ call'[k] = [call[k] EXCEPT !.pc = "written"]
  <2>1. Idle.pc = "idle"
    BY DEF Idle
  <2>2. CASE WriteEnds
    BY <1>1, <1>2, <2>2 DEF WriteEnds
  <2>3. CASE WriteFails
    BY <1>1, <1>2, <2>1, <2>3 DEF WriteFails
  <2>4. QED
    BY <2>2, <2>3
<1>10. WrittenIsOnDisk'
  <2>1. ASSUME NEW s \in Service, NEW k \in Calls, Toggling(k, s)', call'[k].pc = "written"
        PROVE  /\ s \in disk'.enabled <=> IsOn(k)'
               /\ (\A i \in 1 .. (n - 1) : ~Toggles(i, s)') =>
                     (s \in disk'.enabled <=> s \in mem'.enabled)
    <3>1. WriteEnds /\ k = w.by /\ call'[k] = [call[k] EXCEPT !.pc = "written"]
      BY <1>9, <2>1
    <3>2. call'[k].op = call[k].op /\ call'[k].on = call[k].on
      BY <3>1 DEF TypeInv, Typed, TypeOK, Call
    <3>3. w.by # None
      BY <3>1, RegistryAssumption
    <3>4. disk' = w.bits /\ 1 \in 1 .. n /\ Toggles(1, s)
      BY <1>0, <1>1, <2>1, <3>1, <3>2, <3>3 DEF WriteEnds, Toggles, Toggling
    <3>5. s \in w.bits.enabled <=> IsOn(k)
      BY <1>0, <3>1, <3>4 DEF DurableInv, SnapshotsInOrder
    <3>6. QED
      BY <1>2, <1>8, <3>2, <3>4, <3>5 DEF IsOn
  <2>2. QED
    BY <1>1, <2>1 DEF WrittenIsOnDisk
<1>11. Acknowledged'
  <2>1. ASSUME NEW s \in Service, promised[s] # "open"
        PROVE  /\ \A k \in Calls : ~Toggling(k, s)'
               /\ s \in disk'.enabled <=> promised[s] = "yes"
               /\ s \in mem.enabled <=> promised[s] = "yes"
    <3>1. /\ \A k \in Calls : ~Toggling(k, s)
          /\ s \in disk.enabled <=> promised[s] = "yes"
          /\ s \in mem.enabled <=> promised[s] = "yes"
      BY <1>2, <2>1 DEF DurableInv, Acknowledged
    <3>2. ASSUME NEW k \in Calls PROVE ~Toggling(k, s)'
      <4>1. Idle.op = "none"
        BY DEF Idle
      <4>2. \/ call'[k] = call[k] \/ call'[k] = Idle
            \/ call'[k] = [call[k] EXCEPT !.pc = "written"]
        BY DEF WriteEnds, WriteFails
      <4>3. [call[k] EXCEPT !.pc = "written"].op = call[k].op
            /\ [call[k] EXCEPT !.pc = "written"].on = call[k].on
        BY DEF TypeInv, Typed, TypeOK, Call
      <4>4. QED
        BY <3>1, <4>1, <4>2, <4>3 DEF Toggling
    <3>3. s \in w.bits.enabled <=> s \in mem.enabled
      <4>1. \A j \in 1 .. (n - 1) : ~Toggles(j, s)'
        BY <1>4, <3>2 DEF Toggles
      <4>2. QED
        BY <1>8, <4>1
    <3>4. disk' = disk \/ disk' = w.bits
      BY <1>1 DEF WriteEnds, WriteFails
    <3>5. QED
      BY <3>1, <3>2, <3>3, <3>4
  <2>2. QED
    BY <1>2, <2>1 DEF Acknowledged
<1>12. QED
  BY <1>6, <1>7, <1>10, <1>11 DEF DurableInv

\* An `enable` or `disable` that is queued.
LEMMA DurableEnable ==
    ASSUME TypeInv, DurableInv, NEW k \in Calls, NEW s \in Service, NEW bit \in BOOLEAN,
           Enable(k, s, bit)
    PROVE  DurableInv'
<1> DEFINE c == [Idle EXCEPT !.op = IF bit THEN "enable" ELSE "disable", !.pc = "write", !.on = s]
<1>1. c.op = (IF bit THEN "enable" ELSE "disable") /\ c.pc = "write" /\ c.on = s
  BY DEF Idle
<1>2. call' = [call EXCEPT ![k] = c]
  BY DEF Enable
<1> HIDE DEF c
<1>3. call'[k] = c /\ \A j \in Calls \ {k} : call'[j] = call[j]
  BY <1>2 DEF TypeInv, Typed, TypeOK
<1>4. Quiet /\ call[k] = Idle /\ daemon' = daemon
  BY DEF Enable, Free, power
<1>5. Save(k, WithEnabled(s, bit)) /\ WithEnabled(s, bit) \in Bits
  BY NewBits DEF Enable, TypeInv
<1>6. \A n \in Service : Toggling(k, n)' <=> n = s
  BY <1>1, <1>3 DEF Toggling
<1>7. k # None
  BY RegistryAssumption
<1>8. /\ s \in WithEnabled(s, bit).enabled <=> call'[k].op = "enable"
      /\ \A n \in Service \ {s} : n \in WithEnabled(s, bit).enabled <=> n \in mem.enabled
  BY <1>1, <1>3 DEF WithEnabled, TypeInv, Typed, TypeOK, Bits
<1>9. promised'[s] = "open" /\ \A n \in Service \ {s} : promised'[n] = promised[n]
  BY DEF Enable, TypeInv, Typed, TypeOK
<1>10. QED
  BY <1>1, <1>3, <1>4, <1>5, <1>6, <1>7, <1>8, <1>9, DurableSaved

\* A quarantine that is set or cleared leaves the enabled bits.
LEMMA DurableQuarantine ==
    ASSUME TypeInv, DurableInv, NEW s \in Service,
           ExitQuarantines(s) \/ \E k \in Calls : Unquarantine(k, s)
    PROVE  DurableInv'
<1>1. \A held \in BOOLEAN : /\ WithQuarantined(s, held) \in Bits
                            /\ WithQuarantined(s, held).enabled = mem.enabled
  BY NewBits DEF WithQuarantined, TypeInv, Typed, TypeOK, Bits
<1>2. CASE ExitQuarantines(s)
  <2>1. Quiet /\ Save(None, WithQuarantined(s, TRUE)) /\ call' = call /\ daemon' = daemon
        /\ promised' = promised
    BY <1>2 DEF ExitQuarantines, Leaves, power
  <2>2. QED
    BY <1>1, <2>1, DurableSaved
<1>3. ASSUME NEW k \in Calls, Unquarantine(k, s)
      PROVE  DurableInv'
  <2> DEFINE c == [Idle EXCEPT !.op = "unquarantine", !.pc = "write", !.on = s]
  <2>1. c.op = "unquarantine" /\ c.pc = "write"
    BY DEF Idle
  <2>2. call' = [call EXCEPT ![k] = c]
    BY <1>3 DEF Unquarantine
  <2> HIDE DEF c
  <2>3. call'[k] = c /\ \A j \in Calls \ {k} : call'[j] = call[j]
    BY <2>2 DEF TypeInv, Typed, TypeOK
  <2>4. Quiet /\ call[k] = Idle /\ daemon' = daemon /\ promised' = promised
        /\ Save(k, WithQuarantined(s, FALSE))
    BY <1>3 DEF Unquarantine, Free, power, history
  <2>5. \A n \in Service : ~Toggling(k, n)'
    BY <2>1, <2>3 DEF Toggling
  <2>6. QED
    BY <1>1, <2>1, <2>3, <2>4, <2>5, DurableSaved
<1>4. QED
  BY <1>2, <1>3

\* An `enable` or `disable` that is answered.
LEMMA DurableAnswered ==
    ASSUME TypeInv, DurableInv, NEW k \in Calls, EnableReturns(k)
    PROVE  DurableInv'
<1>0. PICK s \in Service : s = call[k].on
  BY DEF EnableReturns, Toggling, TypeInv, Typed, CallsFit, CallFits
<1>1. /\ UNCHANGED <<mem, disk, writes, daemon>> /\ call[k].pc = "written" /\ Toggling(k, s)
      /\ promised' = IF \E j \in Calls \ {k} : Toggling(j, s) THEN promised
                     ELSE [promised EXCEPT ![s] = IF call[k].op = "enable" THEN "yes" ELSE "no"]
  BY <1>0 DEF EnableReturns, store, power
<1>2. call'[k] = Idle /\ \A j \in Calls \ {k} : call'[j] = call[j]
  BY DEF EnableReturns, TypeInv, Typed, TypeOK
<1>3. Idle.op = "none" /\ Idle.pc = "idle"
  BY DEF Idle
<1>4. \A n \in Service : /\ ~Toggling(k, n)'
                         /\ \A j \in Calls \ {k} : Toggling(j, n)' <=> Toggling(j, n)
  BY <1>2, <1>3 DEF Toggling
<1>5. PICK m \in Nat : m = Len(writes)
  BY WritersTyped
<1>6. \A i \in 1 .. m : writes[i].by # None => writes[i].by \in Calls \ {k}
  BY <1>1, <1>5, WritersTyped DEF DurableInv, Waits
<1>7. \A i \in 1 .. m, n \in Service : Toggles(i, n)' <=> Toggles(i, n)
  BY <1>1, <1>4, <1>6 DEF Toggles
<1>8. Waits'
  BY <1>1, <1>2, <1>5, <1>6 DEF DurableInv, Waits
<1>9. SnapshotsInOrder'
  <2>1. \A i \in 1 .. m, n \in Service : Toggles(i, n) => (IsOn(writes[i].by)' <=> IsOn(writes[i].by))
    BY <1>1, <1>2, <1>6 DEF Toggles, IsOn
  <2>2. \A i \in 1 .. m : (i + 1) .. m \subseteq 1 .. m
    OBVIOUS
  <2>3. QED
    BY <1>1, <1>5, <1>7, <2>1, <2>2 DEF DurableInv, SnapshotsInOrder
<1>10. WrittenIsOnDisk'
  BY <1>1, <1>2, <1>3, <1>4, <1>5, <1>7 DEF DurableInv, WrittenIsOnDisk, IsOn
<1>11. Acknowledged'
  <2>1. ASSUME NEW n \in Service, n # s
        PROVE  promised'[n] = promised[n] /\ \A j \in Calls : Toggling(j, n)' => Toggling(j, n)
    BY <1>1, <1>4, <2>1 DEF TypeInv, Typed, TypeOK
  <2>2. CASE \E j \in Calls \ {k} : Toggling(j, s)
    <3>1. promised'[s] = "open"
      BY <1>1, <2>2 DEF DurableInv, Acknowledged
    <3>2. QED
      BY <1>1, <2>1, <3>1 DEF DurableInv, Acknowledged
  <2>3. CASE ~\E j \in Calls \ {k} : Toggling(j, s)
    <3>1. promised'[s] = IF call[k].op = "enable" THEN "yes" ELSE "no"
      BY <1>1, <2>3 DEF TypeInv, Typed, TypeOK
    <3>2. \A j \in Calls : ~Toggling(j, s)'
      BY <1>4, <2>3
    <3>3. \A i \in 1 .. m : ~Toggles(i, s)
      BY <1>6, <2>3 DEF Toggles
    <3>4. /\ s \in disk.enabled <=> call[k].op = "enable"
          /\ s \in disk.enabled <=> s \in mem.enabled
      BY <1>1, <1>5, <3>3 DEF DurableInv, WrittenIsOnDisk, IsOn
    <3>5. QED
      BY <1>1, <2>1, <3>1, <3>2, <3>4 DEF DurableInv, Acknowledged
  <2>4. QED
    BY <2>2, <2>3
<1>12. QED
  BY <1>8, <1>9, <1>10, <1>11 DEF DurableInv

\* A crash leaves what is on disk; the next boot reads it.
LEMMA DurableAcrossCrash ==
    ASSUME TypeInv, DurableInv, Crash \/ \E k \in Calls : Boot(k)
    PROVE  DurableInv'
<1>1. Idle.op = "none" /\ Idle.pc = "idle"
  BY DEF Idle
<1>2. writes' = <<>> /\ Len(writes') = 0 /\ disk' = disk
  BY EmptySeq DEF TypeInv, DownIsEmpty, Crash, Off, Boot
<1>3. \A j \in Calls : call'[j].op \notin {"enable", "disable"}
  <2>1. CASE Crash
    BY <1>1, <2>1 DEF Crash, Off
  <2>2. ASSUME NEW k \in Calls, Boot(k)
        PROVE  \A j \in Calls : call'[j].op \notin {"enable", "disable"}
    <3>1. [Idle EXCEPT !.op = "boot", !.pc = "next", !.todo = disk.enabled].op = "boot"
      BY DEF Idle
    <3>2. QED
      BY <1>1, <2>2, <3>1 DEF Boot, TypeInv, DownIsEmpty, Typed, TypeOK
  <2>3. QED
    BY <2>1, <2>2
<1>4. Waits' /\ SnapshotsInOrder'
  BY <1>2 DEF Waits, SnapshotsInOrder
<1>5. WrittenIsOnDisk'
  BY <1>3 DEF WrittenIsOnDisk, Toggling
<1>6. Acknowledged'
  <2>1. CASE Crash
    BY <1>2, <1>3, <2>1 DEF Crash, DurableInv, Acknowledged, Toggling
  <2>2. CASE \E k \in Calls : Boot(k)
    BY <1>2, <1>3, <2>2 DEF Boot, Acknowledged, Toggling
  <2>3. QED
    BY <2>1, <2>2
<1>7. QED
  BY <1>4, <1>5, <1>6 DEF DurableInv

\* The steps of a call that leave the store alone.
LEMMA DurableCallSteps ==
    ASSUME TypeInv, DurableInv, NEW k \in Calls,
           \/ UnquarantineReturns(k) \/ StoreOpens(k) \/ StoreFails(k) \/ Spawns(k) \/ Settles(k)
           \/ RestartContinues(k) \/ Reload(k) \/ WireOpens(k) \/ WireFails(k)
           \/ ReloadReturns(k) \/ BootReturns(k)
    PROVE  DurableInv'
<1>1. UNCHANGED <<store, promised, daemon>>
  BY DEF UnquarantineReturns, StoreOpens, StoreFails, Spawns, Settles, RestartContinues, Reload,
     WireOpens, WireFails, ReloadReturns, BootReturns, history, power
<1>2. SUFFICES \A j \in Calls : Aside(j)
  BY <1>1, DurableKept
<1>3. Idle.op = "none"
  BY DEF Idle
<1>4. call[k] \in Call
  BY DEF TypeInv, Typed, TypeOK
<1>5. CASE UnquarantineReturns(k) \/ BootReturns(k) \/ WireFails(k)
  BY <1>3, <1>5, OneAside DEF UnquarantineReturns, BootReturns, WireFails
<1>6. CASE StoreOpens(k)
  <2>1. [call[k] EXCEPT !.pc = "log", !.args = Held(k)].op = call[k].op
    BY <1>4 DEF Call
  <2>2. call[k].op \notin {"enable", "disable"}
    BY <1>6 DEF StoreOpens, TypeInv, Typed, CallsFit, CallFits
  <2>3. call' = [call EXCEPT ![k] = [call[k] EXCEPT !.pc = "log", !.args = Held(k)]]
    BY <1>6 DEF StoreOpens
  <2>4. QED
    BY <1>6, <2>1, <2>2, <2>3, OneAside DEF StoreOpens
<1>7. CASE StoreFails(k) \/ Settles(k)
  BY <1>7, OverAside DEF StoreFails, Settles
<1>8. CASE Spawns(k)
  <2>1. [call[k] EXCEPT !.pc = "settle", !.args = None].op = call[k].op
    BY <1>4 DEF Call
  <2>2. call[k].op \notin {"enable", "disable"}
    BY <1>8 DEF Spawns, TypeInv, Typed, CallsFit, CallFits
  <2>3. call' = [call EXCEPT ![k] = [call[k] EXCEPT !.pc = "settle", !.args = None]]
    BY <1>8 DEF Spawns
  <2>4. QED
    BY <1>8, <2>1, <2>2, <2>3, OneAside DEF Spawns
<1>9. CASE RestartContinues(k)
  <2>1. CASE CanStart(call[k].on)
    <3>1. [Idle EXCEPT !.op = "start"] \in Call /\ [Idle EXCEPT !.op = "start"].op = "start"
      BY DEF Idle, Call
    <3>2. QED
      BY <1>9, <2>1, <3>1, StartsAside DEF RestartContinues, CanStart
  <2>2. CASE ~CanStart(call[k].on)
    BY <1>3, <1>9, <2>2, OneAside DEF RestartContinues
  <2>3. QED
    BY <2>1, <2>2
<1>10. CASE Reload(k)
  <2> DEFINE names == {n \in Service : files[n] # None}
             c == [Idle EXCEPT !.op = "reload", !.todo = names,
                               !.pc = IF names = {} THEN "reconcile" ELSE "load"]
  <2>1. c.op = "reload" /\ Idle.pc = "idle"
    BY DEF Idle
  <2>2. call' = [call EXCEPT ![k] = c] /\ call[k] = Idle
    BY <1>10 DEF Reload, Free
  <2> HIDE DEF c
  <2>3. QED
    BY <2>1, <2>2, OneAside
<1>11. CASE WireOpens(k)
  <2>1. [call[k] EXCEPT !.pc = "reconcile", !.on = None].op = call[k].op
    BY <1>4 DEF Call
  <2>2. call[k].op \notin {"enable", "disable"}
    BY <1>11 DEF WireOpens, TypeInv, Typed, CallsFit, CallFits
  <2>3. call' = [call EXCEPT ![k] = [call[k] EXCEPT !.pc = "reconcile", !.on = None]]
    BY <1>11 DEF WireOpens
  <2>4. QED
    BY <1>11, <2>1, <2>2, <2>3, OneAside DEF WireOpens
<1>12. CASE ReloadReturns(k)
  <2>1. call[k].pc = "reconcile" /\ call' = Detached([call EXCEPT ![k] = Idle], Dropped(k))
    BY <1>12, Removals DEF ReloadReturns, TypeInv
  <2> DEFINE c == [call EXCEPT ![k] = Idle]
  <2>2. /\ c \in [Calls -> Call] /\ c[k] = Idle
        /\ \A j \in Calls \ {k} : c[j] = call[j]
    BY IdleTyped DEF TypeInv, Typed, TypeOK
  <2> HIDE DEF c
  <2>3. call' = Detached(c, Dropped(k))
    BY <2>1 DEF c
  <2>4. QED
    BY <2>1, <2>2, <2>3, DetachedAside
<1>13. QED
  BY <1>5, <1>6, <1>7, <1>8, <1>9, <1>10, <1>11, <1>12

\* The steps of a call on a service that leave the store alone.
LEMMA DurableServiceCalls ==
    ASSUME TypeInv, DurableInv, NEW k \in Calls, NEW s \in Service,
           \/ Start(k, s) \/ Restart(k, s) \/ Relaunch(k, s) \/ Poll(k, s) \/ Reads(k, s)
           \/ Adds(k, s) \/ Keeps(k, s) \/ Stages(k, s) \/ Updates(k, s)
           \/ BootStarts(k, s) \/ BootSkips(k, s)
    PROVE  DurableInv'
<1>1. UNCHANGED <<store, promised, daemon>>
  BY DEF Start, Restart, Relaunch, Poll, Reads, Adds, Keeps, Stages, Updates, Visits, BootStarts,
     BootSkips, history, power
<1>2. SUFFICES \A j \in Calls : Aside(j)
  BY <1>1, DurableKept
<1>3. Idle.pc = "idle" /\ Idle.op = "none"
  BY DEF Idle
<1>4. call[k] \in Call
  BY DEF TypeInv, Typed, TypeOK
<1>5. CASE Start(k, s) \/ Relaunch(k, s)
  <2>1. [Idle EXCEPT !.op = "start"] \in Call /\ [Idle EXCEPT !.op = "start"].op = "start"
    BY DEF Idle, Call
  <2>2. QED
    BY <1>3, <1>5, <2>1, StartsAside DEF Start, Relaunch, CanStart, Free
<1>6. CASE Poll(k, s)
  <2>1. [Idle EXCEPT !.op = "job"] \in Call /\ [Idle EXCEPT !.op = "job"].op = "job"
    BY DEF Idle, Call
  <2>2. CASE Fires(s) /\ CanStart(s)
    BY <1>3, <1>6, <2>1, <2>2, StartsAside DEF Poll, CanStart, Free
  <2>3. CASE ~(Fires(s) /\ CanStart(s))
    BY <1>6, <2>3 DEF Poll, Aside
  <2>4. QED
    BY <2>2, <2>3
<1>7. CASE BootStarts(k, s)
  <2>1. call[k].op \notin {"enable", "disable"}
    BY <1>7 DEF BootStarts, TypeInv, Typed, CallsFit, CallFits
  <2> DEFINE c == [call[k] EXCEPT !.todo = @ \ {s}]
  <2>2. c \in Call /\ c.op = call[k].op
    BY <1>4 DEF Call
  <2> HIDE DEF c
  <2>3. Starts(k, s, c, FALSE)
    BY <1>7 DEF BootStarts, c
  <2>4. QED
    BY <1>7, <2>1, <2>2, <2>3, StartsAside DEF BootStarts, BootWants, CanStart
<1>8. CASE Restart(k, s)
  <2> DEFINE c == [Idle EXCEPT !.op = "restart", !.pc = "stopping", !.on = s]
  <2>1. c.op = "restart"
    BY DEF Idle
  <2>2. call' = [call EXCEPT ![k] = c] /\ call[k] = Idle
    BY <1>8 DEF Restart, Free
  <2> HIDE DEF c
  <2>3. QED
    BY <1>3, <2>1, <2>2, OneAside
<1>9. ASSUME NEW c, call' = [call EXCEPT ![k] = c], c.op = call[k].op,
             call[k].pc \in {"load", "reconcile", "next"}
      PROVE  \A j \in Calls : Aside(j)
  BY <1>9, OneAside DEF TypeInv, Typed, CallsFit, CallFits
<1>10. CASE Reads(k, s)
  <2> DEFINE found == [call[k].load EXCEPT ![s] = IF files[s] = Broken THEN None ELSE files[s]]
             rest  == call[k].todo \ {s}
             c == [call[k] EXCEPT
                     !.load = found,
                     !.todo = IF rest = {} THEN {n \in Service : found[n] # None} ELSE rest,
                     !.pc = IF rest = {} THEN "reconcile" ELSE "load"]
  <2>1. call' = [call EXCEPT ![k] = c]
    BY <1>10 DEF Reads
  <2> HIDE DEF found, rest
  <2>2. c.op = call[k].op
    BY <1>4 DEF Call
  <2> HIDE DEF c
  <2>3. QED
    BY <1>9, <1>10, <2>1, <2>2 DEF Reads
<1>11. CASE Adds(k, s) \/ Updates(k, s)
  <2> DEFINE d == call[k].load[s]
             c == [call[k] EXCEPT !.todo = @ \ {s}, !.pc = IF d \in Budgeted THEN "wire" ELSE @,
                                  !.on = IF d \in Budgeted THEN s ELSE @]
  <2>1. call' = [call EXCEPT ![k] = c]
    BY <1>11 DEF Adds, Updates, Wires
  <2>2. c.op = call[k].op
    BY <1>4 DEF Call
  <2> HIDE DEF c
  <2>3. QED
    BY <1>9, <1>11, <2>1, <2>2 DEF Adds, Updates, Visits
<1>12. CASE Keeps(k, s) \/ Stages(k, s) \/ BootSkips(k, s)
  <2>1. \A t : [call[k] EXCEPT !.todo = t].op = call[k].op
    BY <1>4 DEF Call
  <2>2. \E t : call' = [call EXCEPT ![k] = [call[k] EXCEPT !.todo = t]]
    BY <1>12 DEF Keeps, Stages, BootSkips, Advances
  <2>3. QED
    BY <1>9, <1>12, <2>1, <2>2 DEF Keeps, Stages, BootSkips, Visits
<1>13. QED
  BY <1>5, <1>6, <1>7, <1>8, <1>10, <1>11, <1>12

\* The steps of a service that leave the store alone.
LEMMA DurableServiceSteps ==
    ASSUME TypeInv, DurableInv, NEW s \in Service, NEW relaunch \in BOOLEAN, NEW giveUp \in BOOLEAN,
           \/ Stop(s) \/ RelaunchRefused(s) \/ Edit(s) \/ ExitDeregisters(s) \/ ExitOfUnknown(s)
           \/ ExitRests(s) \/ ExitRelaunches(s, relaunch, giveUp)
    PROVE  DurableInv'
<1>1. UNCHANGED <<store, promised, daemon>>
  BY DEF Stop, RelaunchRefused, Edit, ExitDeregisters, ExitOfUnknown, ExitRests, ExitRelaunches,
     Leaves, history, power, store
<1>2. SUFFICES \A j \in Calls : Aside(j)
  BY <1>1, DurableKept
<1>3. CASE ExitDeregisters(s)
  <2>1. call \in [Calls -> Call] /\ call' = Detached(call, {s})
    BY <1>3 DEF ExitDeregisters, TypeInv, Typed, TypeOK
  <2>2. QED
    BY <2>1, DetachedAside
<1>4. CASE ~ExitDeregisters(s)
  BY <1>4 DEF Stop, RelaunchRefused, Edit, ExitOfUnknown, ExitRests, ExitRelaunches, Aside
<1>5. QED
  BY <1>3, <1>4

\* Snapshots are queued in the order of the changes, each with the bits of memory at that time.
THEOREM DurableInvariant == Spec => []DurableInv
<1>1. Init => DurableInv
  <2>1. Idle.op = "none"
    BY DEF Idle
  <2>2. ASSUME Init PROVE DurableInv
    <3>1. writes = <<>> /\ Len(writes) = 0 /\ \A k \in Calls : call[k].op = "none"
      BY <2>1, <2>2, EmptySeq DEF Init
    <3>2. QED
      BY <2>2, <3>1 DEF Init, DurableInv, Waits, SnapshotsInOrder, WrittenIsOnDisk, Acknowledged,
         Toggling
  <2>3. QED
    BY <2>2
<1>2. ASSUME TypeInv, DurableInv, [Next]_vars PROVE DurableInv'
  <2>1. CASE UNCHANGED vars \/ \E p \in Path, e \in Entry : Touch(p, e)
    BY <1>2, <2>1, DurableKept DEF vars, store, history, power, Touch, Aside
  <2>2. ASSUME NEW k \in Calls, CallSteps(k) PROVE DurableInv'
    BY <1>2, <2>2, DurableCallSteps, DurableServiceCalls, DurableEnable, DurableQuarantine,
       DurableAnswered, DurableAcrossCrash DEF CallSteps
  <2>3. ASSUME NEW s \in Service, ServiceSteps(s) PROVE DurableInv'
    BY <1>2, <2>3, DurableServiceSteps, DurableQuarantine DEF ServiceSteps
  <2>4. QED
    BY <1>2, <2>1, <2>2, <2>3, DurableWritten, DurableAcrossCrash DEF Next
<1>3. QED
  BY <1>1, <1>2, TypeCorrect, PTL DEF Spec

\* store.ts persist(): an `enable` or `disable` that was acknowledged, and that no later one may
\* have undone, is on disk, for any number of concurrent requests, failing writes and crashes.
THEOREM DurabilityTheorem == Spec => []AcknowledgedIsDurable
<1>1. DurableInv => AcknowledgedIsDurable
  BY DEF DurableInv, Acknowledged, AcknowledgedIsDurable
<1>2. QED
  BY <1>1, DurableInvariant, PTL
===============================================================================
