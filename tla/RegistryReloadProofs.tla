------------------------- MODULE RegistryReloadProofs -------------------------
(***************************************************************************)
(* Theorems about Registry, beside those of RegistryLifeProofs: what a     *)
(* reload leaves behind.  Every budget is wired before the service runs on *)
(* it, and the next start of every service uses its file.                  *)
(***************************************************************************)
EXTENDS RegistryLifeProofs

-----------------------------------------------------------------------------
(* The inductive invariants. *)

\* One reload at a time.
OneReload ==
    \A j, k \in Calls : call[j].pc \in Reloading /\ call[k].pc \in Reloading => j = k

\* A start waits for the store of a budget it adopted.
Opening(k, s) == call[k].pc = "budget" /\ call[k].on = s

\* No start is on its way while the budget of a service is wired; a definition with a budget is
\* governed, or is about to be before anything runs on it.
Wired(s) ==
    /\ \A k \in Calls : Wiring(k, s) =>
          /\ child[s] = None
          /\ s \in Registered => record[s].config = call[k].load[s]
          /\ \A j \in Calls : ~Spawner(j, s)
    /\ s \in Registered \ unopened /\ record[s].config \in Budgeted =>
          \/ governed[s] = record[s].config
          \/ \E k \in Calls : Wiring(k, s)
          \/ child[s] = None /\ \E k \in Calls : Opening(k, s)

BudgetsAreWired == \A s \in Service \ raced : Wired(s)

ValidFile(s) == IF files[s] \in Definition THEN files[s] ELSE None

\* The registry has what the file of s says.
UpToDate(s) ==
    IF files[s] \in Definition
    THEN s \in Registered /\ ~record[s].orphaned /\ Upcoming(s) = files[s]
    ELSE s \in Registered => record[s].orphaned /\ child[s] # None

\* What a reload has read is what the files say, and what it has reconciled the registry says.
ReloadFits(k) ==
    /\ call[k].pc = "load" => \A s \in Service :
          /\ s \in call[k].todo => files[s] # None
          /\ s \notin call[k].todo => call[k].load[s] = ValidFile(s)
    /\ call[k].pc \in {"reconcile", "wire"} => \A s \in Service :
          /\ call[k].load[s] = ValidFile(s)
          /\ s \notin call[k].todo /\ files[s] \in Definition => UpToDate(s)

\* From its beginning to its end a reload agrees with the files, unless they are edited; after it
\* the registry does, until the next.
FilesAreRead ==
    /\ agreed = "agreed" => \A k \in Calls : call[k].pc \notin Reloading
    /\ agreed = "loading" => \A k \in Calls : ReloadFits(k)
    /\ agreed = "agreed" => \A s \in Service : UpToDate(s)

-----------------------------------------------------------------------------
(* What the steps that have no part in a reload leave of the calls. *)

Same(j) ==
    /\ call'[j].pc = call[j].pc /\ call'[j].on = call[j].on
    /\ call'[j].load = call[j].load /\ call'[j].todo = call[j].todo

\* A call that stays where it is, or takes no part in a reload or in the budget of a start.
Elsewhere(j) ==
    \/ Same(j)
    \/ /\ call[j].pc \notin {"wire", "budget"}
       /\ call'[j].pc \notin Reloading \cup Spawning

\* One call goes on.
LEMMA ElsewhereOne ==
    ASSUME TypeInv, NEW k \in Calls, NEW c, call' = [call EXCEPT ![k] = c],
           call[k].pc \notin {"wire", "budget"}, c.pc \notin Reloading \cup Spawning
    PROVE  \A j \in Calls : Elsewhere(j)
BY DEF TypeInv, Typed, TypeOK, Elsewhere, Same

\* The calls that answer, skip or settle.
LEMMA ElsewhereCalls ==
    ASSUME TypeInv, NEW k \in Calls,
           \/ EnableReturns(k) \/ UnquarantineReturns(k) \/ BootReturns(k) \/ Spawns(k) \/ Settles(k)
           \/ (RestartContinues(k) /\ ~CanStart(call[k].on))
    PROVE  \A j \in Calls : Elsewhere(j)
<1>1. call[k] \in Call /\ Idle.pc = "idle"
  BY DEF TypeInv, Typed, TypeOK, Idle
<1>2. CASE EnableReturns(k) \/ UnquarantineReturns(k) \/ BootReturns(k)
           \/ (RestartContinues(k) /\ ~CanStart(call[k].on))
  <2>1. call' = [call EXCEPT ![k] = Idle] /\ call[k].pc \in {"written", "next", "stopping"}
    BY <1>2 DEF EnableReturns, UnquarantineReturns, BootReturns, RestartContinues
  <2>2. QED
    BY <1>1, <2>1, ElsewhereOne DEF Reloading, Spawning
<1>3. CASE Spawns(k)
  <2> DEFINE c == [call[k] EXCEPT !.pc = "settle", !.args = None]
  <2>1. c.pc = "settle"
    BY <1>1 DEF Call
  <2>2. call' = [call EXCEPT ![k] = c] /\ call[k].pc = "log"
    BY <1>3 DEF Spawns
  <2> HIDE DEF c
  <2>3. QED
    BY <2>1, <2>2, ElsewhereOne DEF Reloading, Spawning
<1>4. CASE Settles(k)
  <2> DEFINE c == IF call[k].op = "boot"
                  THEN [Idle EXCEPT !.op = "boot", !.pc = "next", !.todo = call[k].todo]
                  ELSE Idle
  <2>1. c.pc \in {"next", "idle"}
    BY DEF Idle
  <2>2. call' = [call EXCEPT ![k] = c] /\ call[k].pc = "settle"
    BY <1>4 DEF Settles, Over
  <2> HIDE DEF c
  <2>3. QED
    BY <2>1, <2>2, ElsewhereOne DEF Reloading, Spawning
<1>5. QED
  BY <1>2, <1>3, <1>4

\* The calls on a service that begin no reload and no start.
LEMMA ElsewhereNames ==
    ASSUME TypeInv, NEW k \in Calls, NEW s \in Service,
           \/ Unquarantine(k, s) \/ Restart(k, s) \/ BootSkips(k, s)
           \/ \E bit \in BOOLEAN : Enable(k, s, bit)
    PROVE  \A j \in Calls : Elsewhere(j)
<1>0. call[k] \in Call /\ Idle.pc = "idle"
  BY DEF TypeInv, Typed, TypeOK, Idle
<1>1. CASE Restart(k, s)
  <2> DEFINE c == [Idle EXCEPT !.op = "restart", !.pc = "stopping", !.on = s]
  <2>1. c.pc = "stopping" /\ call' = [call EXCEPT ![k] = c] /\ call[k] = Idle
    BY <1>1 DEF Idle, Restart, Free
  <2> HIDE DEF c
  <2>2. QED
    BY <1>0, <2>1, ElsewhereOne DEF Reloading, Spawning
<1>2. CASE Unquarantine(k, s)
  <2> DEFINE c == [Idle EXCEPT !.op = "unquarantine", !.pc = "write", !.on = s]
  <2>1. c.pc = "write" /\ call' = [call EXCEPT ![k] = c] /\ call[k] = Idle
    BY <1>2 DEF Idle, Unquarantine, Free
  <2> HIDE DEF c
  <2>2. QED
    BY <1>0, <2>1, ElsewhereOne DEF Reloading, Spawning
<1>3. ASSUME NEW bit \in BOOLEAN, Enable(k, s, bit) PROVE \A j \in Calls : Elsewhere(j)
  <2> DEFINE c == [Idle EXCEPT !.op = IF bit THEN "enable" ELSE "disable", !.pc = "write", !.on = s]
  <2>1. c.pc = "write" /\ call' = [call EXCEPT ![k] = c] /\ call[k] = Idle
    BY <1>3 DEF Idle, Enable, Free
  <2> HIDE DEF c
  <2>2. QED
    BY <1>0, <2>1, ElsewhereOne DEF Reloading, Spawning
<1>4. CASE BootSkips(k, s)
  <2> DEFINE c == [call[k] EXCEPT !.todo = @ \ {s}]
  <2>1. call' = [call EXCEPT ![k] = c] /\ call[k].pc = "next"
    BY <1>4 DEF BootSkips, Advances
  <2>2. c.pc = "next"
    BY <1>0, <2>1 DEF Call
  <2> HIDE DEF c
  <2>3. QED
    BY <2>1, <2>2, ElsewhereOne DEF Reloading, Spawning
<1>5. QED
  BY <1>1, <1>2, <1>3, <1>4

\* A write that ends.
LEMMA ElsewhereWrites ==
    ASSUME TypeInv, DurableInv, WriteEnds \/ WriteFails
    PROVE  \A j \in Calls : Elsewhere(j)
<1>1. writes \in Seq([by : Calls \cup {None}, bits : Bits]) /\ writes # <<>>
  BY DEF TypeInv, Typed, TypeOK, WriteEnds, WriteFails
<1>2. Head(writes) = writes[1] /\ 1 \in 1 .. Len(writes)
  BY <1>1
<1>3. ASSUME NEW j \in Calls PROVE Elsewhere(j)
  <2>1. CASE j = Head(writes).by
    <3>1. call[j].pc = "write"
      BY <1>2, <2>1, RegistryAssumption DEF DurableInv, Waits
    <3>2. call'[j] \in {[call[j] EXCEPT !.pc = "written"], Idle}
      BY <2>1 DEF WriteEnds, WriteFails
    <3>3. [call[j] EXCEPT !.pc = "written"].pc = "written" /\ Idle.pc = "idle"
      BY DEF TypeInv, Typed, TypeOK, Call, Idle
    <3>4. QED
      BY <3>1, <3>2, <3>3 DEF Elsewhere, Reloading, Spawning
  <2>2. CASE j # Head(writes).by
    BY <2>2 DEF WriteEnds, WriteFails, Elsewhere, Same
  <2>3. QED
    BY <2>1, <2>2
<1>4. QED
  BY <1>3

\* Calls go on with the records they hold while services leave the registry.
LEMMA ElsewhereDetached ==
    ASSUME TypeInv, (\E k \in Calls : ReloadReturns(k)) \/ (\E s \in Service : ExitDeregisters(s))
    PROVE  \A j \in Calls : Elsewhere(j)
<1>1. PICK names \in SUBSET Service, c \in [Calls -> Call] :
         /\ call' = Detached(c, names)
         /\ \A j \in Calls : c[j] = call[j] \/ (c[j] = Idle /\ call[j].pc = "reconcile")
  <2>1. ASSUME NEW k \in Calls, ReloadReturns(k)
        PROVE  \E names \in SUBSET Service, c \in [Calls -> Call] :
                 /\ call' = Detached(c, names)
                 /\ \A j \in Calls : c[j] = call[j] \/ (c[j] = Idle /\ call[j].pc = "reconcile")
    <3>1. call' = Detached([call EXCEPT ![k] = Idle], Dropped(k)) /\ call[k].pc = "reconcile"
      BY <2>1, Removals DEF TypeInv, ReloadReturns
    <3> DEFINE c == [call EXCEPT ![k] = Idle]
    <3>2. /\ c \in [Calls -> Call]
          /\ \A j \in Calls : c[j] = call[j] \/ (c[j] = Idle /\ call[j].pc = "reconcile")
      BY <3>1, IdleTyped DEF TypeInv, Typed, TypeOK
    <3>3. Dropped(k) \in SUBSET Service
      BY DEF Dropped, Fileless, Registered
    <3>4. QED
      BY <3>1, <3>2, <3>3
  <2>2. ASSUME NEW s \in Service, ExitDeregisters(s)
        PROVE  \E names \in SUBSET Service, c \in [Calls -> Call] :
                 /\ call' = Detached(c, names)
                 /\ \A j \in Calls : c[j] = call[j] \/ (c[j] = Idle /\ call[j].pc = "reconcile")
    BY <2>2 DEF ExitDeregisters, TypeInv, Typed, TypeOK
  <2>3. QED
    BY <2>1, <2>2
<1>2. ASSUME NEW j \in Calls PROVE Elsewhere(j)
  <2> DEFINE d == record[c[j].on].config
             q == [c[j] EXCEPT !.own = d]
  <2>1. call'[j] = c[j] \/ call'[j] = q
    BY <1>1 DEF Detached
  <2> HIDE DEF d
  <2>2. q.pc = c[j].pc /\ q.on = c[j].on /\ q.load = c[j].load /\ q.todo = c[j].todo
    BY <1>1 DEF Call
  <2> HIDE DEF q
  <2>3. Idle.pc = "idle"
    BY DEF Idle
  <2>4. QED
    BY <1>1, <2>1, <2>2, <2>3 DEF Elsewhere, Same, Reloading, Spawning
<1>3. QED
  BY <1>2

\* The steps outside the calls.
LEMMA ElsewhereRest ==
    ASSUME TypeInv,
           \/ UNCHANGED vars \/ \E p \in Path, e \in Entry : Touch(p, e)
           \/ \E s \in Service :
                \/ Stop(s) \/ RelaunchRefused(s) \/ Edit(s) \/ ExitQuarantines(s) \/ ExitOfUnknown(s)
                \/ ExitRests(s) \/ \E relaunch, giveUp \in BOOLEAN : ExitRelaunches(s, relaunch, giveUp)
           \/ \E k \in Calls, s \in Service : Poll(k, s) /\ ~(Fires(s) /\ CanStart(s))
    PROVE  \A j \in Calls : Elsewhere(j)
<1>1. call' = call
  BY DEF vars, Touch, Stop, RelaunchRefused, Edit, ExitQuarantines, ExitOfUnknown, ExitRests,
     ExitRelaunches, Poll
<1>2. QED
  BY <1>1 DEF Elsewhere, Same

-----------------------------------------------------------------------------
(* The steps of a reload, and of a start at its budget store, as changes of one call. *)

Others(k) == \A j \in Calls \ {k} : call'[j] = call[j]

\* start() at the budget store.
LEMMA StoreMoves ==
    ASSUME TypeInv, NEW k \in Calls, StoreOpens(k) \/ StoreFails(k)
    PROVE  /\ Others(k) /\ call[k].pc = "budget" /\ call[k].on \in Service
           /\ StoreOpens(k) => call'[k].pc = "log" /\ call'[k].on = call[k].on
           /\ ~StoreOpens(k) => call'[k].pc \in {"next", "idle"}
<1>1. call[k] \in Call /\ call[k].pc = "budget" /\ call[k].on \in Service
  BY DEF TypeInv, Typed, TypeOK, CallsFit, CallFits, StoreOpens, StoreFails, Spawning
<1>2. CASE StoreOpens(k)
  <2> DEFINE c == [call[k] EXCEPT !.pc = "log", !.args = Held(k)]
  <2>1. c.pc = "log" /\ c.on = call[k].on
    BY <1>1 DEF Call
  <2>2. call' = [call EXCEPT ![k] = c]
    BY <1>2 DEF StoreOpens
  <2> HIDE DEF c
  <2>3. QED
    BY <1>1, <1>2, <2>1, <2>2 DEF TypeInv, Typed, TypeOK, Others
<1>3. CASE ~StoreOpens(k)
  <2> DEFINE c == IF call[k].op = "boot"
                  THEN [Idle EXCEPT !.op = "boot", !.pc = "next", !.todo = call[k].todo]
                  ELSE Idle
  <2>1. c.pc \in {"next", "idle"}
    BY DEF Idle
  <2>2. call' = [call EXCEPT ![k] = c]
    BY <1>3 DEF StoreFails, Over
  <2> HIDE DEF c
  <2>3. QED
    BY <1>1, <1>3, <2>1, <2>2 DEF TypeInv, Typed, TypeOK, Others
<1>4. QED
  BY <1>2, <1>3

\* A reload at the budget store.
LEMMA WireMoves ==
    ASSUME TypeInv, NEW k \in Calls, WireOpens(k) \/ WireFails(k)
    PROVE  /\ Others(k) /\ call[k].pc = "wire" /\ call[k].on \in Service
           /\ WireOpens(k) => /\ call'[k].pc = "reconcile"
                              /\ call'[k].load = call[k].load /\ call'[k].todo = call[k].todo
           /\ ~WireOpens(k) => call'[k].pc = "idle"
<1>1. call[k] \in Call /\ call[k].pc = "wire" /\ call[k].on \in Service
  BY DEF TypeInv, Typed, TypeOK, CallsFit, CallFits, WireOpens, WireFails
<1>2. CASE WireOpens(k)
  <2> DEFINE c == [call[k] EXCEPT !.pc = "reconcile", !.on = None]
  <2>1. c.pc = "reconcile" /\ c.load = call[k].load /\ c.todo = call[k].todo
    BY <1>1 DEF Call
  <2>2. call' = [call EXCEPT ![k] = c]
    BY <1>2 DEF WireOpens
  <2> HIDE DEF c
  <2>3. QED
    BY <1>1, <1>2, <2>1, <2>2 DEF TypeInv, Typed, TypeOK, Others
<1>3. CASE ~WireOpens(k)
  <2>1. Idle.pc = "idle" /\ call' = [call EXCEPT ![k] = Idle]
    BY <1>3 DEF WireFails, Idle
  <2>2. QED
    BY <1>1, <1>3, <2>1 DEF TypeInv, Typed, TypeOK, Others
<1>4. QED
  BY <1>2, <1>3

\* A reload visits a name.
LEMMA VisitMoves ==
    ASSUME TypeInv, NEW k \in Calls, NEW s \in Service,
           Adds(k, s) \/ Keeps(k, s) \/ Stages(k, s) \/ Updates(k, s)
    PROVE  /\ Others(k) /\ call[k].pc = "reconcile" /\ call[k].load[s] \in Definition
           /\ call'[k].load = call[k].load /\ call'[k].todo = call[k].todo \ {s}
           /\ \/ call'[k].pc = "reconcile"
              \/ call'[k].pc = "wire" /\ call'[k].on = s /\ (Adds(k, s) \/ Updates(k, s))
           /\ (Adds(k, s) \/ Updates(k, s)) /\ call[k].load[s] \in Budgeted => call'[k].pc = "wire"
<1>1. call[k] \in Call /\ call[k].pc = "reconcile" /\ call[k].load[s] \in Definition
  BY VisitedTyped DEF TypeInv, Typed, TypeOK, Adds, Keeps, Stages, Updates, Visits
<1>2. CASE Adds(k, s) \/ Updates(k, s)
  <2> DEFINE d == call[k].load[s]
             c == [call[k] EXCEPT !.todo = @ \ {s}, !.pc = IF d \in Budgeted THEN "wire" ELSE @,
                                  !.on = IF d \in Budgeted THEN s ELSE @]
  <2>1. call' = [call EXCEPT ![k] = c]
    BY <1>2 DEF Adds, Updates, Wires
  <2>2. /\ c.load = call[k].load /\ c.todo = call[k].todo \ {s}
        /\ d \in Budgeted => c.pc = "wire" /\ c.on = s
        /\ d \notin Budgeted => c.pc = "reconcile"
    BY <1>1 DEF Call
  <2> HIDE DEF c
  <2>3. QED
    BY <1>1, <1>2, <2>1, <2>2 DEF TypeInv, Typed, TypeOK, Others
<1>3. CASE ~(Adds(k, s) \/ Updates(k, s))
  <2> DEFINE c == [call[k] EXCEPT !.todo = @ \ {s}]
  <2>1. call' = [call EXCEPT ![k] = c]
    BY <1>3 DEF Keeps, Stages, Advances
  <2>2. c.load = call[k].load /\ c.todo = call[k].todo \ {s} /\ c.pc = "reconcile"
    BY <1>1 DEF Call
  <2> HIDE DEF c
  <2>3. QED
    BY <1>1, <1>3, <2>1, <2>2 DEF TypeInv, Typed, TypeOK, Others
<1>4. QED
  BY <1>2, <1>3

\* A reload begins.
LEMMA ReloadMoves ==
    ASSUME TypeInv, NEW k \in Calls, Reload(k)
    PROVE  /\ Others(k) /\ call[k].pc = "idle"
           /\ call'[k].load = [s \in Service |-> None]
           /\ call'[k].todo = {s \in Service : files[s] # None}
           /\ call'[k].pc = IF call'[k].todo = {} THEN "reconcile" ELSE "load"
<1> DEFINE names == {n \in Service : files[n] # None}
           c == [Idle EXCEPT !.op = "reload", !.todo = names,
                             !.pc = IF names = {} THEN "reconcile" ELSE "load"]
<1>1. call' = [call EXCEPT ![k] = c] /\ call[k] = Idle
  BY DEF Reload, Free
<1>2. /\ c.load = [s \in Service |-> None] /\ c.todo = names /\ Idle.pc = "idle"
      /\ c.pc = IF names = {} THEN "reconcile" ELSE "load"
  BY DEF Idle
<1> HIDE DEF c
<1>3. QED
  BY <1>1, <1>2 DEF TypeInv, Typed, TypeOK, Others

\* A reload reads a file.
LEMMA ReadMoves ==
    ASSUME TypeInv, NEW k \in Calls, NEW s \in Service, Reads(k, s)
    PROVE  /\ Others(k) /\ call[k].pc = "load" /\ s \in call[k].todo
           /\ \A n \in Service : call'[k].load[n] =
                IF n # s THEN call[k].load[n] ELSE IF files[s] = Broken THEN None ELSE files[s]
           /\ \/ call'[k].pc = "load" /\ call'[k].todo = call[k].todo \ {s}
              \/ /\ call'[k].pc = "reconcile" /\ call[k].todo = {s}
                 /\ call'[k].todo = {n \in Service : call'[k].load[n] # None}
<1> DEFINE found == [call[k].load EXCEPT ![s] = IF files[s] = Broken THEN None ELSE files[s]]
           rest  == call[k].todo \ {s}
           c == [call[k] EXCEPT
                   !.load = found,
                   !.todo = IF rest = {} THEN {n \in Service : found[n] # None} ELSE rest,
                   !.pc = IF rest = {} THEN "reconcile" ELSE "load"]
<1>1. call[k] \in Call /\ call[k].pc = "load" /\ s \in call[k].todo
  BY DEF Reads, TypeInv, Typed, TypeOK
<1>2. call' = [call EXCEPT ![k] = c]
  BY DEF Reads
<1>3. \A n \in Service : found[n] =
         IF n # s THEN call[k].load[n] ELSE IF files[s] = Broken THEN None ELSE files[s]
  BY <1>1 DEF Call
<1>4. rest = {} => call[k].todo = {s}
  BY <1>1
<1> HIDE DEF found
<1>5. /\ c.load = found
      /\ IF rest = {} THEN c.pc = "reconcile" /\ c.todo = {n \in Service : found[n] # None}
         ELSE c.pc = "load" /\ c.todo = rest
  BY <1>1 DEF Call
<1> HIDE DEF c
<1>6. call'[k] = c /\ Others(k)
  BY <1>2 DEF TypeInv, Typed, TypeOK, Others
<1>7. QED
  BY <1>1, <1>3, <1>4, <1>5, <1>6

-----------------------------------------------------------------------------
(* One reload at a time. *)

LEMMA OneReloadKept ==
    ASSUME OneReload, \A j \in Calls : call'[j].pc \in Reloading => call[j].pc \in Reloading
    PROVE  OneReload'
BY DEF OneReload

LEMMA OneReloadElsewhere ==
    ASSUME OneReload, \A j \in Calls : Elsewhere(j)
    PROVE  OneReload'
BY OneReloadKept DEF Elsewhere, Same

\* The steps of a reload, and of starts.
LEMMA OneReloadMoves ==
    ASSUME "again" \notin Overlap, TypeInv, OneStart, OneReload, NEW k \in Calls,
           \/ StoreOpens(k) \/ StoreFails(k) \/ WireOpens(k) \/ WireFails(k) \/ Reload(k)
           \/ \E s \in Service : \/ Starting(k, s) \/ Reads(k, s)
                                 \/ Adds(k, s) \/ Keeps(k, s) \/ Stages(k, s) \/ Updates(k, s)
    PROVE  OneReload'
<1> USE DEF Reloading
<1>1. CASE StoreOpens(k) \/ StoreFails(k)
  BY <1>1, StoreMoves, OneReloadKept DEF Others
<1>2. CASE WireOpens(k) \/ WireFails(k)
  BY <1>2, WireMoves, OneReloadKept DEF Others
<1>3. CASE Reload(k)
  <2>1. \A j \in Calls : call[j].pc \notin Reloading
    BY <1>3 DEF Reload, MayReload, InProgress
  <2>2. QED
    BY <1>3, <2>1, ReloadMoves DEF Others, OneReload
<1>4. ASSUME NEW s \in Service, Starting(k, s) PROVE OneReload'
  <2>1. Begins(k, s)
    BY <1>4, StartingBegins
  <2>2. QED
    BY <2>1, OneReloadKept DEF Begins, Spawner, Spawning
<1>5. ASSUME NEW s \in Service, Reads(k, s) PROVE OneReload'
  BY <1>5, ReadMoves, OneReloadKept DEF Others
<1>6. ASSUME NEW s \in Service, Adds(k, s) \/ Keeps(k, s) \/ Stages(k, s) \/ Updates(k, s)
      PROVE  OneReload'
  BY <1>6, VisitMoves, OneReloadKept DEF Others
<1>7. QED
  BY <1>1, <1>2, <1>3, <1>4, <1>5, <1>6

\* A crash ends every call, a boot begins one.
LEMMA AcrossCrash ==
    ASSUME TypeInv, Crash \/ \E k \in Calls : Boot(k)
    PROVE  \A j \in Calls : call'[j].pc \in {"idle", "next"}
<1>1. [Idle EXCEPT !.op = "boot", !.pc = "next", !.todo = disk.enabled].pc = "next"
      /\ Idle.pc = "idle"
  BY DEF Idle
<1>2. QED
  BY <1>1 DEF Crash, Off, Boot, TypeInv, DownIsEmpty, Typed, TypeOK

\* Every step is one of the environment or the operator, one of a reload or a start, or the end
\* of a daemon or its beginning.
LEMMA StepsElsewhere ==
    ASSUME TypeInv, DurableInv, [Next]_vars
    PROVE  \/ \A j \in Calls : Elsewhere(j)
           \/ \E k \in Calls :
                \/ StoreOpens(k) \/ StoreFails(k) \/ WireOpens(k) \/ WireFails(k) \/ Reload(k)
                \/ \E s \in Service : \/ Starting(k, s) \/ Reads(k, s)
                                      \/ Adds(k, s) \/ Keeps(k, s) \/ Stages(k, s) \/ Updates(k, s)
           \/ Crash \/ \E k \in Calls : Boot(k)
<1>1. CASE UNCHANGED vars \/ \E p \in Path, e \in Entry : Touch(p, e)
  BY <1>1, ElsewhereRest
<1>2. CASE WriteEnds \/ WriteFails
  BY <1>2, ElsewhereWrites
<1>3. CASE \E k \in Calls : CallSteps(k)
  <2>1. PICK k \in Calls : CallSteps(k)
    BY <1>3
  <2>2. CASE RestartContinues(k)
    <3>1. CanStart(call[k].on) => call[k].on \in Service
      BY DEF CanStart, Registered
    <3>2. QED
      BY <2>2, <3>1, ElsewhereCalls DEF Starting
  <2>3. ASSUME NEW s \in Service, Poll(k, s), ~(Fires(s) /\ CanStart(s))
        PROVE  \A j \in Calls : Elsewhere(j)
    BY <2>3, ElsewhereRest
  <2>4. QED
    BY <2>1, <2>2, <2>3, ElsewhereCalls, ElsewhereNames, ElsewhereDetached DEF CallSteps, Starting
<1>4. CASE \E s \in Service : ServiceSteps(s)
  BY <1>4, ElsewhereRest, ElsewhereDetached DEF ServiceSteps
<1>5. QED
  BY <1>1, <1>2, <1>3, <1>4 DEF Next

\* Where no second reload begins while one is in progress, there is never more than one.
THEOREM OneReloadInvariant == ASSUME "again" \notin Overlap PROVE Spec => []OneReload
<1>1. Init => OneReload
  BY DEF Init, Idle, OneReload, Reloading
<1>2. ASSUME TypeInv, DurableInv, OneStart, OneReload, [Next]_vars PROVE OneReload'
  <2>1. CASE Crash \/ \E k \in Calls : Boot(k)
    BY <1>2, <2>1, AcrossCrash DEF OneReload, Reloading
  <2>2. QED
    BY <1>2, <2>1, StepsElsewhere, OneReloadElsewhere, OneReloadMoves
<1>3. QED
  BY <1>1, <1>2, TypeCorrect, DurableInvariant, ApartInvariant, PTL DEF Spec

-----------------------------------------------------------------------------
(* What most steps leave of the registry. *)

\* Every definition stays where it is, orphans run on, and no file or budget changes.
Steady ==
    /\ SameDefinitions
    /\ \A n \in Service : child'[n] \in {child[n], None}
    /\ \A n \in Registered : child'[n] = child[n] \/ ~record[n].orphaned
    /\ UNCHANGED <<governed, unopened, raced, files, agreed>>

LEMMA SteadyUntouched ==
    ASSUME TypeInv,
           UNCHANGED vars \/ WriteEnds \/ WriteFails \/ (\E p \in Path, e \in Entry : Touch(p, e))
           \/ (\E s \in Service : RelaunchRefused(s))
           \/ \E k \in Calls :
                \/ EnableReturns(k) \/ UnquarantineReturns(k) \/ BootReturns(k)
                \/ (RestartContinues(k) /\ ~CanStart(call[k].on))
                \/ \E s \in Service :
                     \/ BootSkips(k, s) \/ (Poll(k, s) /\ ~(Fires(s) /\ CanStart(s)))
                     \/ \E bit \in BOOLEAN : Enable(k, s, bit)
    PROVE  Steady
<1>1. UNCHANGED <<record, child, governed, unopened, raced, files, agreed>>
  <2>1. CASE UNCHANGED vars \/ WriteEnds \/ WriteFails \/ (\E p \in Path, e \in Entry : Touch(p, e))
             \/ (\E s \in Service : RelaunchRefused(s))
    BY <2>1 DEF vars, WriteEnds, WriteFails, Touch, RelaunchRefused, lifecycle, history
  <2>2. ASSUME NEW k \in Calls,
               \/ EnableReturns(k) \/ UnquarantineReturns(k) \/ BootReturns(k)
               \/ (RestartContinues(k) /\ ~CanStart(call[k].on))
        PROVE  UNCHANGED <<record, child, governed, unopened, raced, files, agreed>>
    BY <2>2 DEF EnableReturns, UnquarantineReturns, BootReturns, RestartContinues, lifecycle, history
  <2>3. ASSUME NEW k \in Calls, NEW s \in Service,
               \/ BootSkips(k, s) \/ (Poll(k, s) /\ ~(Fires(s) /\ CanStart(s)))
               \/ \E bit \in BOOLEAN : Enable(k, s, bit)
        PROVE  UNCHANGED <<record, child, governed, unopened, raced, files, agreed>>
    BY <2>3 DEF BootSkips, Poll, Enable, lifecycle, history
  <2>4. QED
    BY <2>1, <2>2, <2>3
<1>2. SameDefinitions
  BY <1>1, SameRecord DEF TypeInv, Typed
<1>3. QED
  BY <1>1, <1>2 DEF Steady

\* A change of state, or none, is none of a definition.
LEMMA SteadyState ==
    ASSUME TypeInv, NEW s \in Service, NEW t \in States,
           record' = record \/ (s \in Registered /\ record' = [record EXCEPT ![s].state = t])
    PROVE  SameDefinitions
BY SameRecord, SetState DEF TypeInv, Typed

LEMMA SteadyStates ==
    ASSUME TypeInv, NEW s \in Service,
           \/ Stop(s) \/ ExitQuarantines(s) \/ ExitOfUnknown(s) \/ ExitRests(s)
           \/ (\E relaunch, giveUp \in BOOLEAN : ExitRelaunches(s, relaunch, giveUp))
           \/ \E k \in Calls : Restart(k, s) \/ Unquarantine(k, s) \/ (Settles(k) /\ s = call[k].on)
    PROVE  Steady
<1>1. CASE Stop(s) \/ \E k \in Calls : Restart(k, s)
  <2>1. /\ s \in Registered /\ UNCHANGED <<child, governed, unopened, raced, files, agreed>>
        /\ record' \in {record, [record EXCEPT ![s].state = "stopping"]}
    BY <1>1 DEF Stop, Restart, Stops, history
  <2>2. QED
    BY <2>1, SteadyState DEF Steady, States
<1>2. CASE ExitOfUnknown(s)
  <2>1. record' = record /\ UNCHANGED <<governed, unopened, raced, files, agreed>>
    BY <1>2 DEF ExitOfUnknown, history
  <2>2. /\ \A n \in Service : child'[n] \in {child[n], None}
        /\ \A n \in Registered : child'[n] = child[n]
    BY <1>2 DEF ExitOfUnknown, TypeInv, Typed, TypeOK, Registered
  <2>3. SameDefinitions
    BY <2>1, SteadyState DEF States
  <2>4. QED
    BY <2>1, <2>2, <2>3 DEF Steady
<1>3. CASE ExitQuarantines(s) \/ ExitRests(s)
           \/ (\E relaunch, giveUp \in BOOLEAN : ExitRelaunches(s, relaunch, giveUp))
  <2>1. /\ Leaves(s) /\ ~record[s].orphaned /\ s \in Registered
        /\ \/ record' = [record EXCEPT ![s].state = "quarantined"]
           \/ record' = [record EXCEPT ![s].state = "stopped"]
        /\ UNCHANGED <<governed, unopened, raced>>
    BY <1>3 DEF ExitQuarantines, ExitRests, ExitRelaunches, Leaves, Eligible
  <2>2. /\ \A n \in Service : child'[n] \in {child[n], None}
        /\ \A n \in Registered \ {s} : child'[n] = child[n]
        /\ UNCHANGED <<files, agreed>>
    BY <2>1 DEF Leaves, TypeInv, Typed, TypeOK, Registered
  <2>3. SameDefinitions
    BY <2>1, SteadyState DEF States
  <2>4. QED
    BY <2>1, <2>2, <2>3 DEF Steady
<1>4. ASSUME NEW k \in Calls, Unquarantine(k, s) PROVE Steady
  <2>1. /\ s \in Registered /\ UNCHANGED <<child, governed, unopened, raced, files, agreed>>
        /\ record' \in {record, [record EXCEPT ![s].state = "stopped"]}
    BY <1>4 DEF Unquarantine, lifecycle, history
  <2>2. QED
    BY <2>1, SteadyState DEF Steady, States
<1>5. ASSUME NEW k \in Calls, Settles(k), s = call[k].on PROVE Steady
  <2>1. call[k].own = None => s \in Registered
    BY <1>5 DEF Settles, TypeInv, Typed, CallsFit, CallFits
  <2>2. /\ UNCHANGED <<child, governed, unopened, raced, files, agreed>>
        /\ record' = record \/ (s \in Registered /\ record' = [record EXCEPT ![s].state = "running"])
    BY <1>5, <2>1 DEF Settles, history
  <2>3. QED
    BY <2>2, SteadyState DEF Steady, States
<1>6. QED
  BY <1>1, <1>2, <1>3, <1>4, <1>5

\* A step of a reload, or of a start at its budget store.
Moves(k) ==
    \/ StoreOpens(k) \/ StoreFails(k) \/ WireOpens(k) \/ WireFails(k) \/ Reload(k)
    \/ \E s \in Service : \/ Starting(k, s) \/ Reads(k, s)
                          \/ Adds(k, s) \/ Keeps(k, s) \/ Stages(k, s) \/ Updates(k, s)

\* Every step is steady, or one of a few.
LEMMA StepKinds ==
    ASSUME TypeInv, [Next]_vars
    PROVE  \/ Steady
           \/ \E k \in Calls : Moves(k) \/ Spawns(k) \/ ReloadReturns(k) \/ Boot(k)
           \/ \E s \in Service : Edit(s) \/ ExitDeregisters(s)
           \/ Crash
<1>1. CASE UNCHANGED vars \/ WriteEnds \/ WriteFails \/ (\E p \in Path, e \in Entry : Touch(p, e))
  BY <1>1, SteadyUntouched
<1>2. CASE \E k \in Calls : CallSteps(k)
  <2>1. PICK k \in Calls : CallSteps(k)
    BY <1>2
  <2>2. CASE RestartContinues(k)
    <3>1. CanStart(call[k].on) => call[k].on \in Service
      BY DEF CanStart, Registered
    <3>2. QED
      BY <2>2, <3>1, SteadyUntouched DEF Starting, Moves
  <2>3. ASSUME NEW s \in Service, Poll(k, s), ~(Fires(s) /\ CanStart(s))
        PROVE  Steady
    BY <2>3, SteadyUntouched
  <2>4. CASE Settles(k)
    <3>1. call[k].on \in Service
      BY <2>4 DEF Settles, TypeInv, Typed, CallsFit, CallFits
    <3>2. QED
      BY <2>4, <3>1, SteadyStates
  <2>5. CASE EnableReturns(k) \/ UnquarantineReturns(k) \/ BootReturns(k)
             \/ \E s \in Service : BootSkips(k, s) \/ \E bit \in BOOLEAN : Enable(k, s, bit)
    BY <2>5, SteadyUntouched
  <2>6. CASE \E s \in Service : Unquarantine(k, s) \/ Restart(k, s)
    BY <2>6, SteadyStates
  <2>7. QED
    BY <2>1, <2>2, <2>3, <2>4, <2>5, <2>6 DEF CallSteps, Starting, Moves
<1>3. CASE \E s \in Service : ServiceSteps(s)
  BY <1>3, SteadyStates, SteadyUntouched DEF ServiceSteps
<1>4. QED
  BY <1>1, <1>2, <1>3 DEF Next

-----------------------------------------------------------------------------
(* Budgets. *)

\* A step that leaves the wiring, the starts and the definition of a service alone.
LEMMA WiredKept ==
    ASSUME NEW s \in Service, Wired(s),
           \A j \in Calls : Wiring(j, s)' <=> Wiring(j, s),
           \A j \in Calls : Wiring(j, s) => call'[j].load = call[j].load,
           \A j \in Calls : Spawner(j, s)' => Spawner(j, s),
           child'[s] \in {child[s], None}, s \in unopened => s \in unopened',
           s \in Registered' =>
              /\ s \in Registered /\ record'[s].config = record[s].config
              /\ governed'[s] = governed[s]
              /\ \A j \in Calls : Opening(j, s) => Opening(j, s)'
    PROVE  Wired(s)'
<1>1. \A k \in Calls : Wiring(k, s)' =>
         /\ child'[s] = None
         /\ s \in Registered' => record'[s].config = call'[k].load[s]
         /\ \A j \in Calls : ~Spawner(j, s)'
  BY DEF Wired
<1>2. s \in Registered' \ unopened' /\ record'[s].config \in Budgeted =>
         \/ governed'[s] = record'[s].config
         \/ \E k \in Calls : Wiring(k, s)'
         \/ child'[s] = None /\ \E k \in Calls : Opening(k, s)'
  BY DEF Wired
<1>3. QED
  BY <1>1, <1>2 DEF Wired

\* What goes on elsewhere is no wiring and no start of a budget.
LEMMA ElsewhereWiring ==
    ASSUME NEW s \in Service, \A j \in Calls : Elsewhere(j)
    PROVE  /\ \A j \in Calls : Wiring(j, s)' <=> Wiring(j, s)
           /\ \A j \in Calls : Wiring(j, s) => call'[j].load = call[j].load
           /\ \A j \in Calls : Spawner(j, s)' => Spawner(j, s)
           /\ \A j \in Calls : Opening(j, s) <=> Opening(j, s)'
BY DEF Elsewhere, Same, Wiring, Spawner, Opening, Spawning, Reloading

\* The step of one call is none of the other services.
LEMMA OthersWiring ==
    ASSUME NEW k \in Calls, NEW s \in Service, Others(k),
           call[k].pc \in {"wire"} \cup Spawning => call[k].on # s,
           call'[k].pc \in {"wire"} \cup Spawning => call'[k].on # s
    PROVE  /\ \A j \in Calls : Wiring(j, s)' <=> Wiring(j, s)
           /\ \A j \in Calls : Wiring(j, s) => call'[j].load = call[j].load
           /\ \A j \in Calls : Spawner(j, s)' => Spawner(j, s)
           /\ \A j \in Calls : Opening(j, s) <=> Opening(j, s)'
BY DEF Others, Wiring, Spawner, Opening, Spawning

LEMMA BudgetsSteady ==
    ASSUME BudgetsAreWired, Steady, \A j \in Calls : Elsewhere(j)
    PROVE  BudgetsAreWired'
<1>1. Registered' = Registered
  BY SameRegistered DEF Steady
<1>2. ASSUME NEW s \in Service \ raced PROVE Wired(s)'
  <2>1. s \in Registered => record'[s].config = record[s].config
    BY DEF Steady, SameDefinitions, Registered
  <2>2. QED
    BY <1>1, <2>1, ElsewhereWiring, WiredKept DEF Steady, BudgetsAreWired
<1>3. QED
  BY <1>2 DEF BudgetsAreWired, Steady

\* A start adopts a definition with its budget, or waits for its store.
LEMMA BudgetsBegin ==
    ASSUME TypeInv, BudgetsAreWired, NEW k \in Calls, NEW s \in Service, Begins(k, s)
    PROVE  BudgetsAreWired'
<1> USE DEF Begins
<1>1. Others(k) /\ call'[k].pc \in Spawning /\ call'[k].on = s
  BY DEF Others, Spawner
<1>2. ASSUME NEW n \in Service \ raced', n # s PROVE Wired(n)'
  <2>1. /\ \A j \in Calls : Wiring(j, n)' <=> Wiring(j, n)
        /\ \A j \in Calls : Wiring(j, n) => call'[j].load = call[j].load
        /\ \A j \in Calls : Spawner(j, n)' => Spawner(j, n)
        /\ \A j \in Calls : Opening(j, n) <=> Opening(j, n)'
    BY <1>1, <1>2, OthersWiring DEF Spawning
  <2>2. governed'[n] = governed[n] /\ (n \in unopened => n \in unopened') /\ n \in Service /\ n \notin raced
    BY <1>2 DEF Governed, TypeInv, Typed, TypeOK
  <2>3. Wired(n)
    BY <2>2 DEF BudgetsAreWired
  <2>4. QED
    BY <1>2, <2>1, <2>2, <2>3, WiredKept
<1>3. ASSUME s \notin raced' PROVE Wired(s)'
  <2>1. \A j \in Calls : ~Wiring(j, s)'
    BY <1>1, <1>3 DEF Others, Wiring, Spawning
  <2>2. ASSUME s \in Registered' \ unopened', record'[s].config \in Budgeted
        PROVE  governed'[s] = record'[s].config \/ (child'[s] = None /\ \E j \in Calls : Opening(j, s)')
    <3>1. CASE call'[k].pc = "budget"
      BY <1>1, <3>1 DEF Opening
    <3>2. CASE call'[k].pc = "log"
      <4>1. record[s].pending = None
        BY <2>2, <3>2
      <4>2. record'[s].config = record[s].config /\ UNCHANGED <<governed, unopened>>
        BY <4>1, <3>2 DEF Upcoming
      <4>3. \A j \in Calls : ~Wiring(j, s) /\ ~Opening(j, s)
        BY <1>3 DEF Wiring, Opening, Spawner, Spawning
      <4>4. QED
        BY <1>3, <2>2, <4>2, <4>3 DEF BudgetsAreWired, Wired
    <3>3. QED
      BY <1>1, <3>1, <3>2 DEF Spawning
  <2>3. QED
    BY <2>1, <2>2 DEF Wired
<1>4. QED
  BY <1>2, <1>3 DEF BudgetsAreWired

\* The store of a start opens, and its budget is governed; or it does not open.
LEMMA BudgetsAtStore ==
    ASSUME TypeInv, LifeInv, BudgetsAreWired, NEW k \in Calls, StoreOpens(k) \/ StoreFails(k)
    PROVE  BudgetsAreWired'
<1>0. PICK s \in Service : s = call[k].on
  BY StoreMoves
<1>1. /\ Others(k) /\ call[k].pc = "budget" /\ s \in Service /\ Spawner(k, s)
      /\ StoreOpens(k) => call'[k].pc = "log" /\ call'[k].on = s
      /\ ~StoreOpens(k) => call'[k].pc \in {"next", "idle"}
  BY <1>0, StoreMoves DEF Spawner, Spawning
<1>2. UNCHANGED <<child, raced>>
  BY DEF StoreOpens, StoreFails, history
<1>3. SameDefinitions
  <2>1. call[k].own = None => s \in Registered
    BY <1>0, <1>1 DEF TypeInv, Typed, CallsFit, CallFits, Spawning
  <2>2. record' = record \/ (s \in Registered /\ record' = [record EXCEPT ![s].state = "starting"])
    BY <1>0, <2>1 DEF StoreOpens, StoreFails
  <2>3. QED
    BY <1>1, <2>2, SteadyState DEF States
<1>4. /\ StoreOpens(k) => Governed(s, Held(k))
      /\ ~StoreOpens(k) => governed' = governed /\ unopened' = unopened \cup {s}
  BY <1>0 DEF StoreOpens, StoreFails, MayNotOpen
<1>5. /\ StoreOpens(k) /\ s \notin raced =>
            s \in Registered /\ Held(k) = record[s].config
  BY <1>0, <1>1 DEF LifeInv, StartsFitTheRecord, Held, TypeInv, Typed, CallsFit, CallFits, Spawning
<1>6. /\ Registered' = Registered
      /\ \A n \in Registered : record'[n].config = record[n].config
  BY <1>3, SameRegistered DEF SameDefinitions, Registered
<1>7. ASSUME NEW n \in Service \ raced, n # s PROVE Wired(n)'
  <2>1. /\ \A j \in Calls : Wiring(j, n)' <=> Wiring(j, n)
        /\ \A j \in Calls : Wiring(j, n) => call'[j].load = call[j].load
        /\ \A j \in Calls : Spawner(j, n)' => Spawner(j, n)
        /\ \A j \in Calls : Opening(j, n) <=> Opening(j, n)'
    <3>1. call[k].on # n /\ (call'[k].pc \in {"wire"} \cup Spawning => call'[k].on # n)
      BY <1>0, <1>1, <1>7 DEF Spawning
    <3>2. QED
      BY <1>1, <3>1, OthersWiring
  <2>2. governed'[n] = governed[n] /\ (n \in unopened => n \in unopened')
    BY <1>4, <1>7 DEF Governed, TypeInv, Typed, TypeOK
  <2>3. Wired(n)
    BY DEF BudgetsAreWired
  <2>4. QED
    BY <1>2, <1>6, <2>1, <2>2, <2>3, WiredKept
<1>8. ASSUME s \notin raced PROVE Wired(s)'
  <2>1. \A j \in Calls : ~Wiring(j, s)
    BY <1>1, <1>8 DEF BudgetsAreWired, Wired
  <2>2. \A j \in Calls : ~Wiring(j, s)'
    BY <1>1, <2>1 DEF Others, Wiring
  <2>3. CASE StoreOpens(k)
    <3>1. record'[s].config \in Budgeted => governed'[s] = record'[s].config
      BY <1>1, <1>4, <1>5, <1>6, <1>8, <2>3 DEF Governed, TypeInv, Typed, TypeOK
    <3>2. QED
      BY <2>2, <3>1 DEF Wired
  <2>4. CASE ~StoreOpens(k)
    BY <1>4, <2>2, <2>4 DEF Wired
  <2>5. QED
    BY <2>3, <2>4
<1>9. QED
  BY <1>2, <1>7, <1>8 DEF BudgetsAreWired

\* The store of a reload opens, or it does not.
LEMMA BudgetsAtWire ==
    ASSUME TypeInv, BudgetsAreWired, NEW k \in Calls, WireOpens(k) \/ WireFails(k), OneReload
    PROVE  BudgetsAreWired'
<1>0. PICK s \in Service : s = call[k].on
  BY WireMoves
<1>1. /\ Others(k) /\ call[k].pc = "wire" /\ s \in Service /\ Wiring(k, s)
      /\ call'[k].pc \in {"reconcile", "idle"}
  BY <1>0, WireMoves DEF Wiring
<1>2. /\ UNCHANGED <<record, child, raced>>
      /\ WireOpens(k) => Governed(s, call[k].load[s])
      /\ ~WireOpens(k) => governed' = governed /\ unopened' = unopened \cup {s}
  BY <1>0 DEF WireOpens, WireFails, MayNotOpen, history
<1>3. ASSUME NEW n \in Service \ raced, n # s PROVE Wired(n)'
  <2>1. /\ \A j \in Calls : Wiring(j, n)' <=> Wiring(j, n)
        /\ \A j \in Calls : Wiring(j, n) => call'[j].load = call[j].load
        /\ \A j \in Calls : Spawner(j, n)' => Spawner(j, n)
        /\ \A j \in Calls : Opening(j, n) <=> Opening(j, n)'
    <3>1. call[k].on # n /\ call'[k].pc \notin {"wire"} \cup Spawning
      BY <1>0, <1>1, <1>3 DEF Spawning
    <3>2. QED
      BY <1>1, <3>1, OthersWiring
  <2>2. governed'[n] = governed[n] /\ (n \in unopened => n \in unopened')
    BY <1>2, <1>3 DEF Governed, TypeInv, Typed, TypeOK
  <2>3. Wired(n) /\ (n \in Registered' => n \in Registered)
    BY <1>2 DEF BudgetsAreWired, Registered
  <2>4. QED
    BY <1>2, <2>1, <2>2, <2>3, WiredKept
<1>4. ASSUME s \notin raced PROVE Wired(s)'
  <2>1. \A j \in Calls : ~Wiring(j, s)'
    BY <1>1 DEF Others, Wiring, OneReload, Reloading
  <2>2. s \in Registered => record[s].config = call[k].load[s]
    BY <1>1, <1>4 DEF BudgetsAreWired, Wired
  <2>3. CASE WireOpens(k)
    <3>1. s \in Registered' /\ record'[s].config \in Budgeted => governed'[s] = record'[s].config
      BY <1>1, <1>2, <2>2, <2>3 DEF Governed, TypeInv, Typed, TypeOK, Registered
    <3>2. QED
      BY <2>1, <3>1 DEF Wired
  <2>4. CASE ~WireOpens(k)
    BY <1>2, <2>1, <2>4 DEF Wired
  <2>5. QED
    BY <2>3, <2>4
<1>5. QED
  BY <1>2, <1>3, <1>4 DEF BudgetsAreWired

\* A name that a reload visits: what is new or changed and has a budget is being wired.
LEMMA BudgetsVisit ==
    ASSUME TypeInv, LifeInv, OneReload, BudgetsAreWired, NEW k \in Calls, NEW s \in Service,
           Adds(k, s) \/ Keeps(k, s) \/ Stages(k, s) \/ Updates(k, s)
    PROVE  BudgetsAreWired'
<1> DEFINE wires == Adds(k, s) \/ Updates(k, s)
<1>1. /\ Others(k) /\ call[k].pc = "reconcile" /\ call[k].load[s] \in Definition
      /\ call'[k].load = call[k].load
      /\ \/ call'[k].pc = "reconcile"
         \/ call'[k].pc = "wire" /\ call'[k].on = s /\ wires
      /\ wires /\ call[k].load[s] \in Budgeted => call'[k].pc = "wire"
  BY VisitMoves
<1>2. /\ Registered' = Registered \cup {s}
      /\ \A n \in Service \ {s} : record'[n] = record[n]
      /\ Stages(k, s) => record'[s].config = record[s].config
      /\ ~Stages(k, s) => record'[s].config = call[k].load[s]
  BY VisitRegisters
<1>3. child' = child /\ raced \subseteq raced'
  BY DEF Adds, Keeps, Stages, Updates, Visits, Wires
<1>4. ASSUME NEW n \in Service PROVE (n # s \/ ~wires) => governed'[n] = governed[n] /\ (n \in unopened => n \in unopened')
  BY DEF Adds, Keeps, Stages, Updates, Wires, Governed, TypeInv, Typed, TypeOK
<1>5. ASSUME NEW n \in Service \ raced', n # s \/ ~wires PROVE Wired(n)'
  <2>1. /\ \A j \in Calls : Wiring(j, n)' <=> Wiring(j, n)
        /\ \A j \in Calls : Wiring(j, n) => call'[j].load = call[j].load
        /\ \A j \in Calls : Spawner(j, n)' => Spawner(j, n)
        /\ \A j \in Calls : Opening(j, n) <=> Opening(j, n)'
    <3>1. /\ call[k].pc \notin {"wire"} \cup Spawning
          /\ call'[k].pc \in {"wire"} \cup Spawning => call'[k].on # n
      BY <1>1, <1>5 DEF Spawning
    <3>2. QED
      BY <1>1, <3>1, OthersWiring
  <2>2. n \in Registered' => n \in Registered /\ record'[n].config = record[n].config
    <3>1. CASE n = s
      BY <1>2, <1>5, <3>1 DEF Keeps, Stages
    <3>2. CASE n # s
      BY <1>2, <3>2
    <3>3. QED
      BY <3>1, <3>2
  <2>3. Wired(n)
    BY <1>3 DEF BudgetsAreWired
  <2>4. QED
    BY <1>3, <1>4, <1>5, <2>1, <2>2, <2>3, WiredKept
<1>6. ASSUME wires, s \notin raced' PROVE Wired(s)'
  <2>1. raced' = raced \cup OnTheirWay({s}) /\ (s \notin Registered \/ child[s] = None)
    BY <1>6 DEF Adds, Updates, Wires
  <2>2. child[s] = None
    BY <1>6, <2>1 DEF LifeInv, RunsItsRecord
  <2>3. \A j \in Calls : ~Spawner(j, s)
    BY <1>6, <2>1 DEF OnTheirWay, InProgress, Spawner
  <2>4. \A j \in Calls : ~Spawner(j, s)'
    BY <1>1, <2>3 DEF Others, Spawner, Spawning
  <2>5. \A j \in Calls : Wiring(j, s)' => j = k
    BY <1>1 DEF Others, Wiring, OneReload, Reloading
  <2>6. record'[s].config = call[k].load[s]
    <3>1. ~Stages(k, s)
      BY <1>6, <2>2 DEF Stages
    <3>2. QED
      BY <1>2, <3>1
  <2>7. record'[s].config \in Budgeted => Wiring(k, s)'
    BY <1>1, <1>6, <2>6 DEF Wiring
  <2>8. QED
    BY <1>1, <1>3, <2>2, <2>4, <2>5, <2>6, <2>7 DEF Wired
<1>7. QED
  BY <1>5, <1>6 DEF BudgetsAreWired

\* A child is spawned after its budget is governed.
LEMMA BudgetsSpawn ==
    ASSUME TypeInv, OneStart, BudgetsAreWired, NEW k \in Calls, Spawns(k)
    PROVE  BudgetsAreWired'
<1>1. PICK s \in Service : s = call[k].on
  BY DEF Spawns, TypeInv, Typed, CallsFit, CallFits, Spawning
<1>2. /\ Spawner(k, s) /\ call[k].pc = "log"
      /\ \A n \in Service \ {s} : child'[n] = child[n]
      /\ UNCHANGED <<record, governed, unopened, raced>>
  BY <1>1 DEF Spawns, Spawner, Spawning, TypeInv, Typed, TypeOK, history
<1>3. \A j \in Calls : Elsewhere(j)
  BY ElsewhereCalls
<1>4. ASSUME NEW n \in Service \ raced, n # s PROVE Wired(n)'
  BY <1>2, <1>3, <1>4, ElsewhereWiring, WiredKept DEF BudgetsAreWired, Registered
<1>5. ASSUME s \notin raced PROVE Wired(s)'
  <2>1. \A j \in Calls : ~Wiring(j, s) /\ ~Opening(j, s)
    <3>1. \A j \in Calls : ~Wiring(j, s)
      BY <1>2, <1>5 DEF BudgetsAreWired, Wired
    <3>2. ASSUME NEW j \in Calls, Opening(j, s) PROVE FALSE
      <4>1. s \in Claims(j) /\ s \in Claims(k) /\ j # k
        BY <1>2, <3>2 DEF Opening, Spawner, Claims, ClaimsOf, Spawning
      <4>2. QED
        BY <4>1 DEF OneStart
    <3>3. QED
      BY <3>1, <3>2
  <2>2. \A j \in Calls : ~Wiring(j, s)'
    BY <1>3, <2>1, ElsewhereWiring
  <2>3. s \in Registered \ unopened /\ record[s].config \in Budgeted => governed[s] = record[s].config
    BY <1>5, <2>1 DEF BudgetsAreWired, Wired
  <2>4. QED
    BY <1>2, <2>2, <2>3 DEF Wired, Registered
<1>6. QED
  BY <1>2, <1>4, <1>5 DEF BudgetsAreWired

\* Services leave the registry.
LEMMA BudgetsRemoved ==
    ASSUME TypeInv, BudgetsAreWired,
           (\E k \in Calls : ReloadReturns(k)) \/ (\E s \in Service : ExitDeregisters(s))
    PROVE  BudgetsAreWired'
<1>1. /\ raced \subseteq raced' /\ unopened' = unopened
      /\ \A n \in Service : child'[n] \in {child[n], None}
      /\ \A n \in Registered' : /\ n \in Registered /\ record'[n].config = record[n].config
                                /\ governed'[n] = governed[n]
  <2>1. ASSUME NEW k \in Calls, ReloadReturns(k)
        PROVE  /\ raced \subseteq raced' /\ unopened' = unopened /\ child' = child
               /\ \A n \in Registered' : /\ n \in Registered /\ record'[n].config = record[n].config
                                         /\ governed'[n] = governed[n]
    <3>1. /\ Registered' = Registered \ Dropped(k) /\ Deregister(Dropped(k))
          /\ \A n \in Registered \ Fileless(k) : record'[n] = record[n]
          /\ \A n \in Fileless(k) \ Dropped(k) : record'[n].config = record[n].config
      BY <2>1, Removals DEF TypeInv
    <3>2. \A n \in Registered' : n \in Service /\ n \notin Dropped(k)
      BY <3>1 DEF Registered
    <3>3. QED
      BY <2>1, <3>1, <3>2 DEF ReloadReturns, Deregister
  <2>2. ASSUME NEW s \in Service, ExitDeregisters(s)
        PROVE  /\ raced \subseteq raced' /\ unopened' = unopened
               /\ \A n \in Service : child'[n] \in {child[n], None}
               /\ \A n \in Registered' : /\ n \in Registered /\ record'[n].config = record[n].config
                                         /\ governed'[n] = governed[n]
    <3>1. /\ raced \subseteq raced' /\ unopened' = unopened
          /\ record' = [record EXCEPT ![s] = None] /\ child' = [child EXCEPT ![s] = None]
          /\ governed' = [n \in Service |-> IF n \in {s} THEN None ELSE governed[n]]
      BY <2>2 DEF ExitDeregisters, Leaves, Deregister
    <3>2. \A n \in Registered' : n \in Service /\ n # s /\ record'[n] = record[n]
      BY <3>1 DEF Registered, TypeInv, Typed, TypeOK
    <3>3. QED
      BY <3>1, <3>2 DEF Registered, TypeInv, Typed, TypeOK
  <2>3. QED
    BY <2>1, <2>2
<1>2. ASSUME NEW n \in Service \ raced' PROVE Wired(n)'
  <2>1. Wired(n)
    BY <1>1 DEF BudgetsAreWired
  <2>2. QED
    BY <1>1, <2>1, ElsewhereDetached, ElsewhereWiring, WiredKept
<1>3. QED
  BY <1>2 DEF BudgetsAreWired

\* A boot opens the budget stores of all it registers.
LEMMA BudgetsAcrossCrash ==
    ASSUME TypeInv, Crash \/ \E k \in Calls : Boot(k)
    PROVE  BudgetsAreWired'
<1>1. \A j \in Calls, s \in Service : ~Wiring(j, s)'
  BY AcrossCrash DEF Wiring
<1>2. CASE Crash
  BY <1>1, <1>2 DEF Crash, Off, NoDefinitions, Registered, BudgetsAreWired, Wired
<1>3. ASSUME NEW k \in Calls, Boot(k) PROVE BudgetsAreWired'
  <2>1. ASSUME NEW s \in Registered', record'[s].config \in Budgeted
        PROVE  governed'[s] = record'[s].config
    <3>1. s \in Service /\ record'[s] = BootRecord(s) /\ record'[s] # None
      BY <1>3, <2>1 DEF Boot, Registered
    <3>2. record'[s].config = files[s]
      BY <3>1 DEF BootRecord
    <3>3. QED
      BY <1>3, <2>1, <3>1, <3>2 DEF Boot
  <2>2. QED
    BY <1>1, <2>1 DEF BudgetsAreWired, Wired
<1>4. QED
  BY <1>2, <1>3

\* Where no service is started again while it is being started, and no second reload begins
\* during one: every definition with a budget is governed, or will be before it runs.
THEOREM BudgetsInvariant == ASSUME "again" \notin Overlap PROVE Spec => []BudgetsAreWired
<1>1. Init => BudgetsAreWired
  <2>1. Idle.pc = "idle"
    BY DEF Idle
  <2>2. ASSUME Init, NEW s \in Service PROVE s \notin Registered /\ \A k \in Calls : ~Wiring(k, s)
    BY <2>1, <2>2 DEF Init, NoDefinitions, Wiring, Registered
  <2>3. QED
    BY <2>2 DEF BudgetsAreWired, Wired
<1>2. ASSUME TypeInv, DurableInv, OneStart, LifeInv, OneReload, BudgetsAreWired, [Next]_vars
      PROVE  BudgetsAreWired'
  <2>1. CASE Crash \/ \E k \in Calls : Boot(k)
    BY <1>2, <2>1, BudgetsAcrossCrash
  <2>2. CASE \E k \in Calls : ReloadReturns(k) \/ Spawns(k)
    BY <1>2, <2>2, BudgetsRemoved, BudgetsSpawn
  <2>3. CASE \E s \in Service : ExitDeregisters(s)
    BY <1>2, <2>3, BudgetsRemoved
  <2>4. ASSUME NEW s \in Service, Edit(s) PROVE BudgetsAreWired'
    <3>1. UNCHANGED <<record, child, call, raced, governed, unopened>>
      BY <2>4 DEF Edit, lifecycle
    <3>2. QED
      BY <1>2, <3>1 DEF BudgetsAreWired, Wired, Wiring, Spawner, Opening, Registered
  <2>5. ASSUME NEW k \in Calls, Moves(k) PROVE BudgetsAreWired'
    <3>1. CASE Reload(k) \/ \E s \in Service : Reads(k, s)
      <4>1. /\ Others(k) /\ call[k].pc \in {"idle", "load"}
            /\ call'[k].pc \in {"load", "reconcile"}
        BY <1>2, <3>1, ReloadMoves, ReadMoves
      <4>2. UNCHANGED <<record, child, raced, governed, unopened>>
        BY <3>1 DEF Reload, Reads, lifecycle, history
      <4>3. ASSUME NEW n \in Service \ raced PROVE Wired(n)'
        <5>1. call[k].pc \notin {"wire"} \cup Spawning /\ call'[k].pc \notin {"wire"} \cup Spawning
          BY <4>1 DEF Spawning
        <5>2. /\ \A j \in Calls : Wiring(j, n)' <=> Wiring(j, n)
              /\ \A j \in Calls : Wiring(j, n) => call'[j].load = call[j].load
              /\ \A j \in Calls : Spawner(j, n)' => Spawner(j, n)
              /\ \A j \in Calls : Opening(j, n) <=> Opening(j, n)'
          BY <4>1, <5>1, OthersWiring
        <5>3. Wired(n)
          BY <1>2 DEF BudgetsAreWired
        <5>4. QED
          BY <1>2, <4>2, <5>2, <5>3, WiredKept DEF Registered, TypeInv, Typed, TypeOK
      <4>4. QED
        BY <4>2, <4>3 DEF BudgetsAreWired
    <3>2. ASSUME NEW s \in Service, Starting(k, s) PROVE BudgetsAreWired'
      BY <1>2, <3>2, StartingBegins, BudgetsBegin
    <3>3. QED
      BY <1>2, <2>5, <3>1, <3>2, BudgetsAtStore, BudgetsAtWire, BudgetsVisit DEF Moves
  <2>6. CASE Steady
    <3>1. CASE \A j \in Calls : Elsewhere(j)
      BY <1>2, <2>6, <3>1, BudgetsSteady
    <3>2. QED
      BY <1>2, <2>1, <2>5, <3>1, StepsElsewhere DEF Moves
  <2>7. QED
    BY <1>2, <2>1, <2>2, <2>3, <2>4, <2>5, <2>6, StepKinds
<1>3. QED
  BY <1>1, <1>2, TypeCorrect, DurableInvariant, ApartInvariant, LifeInvariant, OneReloadInvariant,
     PTL DEF Spec

\* A running service with a budget is governed by the budget of the definition it runs on, however
\* it got that definition; only a store that did not open leaves it without.
THEOREM BudgetTheorem == ASSUME "again" \notin Overlap PROVE Spec => []RunsWithinItsBudget
<1>1. ASSUME BudgetsAreWired PROVE RunsWithinItsBudget
  <2>1. ASSUME NEW s \in Service, child[s] # None, s \in Registered, record[s].config \in Budgeted
        PROVE  governed[s] = record[s].config \/ s \in unopened \cup raced
    BY <1>1, <2>1 DEF BudgetsAreWired, Wired
  <2>2. QED
    BY <2>1 DEF RunsWithinItsBudget
<1>2. QED
  BY <1>1, BudgetsInvariant, PTL

-----------------------------------------------------------------------------
(* The registry against the files. *)

\* What a reload has read or reconciled fits, where it goes on as it was.
LEMMA FitsKept ==
    ASSUME NEW j \in Calls, ReloadFits(j), files' = files, \A n \in Service : UpToDate(n) => UpToDate(n)',
           call'[j].pc \in Reloading => Same(j)
    PROVE  ReloadFits(j)'
BY DEF ReloadFits, ValidFile, Same, Reloading

\* A step that leaves what is up to date up to date, and every reload where it is.
LEMMA FilesKept ==
    ASSUME FilesAreRead, files' = files, agreed' = agreed,
           \A n \in Service : UpToDate(n) => UpToDate(n)',
           \A j \in Calls : call'[j].pc \in Reloading => Same(j)
    PROVE  FilesAreRead'
<1>1. agreed' = "agreed" =>
         (\A k \in Calls : call'[k].pc \notin Reloading) /\ \A n \in Service : UpToDate(n)'
  BY DEF FilesAreRead, Same
<1>2. agreed' = "loading" => \A k \in Calls : ReloadFits(k)'
  BY FitsKept DEF FilesAreRead
<1>3. QED
  BY <1>1, <1>2 DEF FilesAreRead

LEMMA ElsewhereSame ==
    ASSUME \A j \in Calls : Elsewhere(j)
    PROVE  \A j \in Calls : call'[j].pc \in Reloading => Same(j)
BY DEF Elsewhere

\* A service that keeps its definitions, and runs on if it is an orphan, is as up to date as it was.
LEMMA UpToDateKept ==
    ASSUME NEW n \in Service, UpToDate(n), files' = files,
           record'[n] = None <=> record[n] = None,
           record[n] # None => /\ Upcoming(n)' = Upcoming(n)
                               /\ record'[n].orphaned = record[n].orphaned,
           record[n] # None /\ child[n] # None => child'[n] # None \/ ~record[n].orphaned
    PROVE  UpToDate(n)'
BY DEF UpToDate, Registered

LEMMA FilesSteady ==
    ASSUME TypeInv, FilesAreRead, Steady, \A j \in Calls : Elsewhere(j)
    PROVE  FilesAreRead'
<1>1. ASSUME NEW n \in Service, UpToDate(n) PROVE UpToDate(n)'
  <2>1. record[n] # None => Upcoming(n)' = Upcoming(n)
    BY DEF Steady, SameDefinitions, Upcoming
  <2>2. record[n] # None /\ child[n] # None => child'[n] # None \/ ~record[n].orphaned
    BY DEF Steady, Registered
  <2>3. QED
    BY <1>1, <2>1, <2>2, UpToDateKept DEF Steady, SameDefinitions
<1>2. QED
  BY <1>1, ElsewhereSame, FilesKept DEF Steady

\* A start adopts what its service was to run next.
LEMMA FilesBegin ==
    ASSUME TypeInv, FilesAreRead, NEW k \in Calls, NEW s \in Service, Begins(k, s)
    PROVE  FilesAreRead'
<1>1. UNCHANGED <<files, agreed, child>>
  BY DEF Begins
<1>2. ASSUME NEW n \in Service, UpToDate(n) PROVE UpToDate(n)'
  <2>1. record'[n] = None <=> record[n] = None
    BY DEF Begins, Registered
  <2>2. record[n] # None => Upcoming(n)' = Upcoming(n) /\ record'[n].orphaned = record[n].orphaned
    BY DEF Begins, Upcoming
  <2>3. QED
    BY <1>1, <1>2, <2>1, <2>2, UpToDateKept
<1>3. \A j \in Calls : call'[j].pc \in Reloading => Same(j)
  BY DEF Begins, Same, Spawner, Spawning, Reloading
<1>4. QED
  BY <1>1, <1>2, <1>3, FilesKept

\* The budget store of a start, or of a reload.
LEMMA FilesAtStore ==
    ASSUME TypeInv, FilesAreRead, NEW k \in Calls,
           StoreOpens(k) \/ StoreFails(k) \/ WireOpens(k) \/ WireFails(k)
    PROVE  FilesAreRead'
<1>1. CASE StoreOpens(k) \/ StoreFails(k)
  <2>1. UNCHANGED <<files, agreed, child>>
    BY <1>1 DEF StoreOpens, StoreFails, history
  <2>2. SameDefinitions
    <3>1. call[k].on \in Service /\ (call[k].own = None => call[k].on \in Registered)
      BY <1>1 DEF StoreOpens, StoreFails, TypeInv, Typed, CallsFit, CallFits, Spawning
    <3>2. \/ record' = record
          \/ call[k].on \in Registered /\ record' = [record EXCEPT ![call[k].on].state = "starting"]
      BY <1>1, <3>1 DEF StoreOpens, StoreFails
    <3>3. QED
      BY <3>1, <3>2, SteadyState DEF States
  <2>3. ASSUME NEW n \in Service, UpToDate(n) PROVE UpToDate(n)'
    BY <2>1, <2>2, <2>3, UpToDateKept DEF SameDefinitions, Upcoming
  <2>4. \A j \in Calls : call'[j].pc \in Reloading => Same(j)
    BY <1>1, StoreMoves DEF Others, Same, Reloading
  <2>5. QED
    BY <2>1, <2>3, <2>4, FilesKept
<1>2. CASE WireOpens(k)
  <2>1. /\ Others(k) /\ call[k].pc = "wire" /\ call'[k].pc = "reconcile"
        /\ call'[k].load = call[k].load /\ call'[k].todo = call[k].todo
    BY <1>2, WireMoves
  <2>2. UNCHANGED <<files, agreed, child, record>>
    BY <1>2 DEF WireOpens, history
  <2>3. \A n \in Service : UpToDate(n)' = UpToDate(n)
    BY <2>2 DEF UpToDate, Upcoming, Registered
  <2>4. ASSUME agreed = "loading", NEW j \in Calls PROVE ReloadFits(j)'
    <3>1. ReloadFits(j)
      BY <2>4 DEF FilesAreRead
    <3>2. CASE j = k
      BY <2>1, <2>2, <2>3, <3>1, <3>2 DEF ReloadFits, ValidFile
    <3>3. CASE j # k
      BY <2>1, <2>2, <2>3, <3>1, <3>3, FitsKept DEF Others, Same
    <3>4. QED
      BY <3>2, <3>3
  <2>5. agreed # "agreed"
    BY <2>1 DEF FilesAreRead, Reloading
  <2>6. QED
    BY <2>2, <2>4, <2>5 DEF FilesAreRead
<1>3. CASE WireFails(k)
  BY <1>3 DEF WireFails, FilesAreRead
<1>4. QED
  BY <1>1, <1>2, <1>3

\* A reload begins with nothing read, and reads one file after the other.
LEMMA FilesLoad ==
    ASSUME "again" \notin Overlap, TypeInv, OneReload, FilesAreRead, NEW k \in Calls,
           Reload(k) \/ \E s \in Service : Reads(k, s)
    PROVE  FilesAreRead'
<1>1. CASE Reload(k)
  <2>1. /\ Others(k) /\ call'[k].load = [n \in Service |-> None]
        /\ call'[k].todo = {n \in Service : files[n] # None}
        /\ call'[k].pc \in {"load", "reconcile"}
    BY <1>1, ReloadMoves
  <2>2. files' = files /\ agreed' = "loading"
    BY <1>1 DEF Reload
  <2>3. \A n \in Service : files[n] = None => ValidFile(n) = None
    BY FileWatchAssumption DEF ValidFile
  <2>4. \A n \in Service : files[n] \in Definition => files[n] # None
    BY FileWatchAssumption
  <2>5. call'[k].todo = {} => \A n \in Service : files[n] = None
    BY <2>1
  <2>6. call'[k].pc = "reconcile" => call'[k].todo = {}
    BY <1>1, ReloadMoves
  <2>7. ReloadFits(k)'
    BY <2>1, <2>2, <2>3, <2>4, <2>5, <2>6 DEF ReloadFits, ValidFile
  <2>8. ASSUME NEW j \in Calls \ {k} PROVE ReloadFits(j)'
    <3>1. call'[j].pc \notin Reloading
      BY <1>1, <2>1 DEF Reload, MayReload, InProgress, Others
    <3>2. QED
      BY <3>1 DEF ReloadFits, Reloading
  <2>9. QED
    BY <2>2, <2>7, <2>8 DEF FilesAreRead
<1>2. ASSUME NEW s \in Service, Reads(k, s) PROVE FilesAreRead'
  <2>1. /\ Others(k) /\ call[k].pc = "load" /\ s \in call[k].todo
        /\ \A n \in Service : call'[k].load[n] =
             IF n # s THEN call[k].load[n] ELSE IF files[s] = Broken THEN None ELSE files[s]
        /\ \/ call'[k].pc = "load" /\ call'[k].todo = call[k].todo \ {s}
           \/ /\ call'[k].pc = "reconcile" /\ call[k].todo = {s}
              /\ call'[k].todo = {n \in Service : call'[k].load[n] # None}
    BY <1>2, ReadMoves
  <2>2. UNCHANGED <<files, agreed>>
    BY <1>2 DEF Reads, history
  <2>3. agreed # "agreed"
    BY <2>1 DEF FilesAreRead, Reloading
  <2>4. ASSUME agreed = "loading" PROVE ReloadFits(k)'
    <3>1. /\ \A n \in call[k].todo : n \in Service => files[n] # None
          /\ \A n \in Service : n \notin call[k].todo => call[k].load[n] = ValidFile(n)
      BY <2>1, <2>4 DEF FilesAreRead, ReloadFits
    <3>2. call'[k].load[s] = ValidFile(s)
      BY <2>1, <3>1, RegistryAssumption DEF ValidFile, TypeInv, Typed, TypeOK
    <3>3. \A n \in Service : n \notin call[k].todo \ {s} => call'[k].load[n] = ValidFile(n)
      BY <2>1, <3>1, <3>2
    <3>4. CASE call'[k].pc = "load"
      BY <2>1, <2>2, <3>1, <3>3, <3>4 DEF ReloadFits, ValidFile
    <3>5. CASE call'[k].pc = "reconcile"
      <4>1. \A n \in Service : call'[k].load[n] = ValidFile(n)
        BY <2>1, <3>3, <3>5
      <4>2. \A n \in Service : n \notin call'[k].todo => ValidFile(n) = None
        BY <2>1, <3>5, <4>1
      <4>3. \A n \in Service : files[n] \in Definition => n \in call'[k].todo
        BY <4>2, FileWatchAssumption DEF ValidFile
      <4>4. QED
        BY <2>2, <3>5, <4>1, <4>3 DEF ReloadFits, ValidFile
    <3>6. QED
      BY <2>1, <3>4, <3>5
  <2>5. ASSUME NEW j \in Calls \ {k} PROVE ReloadFits(j)'
    <3>1. call'[j].pc \notin Reloading
      BY <2>1 DEF OneReload, Reloading, Others
    <3>2. QED
      BY <3>1 DEF ReloadFits, Reloading
  <2>6. QED
    BY <2>2, <2>3, <2>4, <2>5 DEF FilesAreRead
<1>3. QED
  BY <1>1, <1>2

\* A name that a reload visited is up to date.
LEMMA FilesVisit ==
    ASSUME TypeInv, OneReload, FilesAreRead, NEW k \in Calls, NEW s \in Service,
           Adds(k, s) \/ Keeps(k, s) \/ Stages(k, s) \/ Updates(k, s)
    PROVE  FilesAreRead'
<1>1. /\ Others(k) /\ call[k].pc = "reconcile" /\ call[k].load[s] \in Definition
      /\ call'[k].load = call[k].load /\ call'[k].todo = call[k].todo \ {s}
      /\ call'[k].pc \in {"reconcile", "wire"}
  BY VisitMoves
<1>2. /\ Registered' = Registered \cup {s} /\ \A n \in Service \ {s} : record'[n] = record[n]
      /\ ~record'[s].orphaned
      /\ Stages(k, s) => record'[s].pending = call[k].load[s]
      /\ ~Stages(k, s) => record'[s].config = call[k].load[s] /\ record'[s].pending = None
  BY VisitRegisters
<1>3. UNCHANGED <<files, agreed, child>>
  BY DEF Adds, Keeps, Stages, Updates, Visits
<1>4. agreed # "agreed"
  BY <1>1 DEF FilesAreRead, Reloading
<1>5. Upcoming(s)' = call[k].load[s]
  BY <1>1, <1>2, FileWatchAssumption DEF Upcoming
<1>6. ASSUME agreed = "loading" PROVE ReloadFits(k)'
  <2>1. \A n \in Service : /\ call[k].load[n] = ValidFile(n)
                           /\ n \notin call[k].todo /\ files[n] \in Definition => UpToDate(n)
    BY <1>1, <1>6 DEF FilesAreRead, ReloadFits
  <2>2. files[s] \in Definition => UpToDate(s)'
    BY <1>2, <1>3, <1>5, <2>1 DEF UpToDate, ValidFile
  <2>3. ASSUME NEW n \in Service \ {s}, UpToDate(n) PROVE UpToDate(n)'
    BY <1>2, <1>3, <2>3, UpToDateKept DEF Upcoming, Registered
  <2>4. QED
    BY <1>1, <1>3, <2>1, <2>2, <2>3 DEF ReloadFits, ValidFile
<1>7. ASSUME NEW j \in Calls \ {k} PROVE ReloadFits(j)'
  <2>1. call'[j].pc \notin Reloading
    BY <1>1 DEF OneReload, Reloading, Others
  <2>2. QED
    BY <2>1 DEF ReloadFits, Reloading
<1>8. QED
  BY <1>3, <1>4, <1>6, <1>7 DEF FilesAreRead

\* A reload that returns drops what has no file, or keeps it as an orphan while it runs.
LEMMA FilesReturn ==
    ASSUME TypeInv, OneReload, FilesAreRead, NEW k \in Calls, ReloadReturns(k)
    PROVE  FilesAreRead'
<1>1. /\ Registered' = Registered \ Dropped(k)
      /\ \A n \in Registered \ Fileless(k) : record'[n] = record[n]
      /\ \A n \in Fileless(k) \ Dropped(k) : record'[n].orphaned
  BY Removals DEF TypeInv
<1>2. /\ call[k].pc = "reconcile" /\ call[k].todo = {} /\ UNCHANGED <<files, child>>
      /\ agreed' = IF agreed = "loading" THEN "agreed" ELSE agreed
  BY DEF ReloadReturns
<1>3. agreed # "agreed"
  BY <1>2 DEF FilesAreRead, Reloading
<1>4. \A j \in Calls : call'[j].pc \notin Reloading
  <2>1. \A j \in Calls : Elsewhere(j)
    BY ElsewhereDetached
  <2>2. call' = Detached([call EXCEPT ![k] = Idle], Dropped(k))
    BY Removals DEF TypeInv
  <2>3. Idle.pc = "idle"
    BY DEF Idle
  <2>4. call'[k].pc = "idle"
    BY <2>2, <2>3 DEF Detached, TypeInv, Typed, TypeOK, Spawning
  <2>5. ASSUME NEW j \in Calls \ {k} PROVE call'[j].pc \notin Reloading
    BY <1>2, <2>1 DEF OneReload, Reloading, Elsewhere, Same
  <2>6. QED
    BY <2>4, <2>5 DEF Reloading
<1>5. ASSUME agreed = "loading", NEW n \in Service PROVE UpToDate(n)'
  <2>1. call[k].load[n] = ValidFile(n) /\ (files[n] \in Definition => UpToDate(n))
    BY <1>2, <1>5 DEF FilesAreRead, ReloadFits
  <2>2. CASE files[n] \in Definition
    <3>1. n \in Registered \ Fileless(k) /\ ~record[n].orphaned /\ Upcoming(n) = files[n]
      BY <2>1, <2>2, FileWatchAssumption DEF UpToDate, ValidFile, Fileless
    <3>2. n \in Registered' /\ record'[n] = record[n]
      BY <1>1, <3>1 DEF Dropped
    <3>3. QED
      BY <1>2, <2>2, <3>1, <3>2 DEF UpToDate, Upcoming
  <2>3. CASE files[n] \notin Definition
    <3>1. ASSUME n \in Registered' PROVE record'[n].orphaned /\ child[n] # None
      BY <1>1, <2>1, <2>3, <3>1 DEF ValidFile, Fileless, Dropped
    <3>2. QED
      BY <1>2, <2>3, <3>1 DEF UpToDate
  <2>4. QED
    BY <2>2, <2>3
<1>6. QED
  BY <1>2, <1>3, <1>4, <1>5 DEF FilesAreRead

\* An orphan that exits, a child that is spawned.
LEMMA FilesOfChildren ==
    ASSUME TypeInv, FilesAreRead,
           (\E k \in Calls : Spawns(k)) \/ (\E s \in Service : ExitDeregisters(s))
    PROVE  FilesAreRead'
<1>1. ASSUME NEW k \in Calls, Spawns(k) PROVE FilesAreRead'
  <2>1. UNCHANGED <<files, agreed, record>>
    BY <1>1 DEF Spawns, history
  <2>2. \A n \in Service : child[n] # None => child'[n] # None
    <3>1. [args |-> call[k].args, rest |-> Held(k)] # None
      <4>1. call[k].args \in Definition /\ Held(k) \in Definition
        BY <1>1, HeldTyped DEF Spawns, TypeInv, Typed, CallsFit, CallFits, Spawning
      <4>2. QED
        BY <4>1, NullAssumption DEF Child
    <3>2. QED
      BY <1>1, <3>1 DEF Spawns, TypeInv, Typed, TypeOK
  <2>3. ASSUME NEW n \in Service, UpToDate(n) PROVE UpToDate(n)'
    BY <2>1, <2>2, <2>3, UpToDateKept DEF Upcoming
  <2>4. QED
    BY <1>1, <2>1, <2>3, ElsewhereCalls, ElsewhereSame, FilesKept
<1>2. ASSUME NEW s \in Service, ExitDeregisters(s) PROVE FilesAreRead'
  <2>1. /\ UNCHANGED <<files, agreed>> /\ s \in Registered /\ record[s].orphaned
        /\ record' = [record EXCEPT ![s] = None] /\ child' = [child EXCEPT ![s] = None]
    BY <1>2 DEF ExitDeregisters, Leaves
  <2>2. ASSUME NEW n \in Service, UpToDate(n) PROVE UpToDate(n)'
    <3>1. CASE n = s
      <4>1. s \notin Registered' /\ files[s] \notin Definition
        BY <2>1, <2>2, <3>1 DEF UpToDate, Registered, TypeInv, Typed, TypeOK
      <4>2. QED
        BY <2>1, <3>1, <4>1 DEF UpToDate
    <3>2. CASE n # s
      <4>1. record'[n] = record[n] /\ child'[n] = child[n]
        BY <2>1, <3>2 DEF TypeInv, Typed, TypeOK
      <4>2. QED
        BY <2>1, <2>2, <4>1, UpToDateKept DEF Upcoming
    <3>3. QED
      BY <3>1, <3>2
  <2>3. QED
    BY <1>2, <2>1, <2>2, ElsewhereDetached, ElsewhereSame, FilesKept
<1>3. QED
  BY <1>1, <1>2

\* A boot registers the files as they are.
LEMMA FilesAcrossCrash ==
    ASSUME TypeInv, Crash \/ \E k \in Calls : Boot(k)
    PROVE  FilesAreRead'
<1>1. CASE Crash
  BY <1>1 DEF Crash, FilesAreRead
<1>2. ASSUME NEW k \in Calls, Boot(k) PROVE FilesAreRead'
  <2>1. \A j \in Calls : call'[j].pc \notin Reloading
    BY <1>2, AcrossCrash DEF Reloading
  <2>2. ASSUME NEW s \in Service PROVE UpToDate(s)'
    <3>1. record'[s] = BootRecord(s) /\ files' = files
      BY <1>2 DEF Boot
    <3>2. CASE files[s] \in Definition
      <4> DEFINE t == IF s \in disk.quarantined THEN "quarantined" ELSE "stopped"
                 r == [config |-> files[s], pending |-> None, orphaned |-> FALSE, state |-> t]
      <4>1. r \in Record /\ r.config = files[s] /\ r.pending = None /\ ~r.orphaned
        BY <3>2 DEF Record, States
      <4>2. record'[s] = r
        BY <3>1, <3>2 DEF BootRecord
      <4> HIDE DEF r
      <4>3. record'[s] # None
        BY <4>1, <4>2, NullAssumption
      <4>4. QED
        BY <3>1, <3>2, <4>1, <4>2, <4>3 DEF UpToDate, Upcoming, Registered
    <3>3. CASE files[s] \notin Definition
      BY <3>1, <3>3 DEF BootRecord, UpToDate, Registered
    <3>4. QED
      BY <3>2, <3>3
  <2>3. agreed' = "agreed"
    BY <1>2 DEF Boot
  <2>4. QED
    BY <2>1, <2>2, <2>3 DEF FilesAreRead
<1>3. QED
  BY <1>1, <1>2

\* Where no second reload begins during one: what a reload has read and reconciled agrees with the
\* files while nobody edits them, and so does the registry when it is over.
THEOREM FilesInvariant == ASSUME "again" \notin Overlap PROVE Spec => []FilesAreRead
<1>1. Init => FilesAreRead
  BY DEF Init, FilesAreRead
<1>2. ASSUME TypeInv, DurableInv, OneStart, OneReload, FilesAreRead, [Next]_vars
      PROVE  FilesAreRead'
  <2>1. CASE Crash \/ \E k \in Calls : Boot(k)
    BY <1>2, <2>1, FilesAcrossCrash
  <2>2. CASE \E k \in Calls : ReloadReturns(k) \/ Spawns(k)
    BY <1>2, <2>2, FilesReturn, FilesOfChildren
  <2>3. CASE \E s \in Service : Edit(s) \/ ExitDeregisters(s)
    BY <1>2, <2>3, FilesOfChildren DEF Edit, FilesAreRead
  <2>4. ASSUME NEW k \in Calls, Moves(k) PROVE FilesAreRead'
    BY <1>2, <2>4, StartingBegins, FilesBegin, FilesAtStore, FilesLoad, FilesVisit DEF Moves
  <2>5. CASE Steady
    <3>1. CASE \A j \in Calls : Elsewhere(j)
      BY <1>2, <2>5, <3>1, FilesSteady
    <3>2. QED
      BY <1>2, <2>1, <2>4, <3>1, StepsElsewhere DEF Moves
  <2>6. QED
    BY <1>2, <2>1, <2>2, <2>3, <2>4, <2>5, StepKinds
<1>3. QED
  BY <1>1, <1>2, TypeCorrect, DurableInvariant, ApartInvariant, OneReloadInvariant, PTL DEF Spec

\* When a reload ended and the files were not edited since it began, the next start of every
\* service uses its file; a service without one is gone, or an orphan that still runs.
THEOREM NextStartTheorem == ASSUME "again" \notin Overlap PROVE Spec => []NextStartUsesTheFile
<1>1. FilesAreRead => NextStartUsesTheFile
  BY DEF FilesAreRead, UpToDate, NextStartUsesTheFile
<1>2. QED
  BY <1>1, FilesInvariant, PTL

===============================================================================
