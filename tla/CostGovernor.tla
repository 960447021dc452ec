----------------------------- MODULE CostGovernor -----------------------------
(***************************************************************************)
(* The budget of ONE service: governor/cost.ts and budget/store.ts, with   *)
(* the boot path that recovers them (supervisor/index.ts startEnabled).    *)
(*                                                                         *)
(* Time is counted in ticks; a day is DayLength of them and a week         *)
(* WeekLength, both calendar-aligned (util/time.ts computes the real       *)
(* boundaries).  Every message costs one unit.  daily_tokens is a second   *)
(* counter of the daily window that behaves like daily_usd, and the        *)
(* archive of past days is never read back: both are left out.             *)
(*                                                                         *)
(* The life cycle of the service is what the governor sees of it: starts   *)
(* succeed, and stops end when the child exits; Supervisor.tla has the     *)
(* rest.  A step is the code between two suspension points; a call whose   *)
(* promise is settled goes on before anything else happens (Quiet).        *)
(***************************************************************************)
EXTENDS Naturals, Sequences

CONSTANTS
    Calls,      \* requests (and the boot) that can be in progress at once
    Charger,    \* the governor's per-service queue: one charge at a time
    None,       \* null value
    Requests,   \* the requests this instance exercises
    DayLength, WeekLength,
    CapDay, CapWeek,  \* the configured caps
    Unlimited,  \* the cap that is never reached
    Empty, Torn, \* contents of a file: just truncated; of two writes at once
    Ceilings,   \* caps that `pid resume` may set
    Notify,     \* on_exceed = "notify"
    Overlap,    \* what may come while something else is in progress; "charge": a
                \* message while a request writes the store
    MaxTime, MaxMessages, MaxCrashes  \* bounds

\* schema.ts and resume-args.ts take no cap of zero.
Caps == (Nat \ {0}) \cup {Unlimited}

ASSUME GovernorAssumption ==
    /\ Charger \notin Calls
    /\ None \notin Nat \cup {"tmp", "disk"} /\ Unlimited \notin Nat /\ None # Unlimited
    /\ Empty # None /\ Torn # None /\ Empty # Torn
    /\ Requests \subseteq {"start", "stop", "show", "reset", "override", "resetOverride"}
    /\ DayLength \in Nat \ {0}
    /\ WeekLength \in Nat \ {0} /\ WeekLength % DayLength = 0
    /\ CapDay \in Caps /\ CapWeek \in Caps /\ Ceilings \subseteq Caps
    /\ Notify \in BOOLEAN /\ Overlap \subseteq Requests \cup {"charge"}
    /\ MaxTime \in Nat /\ MaxMessages \in Nat /\ MaxCrashes \in Nat

VARIABLES
    now,                  \* the wall clock
    state, up,            \* record.state; a child is in the sidecar map
    books,                \* BudgetStore.state
    tmp, disk,            \* <name>.json.tmp and <name>.json
    paused, resumeAt,     \* Tracked.paused; when resumeHandle is due, or None
    queue,                \* timestamps of the messages still to be charged
    messages, lastAt,     \* messages so far, and the timestamp of the last
    op, pc,               \* of each call: what it is and where it is suspended
    instant,              \* the instant it attributes to, later the one to resume at
    view,                 \* the day and week objects its snapshot will be made of
    fd, buffer,           \* the file its write goes to, and what it writes
    daemon, crashes       \* "up" or "down"; crashes so far

service == <<state, up>>
files == <<tmp, disk, fd, buffer>>
governor == <<paused, resumeAt>>
events == <<queue, messages, lastAt>>
calls == <<op, pc, instant>>
clock == <<now, crashes>>
vars == <<clock, service, books, files, governor, events, calls, view, daemon>>

Slots == Calls \cup {Charger}

-----------------------------------------------------------------------------
(* Windows, caps and the books. *)

DayOf(t) == t \div DayLength
WeekOf(t) == t \div WeekLength

Unset == None  \* no override of this cap

NoBooks == [day |-> None, spentDay |-> 0, week |-> None, spentWeek |-> 0,
            capDay |-> Unset, capWeek |-> Unset]

\* ensureWindows(): the windows containing t, fresh unless they are the current ones.
Rolled(b, t) ==
    [day |-> DayOf(t), week |-> WeekOf(t),
     spentDay  |-> IF b.day = DayOf(t) THEN b.spentDay ELSE 0,
     spentWeek |-> IF b.week = WeekOf(t) THEN b.spentWeek ELSE 0,
     capDay    |-> IF b.day = DayOf(t) THEN b.capDay ELSE Unset,
     capWeek   |-> IF b.week = WeekOf(t) THEN b.capWeek ELSE Unset]

\* reset(): both windows start again, without overrides.
Zeroed(t) == Rolled(NoBooks, t)

\* Mutant: a charge forgets the weekly window.
ChargedDayOnly(b) == [b EXCEPT !.spentDay = @ + 1]

\* record(): the charge itself.
Charged(b) == [b EXCEPT !.spentDay = @ + 1, !.spentWeek = @ + 1]

\* applyOverride()
Effective(cap, override) == IF override = Unset THEN cap ELSE override

Reached(spent, cap) == cap # Unlimited /\ spent >= cap

\* evaluateBreach(): the ends of the windows whose caps are reached.
Breached(b) ==
    {e \in {(b.day + 1) * DayLength} : Reached(b.spentDay, Effective(CapDay, b.capDay))}
    \cup {e \in {(b.week + 1) * WeekLength} : Reached(b.spentWeek, Effective(CapWeek, b.capWeek))}

\* armResume(): the reset of the latest breached window.
Latest(ends) == CHOOSE e \in ends : \A f \in ends : e >= f

-----------------------------------------------------------------------------
(* Calls. *)

Live == daemon = "up"

\* Settled promises, the charge queue's included, run before anything else.
Quiet ==
    /\ Live
    /\ \A k \in Slots : pc[k] \notin {"stored", "failed", "held"}
    /\ ~(queue # <<>> /\ pc[Charger] = "idle")

Writing(k) == pc[k] \in {"mkdir", "writing", "renaming"}

MayBegin(request) ==
    /\ Quiet /\ request \in Requests
    /\ request \in Overlap \/ \A k \in Slots : pc[k] = "idle"

Suspend(k, o, p, t) ==
    /\ op' = [op EXCEPT ![k] = o]
    /\ pc' = [pc EXCEPT ![k] = p]
    /\ instant' = [instant EXCEPT ![k] = t]

Reach(k, p) ==
    /\ pc' = [pc EXCEPT ![k] = p]
    /\ UNCHANGED <<op, instant>>

Return(k) == Suspend(k, "none", "idle", None)

-----------------------------------------------------------------------------
(* The store.  A call keeps the day and week objects it found; when another  *)
(* call replaces them, it keeps the old ones with the spend they had.        *)

Current == [day |-> None, week |-> None]

Kept(v, day, week) ==
    [day  |-> IF day /\ v.day = None THEN [day |-> books.day, spentDay |-> books.spentDay] ELSE v.day,
     week |-> IF week /\ v.week = None THEN [week |-> books.week, spentWeek |-> books.spentWeek] ELSE v.week]

\* Call k puts b in the store and holds its windows; day and week: were they replaced?
Update(k, b, day, week) ==
    /\ books' = b
    /\ view' = [j \in Slots |-> IF j = k \/ pc[j] = "idle" THEN Current ELSE Kept(view[j], day, week)]

UpdateRolled(k, b, t) == Update(k, b, books.day # DayOf(t), books.week # WeekOf(t))

\* toSnapshot(), once the store has been written: the override is the current one.
Snapshot(k) ==
    LET v == view[k] IN
    [books EXCEPT !.day = IF v.day = None THEN @ ELSE v.day.day,
                  !.spentDay = IF v.day = None THEN @ ELSE v.day.spentDay,
                  !.week = IF v.week = None THEN @ ELSE v.week.week,
                  !.spentWeek = IF v.week = None THEN @ ELSE v.week.spentWeek]

\* refresh(t) on behalf of operation o.
Refresh(k, o, t) ==
    /\ UpdateRolled(k, Rolled(books, t), t)
    /\ Suspend(k, o, IF Rolled(books, t) = books THEN "stored" ELSE "mkdir", t)

\* persist(): the state is serialised, and the temporary file opened and truncated, ...
Opens(k) ==
    /\ Quiet /\ pc[k] = "mkdir"
    /\ buffer' = [buffer EXCEPT ![k] = books]
    /\ fd' = [fd EXCEPT ![k] = "tmp"]
    /\ tmp' = Empty
    /\ Reach(k, "writing")
    /\ UNCHANGED <<clock, service, books, disk, governor, events, view, daemon>>

\* What a file that holds `was` may hold once k's buffer is written at its start.
Overwritten(was, b) == IF was \in {Empty, b} THEN {b} ELSE {b, Torn}

\* ... written, wherever a rename has taken the open file meanwhile, ...
Writes(k) ==
    /\ Quiet /\ pc[k] = "writing"
    /\ \/ fd[k] = "tmp" /\ tmp' \in Overwritten(tmp, buffer[k]) /\ UNCHANGED disk
       \/ fd[k] = "disk" /\ disk' \in Overwritten(disk, buffer[k]) /\ UNCHANGED tmp
       \/ fd[k] = None /\ UNCHANGED <<tmp, disk>>
    /\ Reach(k, "renaming")
    /\ fd' = [fd EXCEPT ![k] = None]
    /\ buffer' = [buffer EXCEPT ![k] = None]
    /\ UNCHANGED <<clock, service, books, governor, events, view, daemon>>

\* ... and renamed; the rename fails if another call's has taken the file.
Renames(k) ==
    /\ Quiet /\ pc[k] = "renaming"
    /\ \/ /\ tmp # None
          /\ disk' = tmp /\ tmp' = None
          /\ fd' = [j \in Slots |-> IF fd[j] = "tmp" THEN "disk" ELSE None]
          /\ Reach(k, "stored")
       \/ /\ tmp = None
          /\ Reach(k, "failed")
          /\ UNCHANGED <<tmp, disk, fd>>
    /\ UNCHANGED <<clock, service, books, buffer, governor, events, view, daemon>>

\* The rejection reaches the caller: the queue, the control socket or startEnabled.
Throws(k) ==
    /\ Live /\ pc[k] = "failed"
    /\ Return(k)
    /\ UNCHANGED <<clock, service, books, files, governor, events, view, daemon>>

-----------------------------------------------------------------------------
(* pi and the service. *)

\* A message ends; its timestamp is the time it began.
UsageEvent ==
    \E at \in lastAt .. now :
        /\ Quiet /\ up /\ messages < MaxMessages
        /\ "charge" \in Overlap \/ \A k \in Calls : ~Writing(k)
        /\ messages' = messages + 1
        /\ lastAt' = at
        /\ queue' = Append(queue, at)
        /\ UNCHANGED <<clock, service, books, files, governor, calls, view, daemon>>

\* The child exits; the calls that wait for it in stop() go on.
ChildExits ==
    /\ Quiet /\ up
    /\ up' = FALSE /\ state' = "stopped"
    /\ pc' = [k \in Slots |-> IF pc[k] = "stopping" THEN "held" ELSE pc[k]]
    /\ UNCHANGED <<clock, books, files, governor, events, op, instant, view, daemon>>

Start ==
    /\ MayBegin("start")
    /\ ~up /\ state # "paused"
    /\ up' = TRUE /\ state' = "running"
    /\ UNCHANGED <<clock, books, files, governor, events, calls, view, daemon>>

\* stop(); of a budget-paused service, cancelResume().
Stop ==
    /\ MayBegin("stop")
    /\ \/ up /\ state' = "stopping" /\ UNCHANGED governor
       \/ ~up /\ state = "paused" /\ state' = "stopped" /\ paused' = FALSE /\ resumeAt' = None
    /\ UNCHANGED <<clock, up, books, files, events, calls, view, daemon>>

\* Mutant: resume() leaves the record `paused`, and start() refuses.
ResumeRefused == UNCHANGED service

\* resume(): idempotent if the service is running.
Resume == up' = TRUE /\ state' = IF up THEN state ELSE "running"

\* pause(), to be resumed at t: stop() first.
BeginPause(k, t) ==
    /\ paused' = TRUE
    /\ Suspend(k, op[k], IF up THEN "stopping" ELSE "held", t)
    /\ state' = IF up THEN "stopping" ELSE state
    /\ UNCHANGED <<up, resumeAt>>

\* Mutant: no resume timer.
PausesUntimed(k) ==
    /\ Live /\ pc[k] = "held"
    /\ state' = "paused"
    /\ Return(k)
    /\ UNCHANGED <<clock, up, books, files, governor, events, view, daemon>>

\* pause() after its stop(), and armResume().
Pauses(k) ==
    /\ Live /\ pc[k] = "held"
    /\ state' = "paused"
    /\ resumeAt' = instant[k]
    /\ Return(k)
    /\ UNCHANGED <<clock, up, books, files, paused, events, view, daemon>>

-----------------------------------------------------------------------------
(* The governor. *)

\* Mutant: the breach is judged before the charge has reached the disk.
ChargeUnsaved ==
    /\ Live /\ queue # <<>> /\ pc[Charger] = "idle"
    /\ queue' = Tail(queue)
    /\ UpdateRolled(Charger, Charged(Rolled(books, Head(queue))), Head(queue))
    /\ Suspend(Charger, "charge", "stored", Head(queue))
    /\ UNCHANGED <<clock, service, files, governor, messages, lastAt, daemon>>

\* charge(): record() up to its persist().
Charge ==
    /\ Live /\ queue # <<>> /\ pc[Charger] = "idle"
    /\ queue' = Tail(queue)
    /\ UpdateRolled(Charger, Charged(Rolled(books, Head(queue))), Head(queue))
    /\ Suspend(Charger, "charge", "mkdir", Head(queue))
    /\ UNCHANGED <<clock, service, files, governor, messages, lastAt, daemon>>

\* charge() after record().
ChargeRecorded ==
    /\ Live /\ pc[Charger] = "stored"
    /\ LET ends == Breached(Snapshot(Charger)) IN
       IF paused \/ ends = {} \/ Notify
         THEN Return(Charger) /\ UNCHANGED <<service, governor>>
         ELSE BeginPause(Charger, Latest(ends))
    /\ UNCHANGED <<clock, books, files, events, view, daemon>>

\* Mutant: the governor goes on believing that the service is paused.
ResumeFiresStillPaused ==
    /\ Quiet /\ resumeAt # None /\ now >= resumeAt
    /\ resumeAt' = None
    /\ Resume
    /\ UNCHANGED <<clock, books, files, paused, events, calls, view, daemon>>

\* doResume(): the timer is due.
ResumeFires ==
    /\ Quiet /\ resumeAt # None /\ now >= resumeAt
    /\ paused' = FALSE /\ resumeAt' = None
    /\ Resume
    /\ UNCHANGED <<clock, books, files, events, calls, view, daemon>>

\* snapshot() (`pid budget show`).
Show(k) ==
    /\ MayBegin("show") /\ pc[k] = "idle"
    /\ Refresh(k, "show", now)
    /\ UNCHANGED <<clock, service, files, governor, events, daemon>>

\* reset() (`pid budget reset`), and override() with --reset: reset() of the store.
Reset(k, o) ==
    /\ MayBegin(o) /\ pc[k] = "idle"
    /\ resumeAt' = None
    /\ Update(k, Zeroed(now), TRUE, TRUE)
    /\ Suspend(k, o, "mkdir", now)
    /\ UNCHANGED <<clock, service, files, paused, events, daemon>>

\* override() up to its await: at least one of the caps is set.
Override(k) ==
    \E capDay, capWeek \in Ceilings \cup {Unset} :
        /\ MayBegin("override") /\ pc[k] = "idle"
        /\ capDay # Unset \/ capWeek # Unset
        /\ resumeAt' = None
        /\ LET b == Rolled(books, now) IN
           UpdateRolled(k, [b EXCEPT !.capDay = Effective(@, capDay),
                                     !.capWeek = Effective(@, capWeek)], now)
        /\ Suspend(k, "override", "mkdir", now)
        /\ UNCHANGED <<clock, service, files, paused, events, daemon>>

\* The store is written: what each operation does next.
ShowStored(k) ==
    /\ Live /\ pc[k] = "stored" /\ op[k] = "show"
    /\ Return(k)
    /\ UNCHANGED <<clock, service, books, files, governor, events, view, daemon>>

ResetStored(k) ==
    /\ Live /\ pc[k] = "stored"
    /\ \/ op[k] = "reset" /\ paused' = FALSE /\ Refresh(k, "show", now)
       \/ op[k] = "resetOverride" /\ UNCHANGED paused /\ Refresh(k, "override", instant[k])
    /\ UNCHANGED <<clock, service, files, resumeAt, events, daemon>>

\* The snapshot is taken; what was spent is copied, the override is the store's own object.
OverrideStored(k) ==
    /\ Live /\ pc[k] = "stored" /\ op[k] = "override"
    /\ paused' = FALSE
    /\ Resume
    /\ view' = [view EXCEPT ![k] = Kept(@, TRUE, TRUE)]
    /\ Reach(k, "resumed")
    /\ UNCHANGED <<clock, books, files, resumeAt, events, daemon>>

\* The service is up again: a cap the override did not lift may still be breached.
OverrideResumed(k) ==
    /\ Quiet /\ pc[k] = "resumed"
    /\ LET ends == Breached(Snapshot(k)) IN
       IF ends = {} \/ Notify
         THEN Return(k) /\ UNCHANGED <<service, governor>>
         ELSE BeginPause(k, Latest(ends))
    /\ view' = [view EXCEPT ![k] = Current]
    /\ UNCHANGED <<clock, books, files, events, daemon>>

-----------------------------------------------------------------------------
(* Crash and boot. *)

Tick ==
    /\ now < MaxTime
    /\ now' = now + 1
    /\ UNCHANGED <<crashes, service, books, files, governor, events, calls, view, daemon>>

\* The daemon dies; pi sees its stdin close.
Crash ==
    /\ Live /\ crashes < MaxCrashes
    /\ crashes' = crashes + 1
    /\ daemon' = "down"
    /\ state' = "stopped" /\ up' = FALSE
    /\ books' = NoBooks /\ paused' = FALSE /\ resumeAt' = None /\ queue' = <<>>
    /\ op' = [k \in Slots |-> "none"] /\ pc' = [k \in Slots |-> "idle"]
    /\ instant' = [k \in Slots |-> None]
    /\ view' = [k \in Slots |-> Current]
    /\ fd' = [k \in Slots |-> None] /\ buffer' = [k \in Slots |-> None]
    /\ UNCHANGED <<now, tmp, disk, messages, lastAt>>

Whole(file) == file \notin {Empty, Torn}

\* BudgetStore.open(): a file that does not parse ends the boot.  The control socket
\* is open before startEnabled() gets to the service.
Boot(k) ==
    /\ daemon = "down" /\ Whole(disk)
    /\ daemon' = "up"
    /\ books' = IF disk = None THEN NoBooks ELSE disk
    /\ Suspend(k, "recover", "booting", None)
    /\ UNCHANGED <<clock, service, files, governor, events, view>>

\* startEnabled(), recover(): refresh().
Recover(k) ==
    /\ Quiet /\ pc[k] = "booting"
    /\ Refresh(k, "recover", now)
    /\ UNCHANGED <<clock, service, files, governor, events, daemon>>

\* Mutant: an over-cap service is started at boot.
RecoveredAnyway(k) ==
    /\ Live /\ pc[k] = "stored" /\ op[k] = "recover"
    /\ state' = "running" /\ up' = TRUE
    /\ Return(k)
    /\ UNCHANGED <<clock, books, files, governor, events, view, daemon>>

\* recover() after refresh(): hold the service or start it.
Recovered(k) ==
    /\ Live /\ pc[k] = "stored" /\ op[k] = "recover"
    /\ LET ends == Breached(Snapshot(k)) IN
       IF ends # {} /\ ~Notify
         THEN /\ paused' = TRUE /\ resumeAt' = Latest(ends)
              /\ state' = "paused"
              /\ UNCHANGED up
         ELSE /\ Resume
              /\ UNCHANGED governor
    /\ Return(k)
    /\ UNCHANGED <<clock, books, files, events, view, daemon>>

-----------------------------------------------------------------------------

Init ==
    /\ now = 0 /\ crashes = 0
    /\ state = "stopped" /\ up = FALSE
    /\ books = NoBooks
    /\ tmp = None /\ disk = None
    /\ paused = FALSE /\ resumeAt = None
    /\ queue = <<>> /\ messages = 0 /\ lastAt = 0
    /\ op = [k \in Slots |-> "none"] /\ pc = [k \in Slots |-> "idle"]
    /\ instant = [k \in Slots |-> None]
    /\ view = [k \in Slots |-> Current]
    /\ fd = [k \in Slots |-> None] /\ buffer = [k \in Slots |-> None]
    /\ daemon = "down"

\* What runs as soon as a promise is settled.
Continues ==
    \/ \E k \in Slots : Throws(k) \/ Pauses(k)
    \/ \E k \in Calls : ShowStored(k) \/ ResetStored(k) \/ OverrideStored(k) \/ Recovered(k)
    \/ Charge \/ ChargeRecorded

\* What waits for a file or, in the last two, for the child to settle and its turn.
Completes ==
    \/ \E k \in Slots : Opens(k) \/ Writes(k) \/ Renames(k)
    \/ \E k \in Calls : OverrideResumed(k) \/ Recover(k)

Request ==
    \/ Start \/ Stop
    \/ \E k \in Calls : Show(k) \/ Override(k) \/ Reset(k, "reset") \/ Reset(k, "resetOverride")

Next ==
    \/ Continues \/ Completes \/ ResumeFires \/ Request
    \/ UsageEvent \/ ChildExits
    \/ Tick \/ Crash \/ \E k \in Calls : Boot(k)

Spec == Init /\ [][Next]_vars

(***************************************************************************)
(* Fairness: the event loop runs what is ready and files get written; the  *)
(* clock advances and due timers fire; stop() ends in SIGKILL, so a child  *)
(* that is being stopped exits.  Requests keep Quiet false only for a      *)
(* moment, hence the strong fairness.                                      *)
(***************************************************************************)
FairSpec ==
    /\ Spec
    /\ WF_vars(Continues) /\ SF_vars(Completes) /\ SF_vars(ResumeFires)
    /\ SF_vars(state = "stopping" /\ ChildExits)
    /\ WF_vars(Tick)

-----------------------------------------------------------------------------

Books ==
    [day : Nat \cup {None}, spentDay : 0 .. MaxMessages, week : Nat \cup {None},
     spentWeek : 0 .. MaxMessages, capDay : Ceilings \cup {Unset}, capWeek : Ceilings \cup {Unset}]

\* The day and week objects that a view may have kept.
Kepts == [day : Nat \cup {None}, spentDay : Nat] \cup [week : Nat \cup {None}, spentWeek : Nat]

ASSUME FileAssumption == {None, Empty, Torn} \cap Books = {} /\ None \notin Kepts

\* Every variable has the values the code can give it; the spend of the day is part of
\* the spend of its week, in memory and on disk.
TypeOK ==
    /\ now \in 0 .. MaxTime /\ crashes \in 0 .. MaxCrashes /\ daemon \in {"up", "down"}
    /\ state \in {"stopped", "running", "stopping", "paused"} /\ up \in BOOLEAN
    /\ books \in Books
    /\ tmp \in Books \cup {None, Empty, Torn} /\ disk \in Books \cup {None, Empty, Torn}
    /\ \A b \in {books, tmp, disk} \cap Books : b.spentDay <= b.spentWeek
    /\ paused \in BOOLEAN /\ resumeAt \in Nat \cup {None}
    /\ queue \in Seq(0 .. MaxTime) /\ messages \in 0 .. MaxMessages /\ lastAt \in 0 .. MaxTime
    /\ op \in [Slots -> {"none", "charge", "show", "reset", "override", "resetOverride", "recover"}]
    /\ pc \in [Slots -> {"idle", "booting", "mkdir", "writing", "renaming", "stored", "failed",
                         "resumed", "stopping", "held"}]
    /\ instant \in [Slots -> Nat \cup {None}]
    /\ fd \in [Slots -> {None, "tmp", "disk"}]
    /\ buffer \in [Slots -> Books \cup {None}]

Idle == \A k \in Slots : pc[k] = "idle"

\* A pause outlives the daemon: while the governor holds a service over its caps, the
\* file says so, so that a daemon that dies at any moment holds it again when it boots,
\* until the window rolls (record, recover).
HeldAcrossCrash ==
    Live /\ Idle /\ paused /\ resumeAt # None /\ now < resumeAt
        => disk \in Books /\ Breached(Rolled(disk, now)) # {}

\* A paused service has a resume timer: none is lost between a charge, an override that
\* pauses again, a stop and a boot (armResume, override).  A `budget reset` cancels it
\* on purpose.
PausedIsTimed == Live /\ Idle /\ state = "paused" => resumeAt # None

\* The governor ignores the breaches of a service it believes paused, so such a service
\* is not running (charge, cancelResume, recover).
PausedMeansHeld == Idle /\ paused => ~up /\ state = "paused"

\* A boot starts no service that its file says is over a cap (recover).
BootHolds ==
    [][\A k \in Calls : Recovered(k) /\ ~up /\ up' => Notify \/ Breached(Rolled(disk, now)) = {}]_vars

\* A budget pause ends by itself when the window does (doResume).
PauseEnds ==
    resumeAt \in 0 .. MaxTime ~> (state # "paused" \/ ~Live \/ (resumeAt # None /\ resumeAt > MaxTime))

-----------------------------------------------------------------------------
(* What the repository says and the code does not do: see the README's findings. *)

\* The budget file is replaced atomically: never is it empty or a mixture of two writes
\* (store.ts: "Mirrors StateStore's atomic tmp+rename writes").
DiskIsWhole == Whole(disk)

\* An automatic resume waits for every breached window (armResume: "Resume only once
\* every breached cap's window has rolled over").
NoEarlyResume == [][ResumeFires => Breached(Rolled(books, now)) = {}]_vars

===============================================================================
