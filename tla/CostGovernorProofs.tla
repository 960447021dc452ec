-------------------------- MODULE CostGovernorProofs --------------------------
(***************************************************************************)
(* Theorems about CostGovernor, for every caps, every length of the        *)
(* windows and every bound.                                                *)
(***************************************************************************)
EXTENDS CostGovernor, TLAPS

USE GovernorAssumption

-----------------------------------------------------------------------------
(* The calendar. *)

LEMMA DayFacts ==
    ASSUME NEW t \in Nat
    PROVE  DayOf(t) \in Nat /\ DayLength * DayOf(t) <= t /\ t < DayLength * (DayOf(t) + 1)
BY DEF DayOf

LEMMA WeekFacts ==
    ASSUME NEW t \in Nat
    PROVE  WeekOf(t) \in Nat /\ WeekLength * WeekOf(t) <= t /\ t < WeekLength * (WeekOf(t) + 1)
BY DEF WeekOf

\* A week is some days.
LEMMA WeekOfDays == \E m \in Nat : WeekLength = DayLength * m
<1>1. WeekLength = DayLength * (WeekLength \div DayLength) /\ WeekLength \div DayLength \in Nat
  OBVIOUS
<1>2. QED
  BY <1>1

LEMMA NotBefore ==
    ASSUME NEW t \in Nat, NEW u \in Nat, DayOf(t) = DayOf(u)
    PROVE  ~(WeekOf(t) < WeekOf(u))
<1> SUFFICES ASSUME WeekOf(t) < WeekOf(u) PROVE FALSE
  OBVIOUS
<1>1. PICK m \in Nat : WeekLength = DayLength * m
  BY WeekOfDays
<1>2. PICK d \in Nat : d = DayOf(t)
  BY DayFacts
<1>3. PICK w \in Nat : w = WeekOf(u)
  BY WeekFacts
<1>4. DayLength * d <= t /\ u < DayLength * (d + 1)
  BY <1>2, DayFacts
<1>5. t < WeekLength * w
  <2>1. PICK v \in Nat : v = WeekOf(t)
    BY WeekFacts
  <2>2. t < WeekLength * (v + 1) /\ v + 1 <= w
    BY <2>1, <1>3, WeekFacts
  <2>3. WeekLength * (v + 1) <= WeekLength * w
    BY <2>2
  <2>4. QED
    BY <2>2, <2>3
<1>6. WeekLength * w <= u
  BY <1>3, WeekFacts
<1>7. PICK e \in Nat : e = m * w
  OBVIOUS
<1>8. WeekLength * w = DayLength * e
  BY <1>1, <1>7
<1>9. d < e
  BY <1>4, <1>5, <1>8
<1>10. DayLength * (d + 1) <= DayLength * e
  BY <1>9
<1>11. QED
  BY <1>4, <1>6, <1>8, <1>10

\* A day is in one week.
LEMMA OneWeek ==
    ASSUME NEW t \in Nat, NEW u \in Nat, DayOf(t) = DayOf(u)
    PROVE  WeekOf(t) = WeekOf(u)
<1>1. ~(WeekOf(t) < WeekOf(u)) /\ ~(WeekOf(u) < WeekOf(t))
  BY NotBefore
<1>2. WeekOf(t) \in Nat /\ WeekOf(u) \in Nat
  BY WeekFacts
<1>3. QED
  BY <1>1, <1>2

-----------------------------------------------------------------------------
(* The books. *)

Ledger ==
    [day : Nat \cup {None}, spentDay : Nat, week : Nat \cup {None}, spentWeek : Nat,
     capDay : Ceilings \cup {Unset}, capWeek : Ceilings \cup {Unset}]

\* Books that add up, after n messages: the day's spend is in its week's, a window that was never
\* opened has none, and the two windows are of one time.
Sound(b, n) ==
    /\ b \in Ledger
    /\ b.spentDay <= b.spentWeek /\ b.spentWeek <= n
    /\ b.day = None => b.spentDay = 0
    /\ b.week = None => b.spentWeek = 0
    /\ \A t \in Nat : b.day = DayOf(t) => b.week = WeekOf(t)

LEMMA SoundIsBooks ==
    ASSUME NEW n \in 0..MaxMessages, NEW b, Sound(b, n)
    PROVE  b \in Books /\ b.spentDay <= b.spentWeek
<1>1. /\ b \in Ledger /\ b.spentDay \in Nat /\ b.spentWeek \in Nat
      /\ b.spentDay <= b.spentWeek /\ b.spentWeek <= n
  BY DEF Sound, Ledger
<1>2. b.spentDay \in 0..MaxMessages /\ b.spentWeek \in 0..MaxMessages
  BY <1>1
<1>3. QED
  BY <1>1, <1>2 DEF Ledger, Books

LEMMA SoundLater ==
    ASSUME NEW n \in Nat, NEW m \in Nat, n <= m, NEW b, Sound(b, n)
    PROVE  Sound(b, m)
<1>1. b.spentWeek \in Nat
  BY DEF Sound, Ledger
<1>2. QED
  BY <1>1 DEF Sound

LEMMA NoBooksSound ==
    ASSUME NEW n \in Nat
    PROVE  Sound(NoBooks, n)
<1>1. NoBooks \in Ledger
  BY DEF NoBooks, Ledger, Unset
<1>2. \A t \in Nat : NoBooks.day # DayOf(t)
  BY DayFacts DEF NoBooks
<1>3. QED
  BY <1>1, <1>2 DEF Sound, NoBooks

LEMMA RolledSound ==
    ASSUME NEW n \in Nat, NEW b, Sound(b, n), NEW t \in Nat
    PROVE  Sound(Rolled(b, t), n) /\ Rolled(b, t).day = DayOf(t) /\ Rolled(b, t).week = WeekOf(t)
<1>1. /\ b \in Ledger /\ b.spentDay <= b.spentWeek /\ b.spentWeek <= n
      /\ b.spentDay \in Nat /\ b.spentWeek \in Nat
      /\ b.day = DayOf(t) => b.week = WeekOf(t)
  BY DEF Sound, Ledger
<1>2. DayOf(t) \in Nat /\ WeekOf(t) \in Nat
  BY DayFacts, WeekFacts
<1>3. PICK r : r = Rolled(b, t)
  OBVIOUS
<1>4. r \in Ledger /\ r.day = DayOf(t) /\ r.week = WeekOf(t)
  BY <1>1, <1>2, <1>3 DEF Rolled, Ledger, Unset
<1>5. /\ r.spentDay = IF b.day = DayOf(t) THEN b.spentDay ELSE 0
      /\ r.spentWeek = IF b.week = WeekOf(t) THEN b.spentWeek ELSE 0
  BY <1>3 DEF Rolled
<1>6. r.spentDay <= r.spentWeek /\ r.spentWeek <= n
  BY <1>1, <1>5
<1>7. \A u \in Nat : r.day = DayOf(u) => r.week = WeekOf(u)
  BY <1>4, OneWeek
<1>8. Sound(r, n)
  BY <1>2, <1>4, <1>6, <1>7 DEF Sound
<1>9. QED
  BY <1>3, <1>4, <1>8

\* A charge is one more message.
LEMMA ChargedSound ==
    ASSUME NEW n \in Nat, NEW b, Sound(b, n), b.day # None, b.week # None
    PROVE  Sound(Charged(b), n + 1)
<1>1. PICK r : r = Charged(b)
  OBVIOUS
<1>2. /\ b \in Ledger /\ b.spentDay <= b.spentWeek /\ b.spentWeek <= n
      /\ b.spentDay \in Nat /\ b.spentWeek \in Nat
  BY DEF Sound, Ledger
<1>3. /\ r \in Ledger /\ r.day = b.day /\ r.week = b.week
      /\ r.spentDay = b.spentDay + 1 /\ r.spentWeek = b.spentWeek + 1
  <2>1. PICK d \in Nat, w \in Nat : d = b.spentDay + 1 /\ w = b.spentWeek + 1
    BY <1>2
  <2>2. r = [b EXCEPT !.spentDay = d, !.spentWeek = w]
    BY <1>1, <2>1 DEF Charged
  <2>3. r \in Ledger /\ r.day = b.day /\ r.week = b.week /\ r.spentDay = d /\ r.spentWeek = w
    BY <1>2, <2>2 DEF Ledger
  <2>4. QED
    BY <2>1, <2>3
<1>4. r.spentDay <= r.spentWeek /\ r.spentWeek <= n + 1
  BY <1>2, <1>3
<1>5. QED
  BY <1>1, <1>3, <1>4 DEF Sound

LEMMA OverriddenSound ==
    ASSUME NEW n \in Nat, NEW b, Sound(b, n), NEW c \in Ceilings \cup {Unset}, NEW d \in Ceilings \cup {Unset}
    PROVE  Sound([b EXCEPT !.capDay = c, !.capWeek = d], n)
<1>1. PICK r : r = [b EXCEPT !.capDay = c, !.capWeek = d]
  OBVIOUS
<1>2. b \in Ledger
  BY DEF Sound
<1>3. /\ r \in Ledger /\ r.day = b.day /\ r.week = b.week
      /\ r.spentDay = b.spentDay /\ r.spentWeek = b.spentWeek
  BY <1>1, <1>2 DEF Ledger
<1>4. Sound(r, n)
  BY <1>3 DEF Sound
<1>5. QED
  BY <1>1, <1>4

\* The windows of books that add up end at some time, when their cap is reached.
Dated(b) ==
    /\ b.day \in Nat \cup {None} /\ b.spentDay \in Nat /\ (b.day = None => b.spentDay = 0)
    /\ b.week \in Nat \cup {None} /\ b.spentWeek \in Nat /\ (b.week = None => b.spentWeek = 0)
    /\ b.capDay \in Ceilings \cup {Unset} /\ b.capWeek \in Ceilings \cup {Unset}

LEMMA SoundIsDated ==
    ASSUME NEW n, NEW b, Sound(b, n)
    PROVE  Dated(b)
BY DEF Sound, Ledger, Dated

LEMMA EffectiveCap ==
    ASSUME NEW cap \in Caps, NEW override \in Ceilings \cup {Unset}
    PROVE  Effective(cap, override) \in Caps
BY DEF Effective, Unset

DayReached(b) == Reached(b.spentDay, Effective(CapDay, b.capDay))
WeekReached(b) == Reached(b.spentWeek, Effective(CapWeek, b.capWeek))
DayEnd(b) == (b.day + 1) * DayLength
WeekEnd(b) == (b.week + 1) * WeekLength

LEMMA BreachedIs ==
    ASSUME NEW b
    PROVE  /\ Breached(b) = {e \in {DayEnd(b)} : DayReached(b)} \cup {e \in {WeekEnd(b)} : WeekReached(b)}
           /\ Breached(b) = {} <=> ~DayReached(b) /\ ~WeekReached(b)
BY DEF Breached, DayEnd, WeekEnd, DayReached, WeekReached

LEMMA ReachedSpends ==
    ASSUME NEW spent \in Nat, NEW cap \in Caps, Reached(spent, cap)
    PROVE  spent > 0
BY DEF Reached, Caps

LEMMA DatedEnds ==
    ASSUME NEW b, Dated(b)
    PROVE  /\ DayReached(b) => b.day \in Nat /\ DayEnd(b) \in Nat /\ b.spentDay > 0
           /\ WeekReached(b) => b.week \in Nat /\ WeekEnd(b) \in Nat /\ b.spentWeek > 0
           /\ Breached(b) \subseteq Nat
<1>1. Effective(CapDay, b.capDay) \in Caps /\ Effective(CapWeek, b.capWeek) \in Caps
  BY EffectiveCap DEF Dated
<1>2. DayReached(b) => b.spentDay > 0
  BY <1>1, ReachedSpends DEF Dated, DayReached
<1>3. WeekReached(b) => b.spentWeek > 0
  BY <1>1, ReachedSpends DEF Dated, WeekReached
<1>4. DayReached(b) => b.day \in Nat /\ DayEnd(b) \in Nat
  BY <1>2 DEF Dated, DayEnd
<1>5. WeekReached(b) => b.week \in Nat /\ WeekEnd(b) \in Nat
  BY <1>3 DEF Dated, WeekEnd
<1>6. QED
  BY <1>2, <1>3, <1>4, <1>5, BreachedIs

LEMMA LatestIs ==
    ASSUME NEW b, Dated(b), Breached(b) # {}
    PROVE  /\ Latest(Breached(b)) \in Nat
           /\ \/ DayReached(b) /\ Latest(Breached(b)) = DayEnd(b)
              \/ WeekReached(b) /\ Latest(Breached(b)) = WeekEnd(b)
           /\ \A e \in Breached(b) : Latest(Breached(b)) >= e
<1>1. PICK ends : ends = Breached(b)
  OBVIOUS
<1>2. ends \subseteq Nat
  BY <1>1, DatedEnds
<1>3. \E e \in ends : \A f \in ends : e >= f
  <2>1. PICK d, w : ends = {e \in {d} : DayReached(b)} \cup {e \in {w} : WeekReached(b)}
    BY <1>1, BreachedIs
  <2>2. CASE ~DayReached(b)
    BY <1>1, <1>2, <2>1, <2>2
  <2>3. CASE ~WeekReached(b)
    BY <1>1, <1>2, <2>1, <2>3
  <2>4. CASE DayReached(b) /\ WeekReached(b)
    <3>1. ends = {d, w} /\ d \in Nat /\ w \in Nat
      BY <1>2, <2>1, <2>4
    <3>2. d >= w \/ w >= d
      BY <3>1
    <3>3. QED
      BY <3>1, <3>2
  <2>5. QED
    BY <2>2, <2>3, <2>4
<1>4. Latest(ends) \in ends /\ \A e \in ends : Latest(ends) >= e
  BY <1>3 DEF Latest
<1>5. QED
  BY <1>1, <1>2, <1>4, BreachedIs

-----------------------------------------------------------------------------
(* Types. *)

Ops == {"none", "charge", "show", "reset", "override", "resetOverride", "recover"}
Points == {"idle", "booting", "mkdir", "writing", "renaming", "stored", "failed", "resumed",
           "stopping", "held"}

DayView == {v \in [day : Nat \cup {None}, spentDay : Nat] : v.day = None => v.spentDay = 0}
WeekView == {v \in [week : Nat \cup {None}, spentWeek : Nat] : v.week = None => v.spentWeek = 0}
View == [day : DayView \cup {None}, week : WeekView \cup {None}]

\* The messages that were charged.
Charges == messages - Len(queue)

Scalars ==
    /\ now \in 0 .. MaxTime /\ crashes \in 0 .. MaxCrashes /\ daemon \in {"up", "down"}
    /\ state \in {"stopped", "running", "stopping", "paused"} /\ up \in BOOLEAN
    /\ paused \in BOOLEAN /\ resumeAt \in Nat \cup {None}

Queueing ==
    /\ queue \in Seq(0 .. MaxTime) /\ messages \in 0 .. MaxMessages /\ lastAt \in 0 .. MaxTime
    /\ Len(queue) <= messages

Slotted ==
    /\ op \in [Slots -> Ops] /\ pc \in [Slots -> Points] /\ instant \in [Slots -> Nat \cup {None}]
    /\ \A k \in Slots : op[k] = "resetOverride" => instant[k] \in Nat

Contents(file) == file \in {None, Empty, Torn} \/ Sound(file, Charges)

Filed ==
    /\ Contents(tmp) /\ Contents(disk)
    /\ fd \in [Slots -> {None, "tmp", "disk"}]
    /\ buffer \in [Slots -> Ledger \cup {None}]
    /\ \A k \in Slots : buffer[k] # None => Sound(buffer[k], Charges)
    /\ \A k \in Slots : fd[k] # None => Sound(buffer[k], Charges)

Viewing == view \in [Slots -> View]

\* The types, and the accounting: every copy of the books, in memory, on its way or on disk, adds up.
TypeInv == Scalars /\ Queueing /\ Slotted /\ Sound(books, Charges) /\ Filed /\ Viewing

LEMMA ChargesFacts ==
    ASSUME Queueing
    PROVE  Charges \in 0..MaxMessages /\ Charges \in Nat /\ Len(queue) \in Nat
BY DEF Queueing, Charges

LEMMA TypeInvImplies == TypeInv => TypeOK
<1> SUFFICES ASSUME TypeInv PROVE TypeOK
  OBVIOUS
<1>0. Charges \in 0..MaxMessages
  BY ChargesFacts DEF TypeInv
<1>1. books \in Books /\ books.spentDay <= books.spentWeek
  BY <1>0, SoundIsBooks DEF TypeInv
<1>2. ASSUME NEW file, Contents(file)
      PROVE  /\ file \in Books \cup {None, Empty, Torn}
             /\ file \in Books => file.spentDay <= file.spentWeek
  BY <1>0, <1>2, SoundIsBooks, FileAssumption DEF Contents
<1>3. /\ tmp \in Books \cup {None, Empty, Torn} /\ disk \in Books \cup {None, Empty, Torn}
      /\ tmp \in Books => tmp.spentDay <= tmp.spentWeek
      /\ disk \in Books => disk.spentDay <= disk.spentWeek
  BY <1>2 DEF TypeInv, Filed
<1>4. \A b \in {books, tmp, disk} \cap Books : b.spentDay <= b.spentWeek
  BY <1>1, <1>3
<1>5. buffer \in [Slots -> Books \cup {None}] /\ fd \in [Slots -> {None, "tmp", "disk"}]
  <2>1. \A k \in Slots : buffer[k] \in Books \cup {None}
    BY <1>0, SoundIsBooks DEF TypeInv, Filed
  <2>2. buffer \in [Slots -> Ledger \cup {None}] /\ fd \in [Slots -> {None, "tmp", "disk"}]
    BY DEF TypeInv, Filed
  <2>3. QED
    BY <2>1, <2>2
<1>6. Scalars /\ Queueing /\ Slotted
  BY DEF TypeInv
<1>7. QED
  BY <1>1, <1>3, <1>4, <1>5, <1>6 DEF TypeOK, Scalars, Queueing, Slotted, Ops, Points

LEMMA SuspendTyped ==
    ASSUME Slotted, NEW k \in Slots, NEW o \in Ops, NEW p \in Points, NEW t \in Nat \cup {None},
           o = "resetOverride" => t \in Nat, Suspend(k, o, p, t)
    PROVE  Slotted'
BY DEF Slotted, Suspend

LEMMA ReturnTyped ==
    ASSUME Slotted, NEW k \in Slots, Return(k)
    PROVE  Slotted'
BY SuspendTyped DEF Return, Ops, Points

LEMMA ReachTyped ==
    ASSUME Slotted, NEW k \in Slots, NEW p \in Points, Reach(k, p)
    PROVE  Slotted'
BY DEF Slotted, Reach

LEMMA SlottedSame ==
    ASSUME Slotted, UNCHANGED calls
    PROVE  Slotted'
BY DEF Slotted, calls

\* More charges keep what adds up.
LEMMA FiledSame ==
    ASSUME Filed, UNCHANGED files, Charges \in Nat, Charges' \in Nat, Charges <= Charges'
    PROVE  Filed'
<1>1. \A b : Sound(b, Charges) => Sound(b, Charges')
  BY SoundLater
<1>2. UNCHANGED <<tmp, disk, fd, buffer>>
  BY DEF files
<1>3. Contents(tmp)' /\ Contents(disk)'
  BY <1>1, <1>2 DEF Filed, Contents
<1>4. QED
  BY <1>1, <1>2, <1>3 DEF Filed

\* The view that a call keeps of the books is of books that add up.
LEMMA KeptViews ==
    ASSUME Sound(books, Charges), NEW v \in View, NEW day \in BOOLEAN, NEW week \in BOOLEAN
    PROVE  Kept(v, day, week) \in View
<1>1. [day |-> books.day, spentDay |-> books.spentDay] \in DayView
  BY DEF Sound, Ledger, DayView
<1>2. [week |-> books.week, spentWeek |-> books.spentWeek] \in WeekView
  BY DEF Sound, Ledger, WeekView
<1>3. v.day \in DayView \cup {None} /\ v.week \in WeekView \cup {None}
  BY DEF View
<1>4. QED
  BY <1>1, <1>2, <1>3 DEF Kept, View

LEMMA CurrentViews == Current \in View
BY DEF Current, View

LEMMA UpdateTyped ==
    ASSUME Sound(books, Charges), Viewing, NEW k, NEW b, Sound(b, Charges'),
           NEW day \in BOOLEAN, NEW week \in BOOLEAN, Update(k, b, day, week)
    PROVE  Sound(books, Charges)' /\ Viewing'
<1>1. Sound(books, Charges)'
  BY DEF Update
<1>2. \A j \in Slots : view[j] \in View
  BY DEF Viewing
<1>3. \A j \in Slots : (IF j = k \/ pc[j] = "idle" THEN Current ELSE Kept(view[j], day, week)) \in View
  BY <1>2, KeptViews, CurrentViews
<1>4. Viewing'
  BY <1>3 DEF Update, Viewing
<1>5. QED
  BY <1>1, <1>4

\* What a snapshot shows has dates.
LEMMA SnapshotDated ==
    ASSUME Sound(books, Charges), Viewing, NEW k \in Slots
    PROVE  Dated(Snapshot(k))
<1>1. PICK v : v = view[k]
  OBVIOUS
<1>2. v.day \in DayView \cup {None} /\ v.week \in WeekView \cup {None}
  BY <1>1 DEF Viewing, View
<1>3. books \in Ledger /\ Dated(books)
  BY SoundIsDated DEF Sound
<1>4. PICK s : s = Snapshot(k)
  OBVIOUS
<1>5. /\ s.day = (IF v.day = None THEN books.day ELSE v.day.day)
      /\ s.spentDay = (IF v.day = None THEN books.spentDay ELSE v.day.spentDay)
      /\ s.week = (IF v.week = None THEN books.week ELSE v.week.week)
      /\ s.spentWeek = (IF v.week = None THEN books.spentWeek ELSE v.week.spentWeek)
      /\ s.capDay = books.capDay /\ s.capWeek = books.capWeek
  BY <1>1, <1>3, <1>4 DEF Snapshot, Ledger
<1>6. s.day \in Nat \cup {None} /\ s.spentDay \in Nat /\ (s.day = None => s.spentDay = 0)
  BY <1>2, <1>3, <1>5 DEF DayView, Dated
<1>7. s.week \in Nat \cup {None} /\ s.spentWeek \in Nat /\ (s.week = None => s.spentWeek = 0)
  BY <1>2, <1>3, <1>5 DEF WeekView, Dated
<1>8. QED
  BY <1>3, <1>4, <1>5, <1>6, <1>7 DEF Dated

LEMMA BeginPauseTyped ==
    ASSUME Slotted, NEW k \in Slots, NEW t \in Nat, BeginPause(k, t), Scalars
    PROVE  /\ Slotted' /\ paused' = TRUE /\ UNCHANGED <<up, resumeAt>>
           /\ state' \in {"stopped", "running", "stopping", "paused"}
<1>1. op[k] \in Ops
  BY DEF Slotted
<1>2. Suspend(k, op[k], IF up THEN "stopping" ELSE "held", t)
  BY DEF BeginPause
<1>3. (IF up THEN "stopping" ELSE "held") \in Points
  BY DEF Points
<1>4. Slotted'
  BY <1>1, <1>2, <1>3, SuspendTyped
<1>5. QED
  BY <1>4 DEF BeginPause, Scalars

-----------------------------------------------------------------------------
(* Each step keeps them. *)

LEMMA InitTyped == Init => TypeInv
<1> SUFFICES ASSUME Init PROVE TypeInv
  OBVIOUS
<1>0. 0 \in 0..MaxTime /\ 0 \in 0..MaxCrashes /\ 0 \in 0..MaxMessages
  OBVIOUS
<1>1. Scalars
  BY <1>0 DEF Init, Scalars
<1>2. Queueing /\ Charges = 0
  <2>1. <<>> \in Seq(0..MaxTime) /\ Len(<<>>) = 0
    OBVIOUS
  <2>2. queue = <<>> /\ messages = 0 /\ lastAt = 0
    BY DEF Init
  <2>3. Queueing
    BY <1>0, <2>1, <2>2 DEF Queueing
  <2>4. Len(queue) = 0 /\ messages = 0
    BY <2>1, <2>2
  <2>5. QED
    BY <2>3, <2>4 DEF Charges
<1>3. Slotted
  BY DEF Init, Slotted, Ops, Points
<1>4. Sound(books, Charges)
  BY <1>2, NoBooksSound DEF Init
<1>5. Filed
  BY DEF Init, Filed, Contents
<1>6. Viewing
  BY CurrentViews DEF Init, Viewing
<1>7. QED
  BY <1>1, <1>2, <1>3, <1>4, <1>5, <1>6 DEF TypeInv

\* A step that charges nothing and leaves the store alone.
LEMMA BesideTyped ==
    ASSUME TypeInv, UNCHANGED <<books, files, queue, messages>>
    PROVE  Sound(books, Charges)' /\ Filed'
<1>1. Charges \in Nat /\ Charges' = Charges
  BY ChargesFacts DEF TypeInv, Charges
<1>2. Filed'
  BY <1>1, FiledSame DEF TypeInv
<1>3. QED
  BY <1>1, <1>2 DEF TypeInv

LEMMA OpensTyped ==
    ASSUME TypeInv, NEW k \in Slots, Opens(k)
    PROVE  TypeInv'
<1>0. Charges \in Nat /\ Charges' = Charges
  BY ChargesFacts DEF TypeInv, Charges, Opens, events
<1>1. Scalars' /\ Queueing' /\ Viewing'
  BY DEF TypeInv, Scalars, Queueing, Viewing, Opens, clock, service, governor, events
<1>2. Slotted'
  BY ReachTyped DEF TypeInv, Opens, Points
<1>3. Sound(books, Charges) /\ books \in Ledger
  BY DEF TypeInv, Sound
<1>4. Filed'
  <2>1. Contents(tmp)' /\ Contents(disk)'
    BY <1>0 DEF TypeInv, Filed, Contents, Opens
  <2>2. /\ fd' \in [Slots -> {None, "tmp", "disk"}] /\ buffer' \in [Slots -> Ledger \cup {None}]
        /\ \A j \in Slots : buffer'[j] = IF j = k THEN books ELSE buffer[j]
        /\ \A j \in Slots : fd'[j] = IF j = k THEN "tmp" ELSE fd[j]
    BY <1>3 DEF TypeInv, Filed, Opens
  <2>3. ASSUME NEW j \in Slots
        PROVE  (buffer'[j] # None \/ fd'[j] # None) => Sound(buffer'[j], Charges')
    BY <2>2, <1>0, <1>3 DEF TypeInv, Filed
  <2>4. QED
    BY <2>1, <2>2, <2>3 DEF Filed
<1>5. Sound(books, Charges)'
  BY <1>0, <1>3 DEF Opens
<1>6. QED
  BY <1>1, <1>2, <1>4, <1>5 DEF TypeInv

LEMMA WritesTyped ==
    ASSUME TypeInv, NEW k \in Slots, Writes(k)
    PROVE  TypeInv'
<1>0. Charges \in Nat /\ Charges' = Charges
  BY ChargesFacts DEF TypeInv, Charges, Writes, events
<1>1. Scalars' /\ Queueing' /\ Viewing'
  BY DEF TypeInv, Scalars, Queueing, Viewing, Writes, clock, service, governor, events
<1>2. Slotted'
  BY ReachTyped DEF TypeInv, Writes, Points
<1>3. \A was : fd[k] # None => \A f \in Overwritten(was, buffer[k]) : Contents(f)
  BY DEF TypeInv, Filed, Overwritten, Contents
<1>4. Contents(tmp') /\ Contents(disk')
  BY <1>3 DEF TypeInv, Filed, Writes
<1>5. Filed'
  <2>1. Contents(tmp)' /\ Contents(disk)'
    BY <1>0, <1>4 DEF Contents
  <2>2. QED
    BY <2>1, <1>0 DEF TypeInv, Filed, Writes
<1>6. Sound(books, Charges)'
  BY <1>0 DEF TypeInv, Writes
<1>7. QED
  BY <1>1, <1>2, <1>5, <1>6 DEF TypeInv

LEMMA RenamesTyped ==
    ASSUME TypeInv, NEW k \in Slots, Renames(k)
    PROVE  TypeInv'
<1>0. Charges \in Nat /\ Charges' = Charges
  BY ChargesFacts DEF TypeInv, Charges, Renames, events
<1>1. Scalars' /\ Queueing' /\ Viewing'
  BY DEF TypeInv, Scalars, Queueing, Viewing, Renames, clock, service, governor, events
<1>2. Slotted'
  BY ReachTyped DEF TypeInv, Renames, Points
<1>3. Contents(tmp') /\ Contents(disk')
  BY DEF TypeInv, Filed, Renames, Contents
<1>4. Filed'
  <2>1. Contents(tmp)' /\ Contents(disk)'
    BY <1>0, <1>3 DEF Contents
  <2>2. \A j \in Slots : fd'[j] \in {None, "tmp", "disk"} /\ (fd'[j] # None => fd[j] # None)
    BY DEF TypeInv, Filed, Renames
  <2>3. fd' \in [Slots -> {None, "tmp", "disk"}]
    BY DEF TypeInv, Filed, Renames
  <2>4. QED
    BY <2>1, <2>2, <2>3, <1>0 DEF TypeInv, Filed, Renames
<1>5. Sound(books, Charges)'
  BY <1>0 DEF TypeInv, Renames
<1>6. QED
  BY <1>1, <1>2, <1>4, <1>5 DEF TypeInv

LEMMA ThrowsTyped ==
    ASSUME TypeInv, NEW k \in Slots, Throws(k)
    PROVE  TypeInv'
<1>1. Scalars' /\ Queueing' /\ Viewing'
  BY DEF TypeInv, Scalars, Queueing, Viewing, Throws, clock, service, governor, events
<1>2. Slotted'
  BY ReturnTyped DEF TypeInv, Throws
<1>3. Sound(books, Charges)' /\ Filed'
  BY BesideTyped DEF Throws, events
<1>4. QED
  BY <1>1, <1>2, <1>3 DEF TypeInv

LEMMA UsageEventTyped ==
    ASSUME TypeInv, UsageEvent
    PROVE  TypeInv'
<1>1. PICK at \in lastAt .. now :
          /\ messages < MaxMessages /\ messages' = messages + 1 /\ lastAt' = at
          /\ queue' = Append(queue, at)
          /\ UNCHANGED <<clock, service, books, files, governor, calls, view, daemon>>
  BY DEF UsageEvent
<1>2. Queueing /\ Scalars
  BY DEF TypeInv
<1>3. at \in 0..MaxTime
  BY <1>2 DEF Queueing, Scalars
<1>4. queue' \in Seq(0..MaxTime) /\ Len(queue') = Len(queue) + 1
  BY <1>1, <1>2, <1>3 DEF Queueing
<1>5. Queueing' /\ Charges' = Charges
  <2>1. messages \in Nat /\ messages' = messages + 1 /\ Len(queue) \in Nat /\ Len(queue) <= messages
        /\ messages < MaxMessages
    BY <1>1, <1>2 DEF Queueing
  <2>2. messages' \in 0..MaxMessages /\ Len(queue') <= messages'
    BY <2>1, <1>4
  <2>3. messages' - Len(queue') = messages - Len(queue)
    BY <2>1, <1>4
  <2>4. QED
    BY <2>2, <2>3, <1>1, <1>3, <1>4 DEF Queueing, Charges
<1>6. Scalars' /\ Slotted' /\ Viewing'
  BY <1>1, SlottedSame DEF TypeInv, Scalars, Viewing, clock, service, governor
<1>7. Charges \in Nat
  BY <1>2, ChargesFacts
<1>8. Filed' /\ Sound(books, Charges)'
  BY <1>1, <1>5, <1>7, FiledSame DEF TypeInv
<1>9. QED
  BY <1>5, <1>6, <1>8 DEF TypeInv

LEMMA ChildExitsTyped ==
    ASSUME TypeInv, ChildExits
    PROVE  TypeInv'
<1>1. Scalars' /\ Queueing' /\ Viewing'
  BY DEF TypeInv, Scalars, Queueing, Viewing, ChildExits, clock, governor, events
<1>2. Slotted'
  <2>1. pc' \in [Slots -> Points]
    BY DEF TypeInv, Slotted, ChildExits, Points
  <2>2. QED
    BY <2>1 DEF TypeInv, Slotted, ChildExits
<1>3. Sound(books, Charges)' /\ Filed'
  BY BesideTyped DEF ChildExits, events
<1>4. QED
  BY <1>1, <1>2, <1>3 DEF TypeInv

\* Start, Stop, the resume timer and the clock.
LEMMA ServiceTyped ==
    ASSUME TypeInv, Start \/ Stop \/ ResumeFires \/ Tick
    PROVE  TypeInv'
<1>1. UNCHANGED <<books, files, queue, messages, lastAt, calls, view, daemon, crashes>>
  BY DEF Start, Stop, ResumeFires, Tick, clock, events, calls
<1>2. Scalars'
  <2>1. CASE Start
    BY <2>1 DEF TypeInv, Scalars, Start, clock, governor
  <2>2. CASE Stop
    BY <2>2 DEF TypeInv, Scalars, Stop, clock, governor
  <2>3. CASE ResumeFires
    BY <2>3 DEF TypeInv, Scalars, ResumeFires, Resume, clock
  <2>4. CASE Tick
    BY <2>4 DEF TypeInv, Scalars, Tick, service, governor
  <2>5. QED
    BY <2>1, <2>2, <2>3, <2>4
<1>3. Queueing' /\ Viewing' /\ Slotted'
  BY <1>1, SlottedSame DEF TypeInv, Queueing, Viewing
<1>4. Sound(books, Charges)' /\ Filed'
  BY <1>1, BesideTyped
<1>5. QED
  BY <1>2, <1>3, <1>4 DEF TypeInv

LEMMA PausesTyped ==
    ASSUME TypeInv, NEW k \in Slots, Pauses(k)
    PROVE  TypeInv'
<1>1. instant[k] \in Nat \cup {None}
  BY DEF TypeInv, Slotted
<1>2. Scalars' /\ Queueing' /\ Viewing'
  BY <1>1 DEF TypeInv, Scalars, Queueing, Viewing, Pauses, clock, events
<1>3. Slotted'
  BY ReturnTyped DEF TypeInv, Pauses
<1>4. Sound(books, Charges)' /\ Filed'
  BY BesideTyped DEF Pauses, events
<1>5. QED
  BY <1>2, <1>3, <1>4 DEF TypeInv

LEMMA ChargeTyped ==
    ASSUME TypeInv, Charge
    PROVE  TypeInv'
<1>1. Queueing /\ Sound(books, Charges) /\ Viewing /\ Slotted /\ Filed
  BY DEF TypeInv
<1>2. PICK at : at = Head(queue)
  OBVIOUS
<1>3. /\ at \in 0..MaxTime /\ at \in Nat /\ queue' \in Seq(0..MaxTime)
      /\ Len(queue') = Len(queue) - 1 /\ Len(queue) > 0
  BY <1>1, <1>2 DEF Charge, Queueing
<1>4. UNCHANGED <<messages, lastAt>>
  BY DEF Charge
<1>5. Charges \in Nat /\ Charges' = Charges + 1 /\ Charges' \in Nat /\ Queueing'
  <2>1. Len(queue) \in Nat /\ messages \in Nat /\ Len(queue) <= messages
    BY <1>1 DEF Queueing
  <2>2. Len(queue') <= messages'
    BY <2>1, <1>3, <1>4
  <2>3. messages - Len(queue) \in Nat /\ messages' - Len(queue') = messages - Len(queue) + 1
    BY <2>1, <1>3, <1>4
  <2>4. Charges \in Nat /\ Charges' = Charges + 1
    BY <2>3 DEF Charges
  <2>5. QED
    BY <2>2, <2>4, <1>1, <1>3, <1>4 DEF Queueing
<1>6. PICK b : b = Charged(Rolled(books, at))
  OBVIOUS
<1>7. Sound(b, Charges')
  <2>1. /\ Sound(Rolled(books, at), Charges) /\ Rolled(books, at).day = DayOf(at)
        /\ Rolled(books, at).week = WeekOf(at)
    BY <1>1, <1>3, <1>5, RolledSound
  <2>2. Rolled(books, at).day # None /\ Rolled(books, at).week # None
    BY <2>1, <1>3, DayFacts, WeekFacts
  <2>3. Sound(Charged(Rolled(books, at)), Charges + 1)
    BY <2>1, <2>2, <1>5, ChargedSound
  <2>4. QED
    BY <2>3, <1>5, <1>6
<1>8. Update(Charger, b, books.day # DayOf(at), books.week # WeekOf(at))
  BY <1>2, <1>6 DEF Charge, UpdateRolled
<1>9. Sound(books, Charges)' /\ Viewing'
  BY <1>1, <1>7, <1>8, UpdateTyped
<1>10. Slotted'
  <2>1. Charger \in Slots /\ Suspend(Charger, "charge", "mkdir", at)
    BY <1>2 DEF Charge, Slots
  <2>2. QED
    BY <1>1, <1>3, <2>1, SuspendTyped DEF Ops, Points
<1>11. Filed'
  BY <1>1, <1>5, FiledSame DEF Charge
<1>12. Scalars'
  BY DEF TypeInv, Scalars, Charge, clock, service, governor
<1>13. QED
  BY <1>5, <1>9, <1>10, <1>11, <1>12 DEF TypeInv

LEMMA ChargeRecordedTyped ==
    ASSUME TypeInv, ChargeRecorded
    PROVE  TypeInv'
<1>1. Charger \in Slots /\ Slotted /\ Scalars
  BY DEF Slots, TypeInv
<1>2. Slotted' /\ Scalars'
  <2>1. CASE Return(Charger) /\ UNCHANGED <<service, governor>>
    BY <2>1, <1>1, ReturnTyped DEF ChargeRecorded, Scalars, clock, service, governor
  <2>2. CASE /\ Breached(Snapshot(Charger)) # {}
             /\ BeginPause(Charger, Latest(Breached(Snapshot(Charger))))
    <3>1. Latest(Breached(Snapshot(Charger))) \in Nat
      BY <1>1, <2>2, SnapshotDated, LatestIs DEF TypeInv
    <3>2. /\ Slotted' /\ paused' = TRUE /\ UNCHANGED <<up, resumeAt>>
          /\ state' \in {"stopped", "running", "stopping", "paused"}
      BY <1>1, <2>2, <3>1, BeginPauseTyped
    <3>3. QED
      BY <1>1, <3>2 DEF ChargeRecorded, Scalars, clock
  <2>3. QED
    BY <2>1, <2>2 DEF ChargeRecorded
<1>3. Queueing' /\ Viewing'
  BY DEF TypeInv, Queueing, Viewing, ChargeRecorded, events
<1>4. Sound(books, Charges)' /\ Filed'
  BY BesideTyped DEF ChargeRecorded, events
<1>5. QED
  BY <1>2, <1>3, <1>4 DEF TypeInv

\* A call that puts rolled books in the store.
LEMMA RefreshTyped ==
    ASSUME TypeInv, NEW k \in Slots, NEW o \in Ops, NEW t \in Nat, Refresh(k, o, t),
           UNCHANGED <<files, queue, messages>>
    PROVE  Sound(books, Charges)' /\ Viewing' /\ Slotted' /\ Filed'
<1>0. Charges \in Nat /\ Charges' = Charges
  BY ChargesFacts DEF TypeInv, Charges
<1>1. PICK b : b = Rolled(books, t)
  OBVIOUS
<1>2. Sound(b, Charges')
  BY <1>0, <1>1, RolledSound DEF TypeInv
<1>3. Update(k, b, books.day # DayOf(t), books.week # WeekOf(t))
  BY <1>1 DEF Refresh, UpdateRolled
<1>4. Sound(books, Charges)' /\ Viewing'
  BY <1>2, <1>3, UpdateTyped DEF TypeInv
<1>5. Slotted'
  <2>1. PICK p \in Points : Suspend(k, o, p, t)
    BY DEF Refresh, Points
  <2>2. QED
    BY <2>1, SuspendTyped DEF TypeInv
<1>6. Filed'
  BY <1>0, FiledSame DEF TypeInv
<1>7. QED
  BY <1>4, <1>5, <1>6

LEMMA NowFacts ==
    ASSUME TypeInv
    PROVE  now \in Nat /\ now \in 0..MaxTime /\ Charges \in Nat
BY ChargesFacts DEF TypeInv, Scalars

LEMMA ShowTyped ==
    ASSUME TypeInv, NEW k \in Calls, Show(k)
    PROVE  TypeInv'
<1>1. Sound(books, Charges)' /\ Viewing' /\ Slotted' /\ Filed'
  BY RefreshTyped, NowFacts DEF Show, Slots, Ops, events
<1>2. Scalars' /\ Queueing'
  BY DEF TypeInv, Scalars, Queueing, Show, clock, service, governor, events
<1>3. QED
  BY <1>1, <1>2 DEF TypeInv

LEMMA RecoverTyped ==
    ASSUME TypeInv, NEW k \in Calls, Recover(k)
    PROVE  TypeInv'
<1>1. Sound(books, Charges)' /\ Viewing' /\ Slotted' /\ Filed'
  BY RefreshTyped, NowFacts DEF Recover, Slots, Ops, events
<1>2. Scalars' /\ Queueing'
  BY DEF TypeInv, Scalars, Queueing, Recover, clock, service, governor, events
<1>3. QED
  BY <1>1, <1>2 DEF TypeInv

LEMMA ResetTyped ==
    ASSUME TypeInv, NEW k \in Calls, NEW o \in {"reset", "resetOverride"}, Reset(k, o)
    PROVE  TypeInv'
<1>0. Charges' = Charges /\ k \in Slots
  BY DEF Charges, Reset, events, Slots
<1>1. PICK b : b = Zeroed(now)
  OBVIOUS
<1>2. Sound(b, Charges')
  BY <1>0, <1>1, NowFacts, NoBooksSound, RolledSound DEF Zeroed
<1>3. Sound(books, Charges)' /\ Viewing'
  <2>1. Update(k, b, TRUE, TRUE)
    BY <1>1 DEF Reset
  <2>2. QED
    BY <1>2, <2>1, UpdateTyped DEF TypeInv
<1>4. Slotted'
  BY <1>0, SuspendTyped, NowFacts DEF Reset, TypeInv, Ops, Points
<1>5. Filed'
  BY <1>0, NowFacts, FiledSame DEF TypeInv, Reset
<1>6. Scalars' /\ Queueing'
  BY DEF TypeInv, Scalars, Queueing, Reset, clock, service, events
<1>7. QED
  BY <1>3, <1>4, <1>5, <1>6 DEF TypeInv

\* What an override leaves in the store.
Lifted(capDay, capWeek) ==
    LET b == Rolled(books, now)
    IN  [b EXCEPT !.capDay = Effective(@, capDay), !.capWeek = Effective(@, capWeek)]

LEMMA OverrideParts ==
    ASSUME NEW k \in Calls, Override(k)
    PROVE  \E capDay \in Ceilings \cup {Unset}, capWeek \in Ceilings \cup {Unset} :
               /\ MayBegin("override") /\ pc[k] = "idle"
               /\ resumeAt' = None
               /\ UpdateRolled(k, Lifted(capDay, capWeek), now)
               /\ Suspend(k, "override", "mkdir", now)
               /\ UNCHANGED <<clock, service, files, paused, events, daemon>>
BY DEF Override, Lifted

LEMMA LiftedSound ==
    ASSUME TypeInv, NEW c \in Ceilings \cup {Unset}, NEW d \in Ceilings \cup {Unset}
    PROVE  /\ Sound(Lifted(c, d), Charges)
           /\ Lifted(c, d).day = DayOf(now) /\ Lifted(c, d).week = WeekOf(now)
           /\ Lifted(c, d).spentDay = Rolled(books, now).spentDay
           /\ Lifted(c, d).spentWeek = Rolled(books, now).spentWeek
<1>1. PICK b : b = Rolled(books, now)
  OBVIOUS
<1>2. Sound(b, Charges) /\ b.day = DayOf(now) /\ b.week = WeekOf(now) /\ b \in Ledger
  BY <1>1, NowFacts, RolledSound DEF TypeInv, Sound
<1>3. PICK x, y : x = Effective(b.capDay, c) /\ y = Effective(b.capWeek, d)
  OBVIOUS
<1>4. x \in Ceilings \cup {Unset} /\ y \in Ceilings \cup {Unset}
  BY <1>2, <1>3 DEF Effective, Ledger
<1>5. Lifted(c, d) = [b EXCEPT !.capDay = x, !.capWeek = y]
  BY <1>1, <1>2, <1>3 DEF Lifted, Ledger
<1>6. Sound(Lifted(c, d), Charges)
  <2>1. PICK n \in Nat : n = Charges
    BY NowFacts
  <2>2. Sound([b EXCEPT !.capDay = x, !.capWeek = y], n)
    BY <1>2, <1>4, <2>1, OverriddenSound
  <2>3. QED
    BY <1>5, <2>1, <2>2
<1>7. /\ Lifted(c, d).day = b.day /\ Lifted(c, d).week = b.week
      /\ Lifted(c, d).spentDay = b.spentDay /\ Lifted(c, d).spentWeek = b.spentWeek
  BY <1>2, <1>5 DEF Ledger
<1>8. QED
  BY <1>1, <1>2, <1>6, <1>7

LEMMA OverrideTyped ==
    ASSUME TypeInv, NEW k \in Calls, Override(k)
    PROVE  TypeInv'
<1>1. PICK c \in Ceilings \cup {Unset}, d \in Ceilings \cup {Unset} :
          /\ resumeAt' = None
          /\ UpdateRolled(k, Lifted(c, d), now)
          /\ Suspend(k, "override", "mkdir", now)
          /\ UNCHANGED <<clock, service, files, paused, events, daemon>>
  BY OverrideParts
<1>2. Charges' = Charges /\ k \in Slots
  BY <1>1 DEF Charges, events, Slots
<1>3. PICK b : b = Lifted(c, d)
  OBVIOUS
<1>4. Sound(b, Charges')
  BY <1>2, <1>3, LiftedSound
<1>5. Sound(books, Charges)' /\ Viewing'
  <2>1. Update(k, b, books.day # DayOf(now), books.week # WeekOf(now))
    BY <1>1, <1>3 DEF UpdateRolled
  <2>2. QED
    BY <1>4, <2>1, UpdateTyped DEF TypeInv
<1>6. Slotted'
  BY <1>1, <1>2, SuspendTyped, NowFacts DEF TypeInv, Ops, Points
<1>7. Filed'
  BY <1>1, <1>2, NowFacts, FiledSame DEF TypeInv
<1>8. Scalars' /\ Queueing'
  BY <1>1 DEF TypeInv, Scalars, Queueing, clock, service, events
<1>9. QED
  BY <1>5, <1>6, <1>7, <1>8 DEF TypeInv

LEMMA ShowStoredTyped ==
    ASSUME TypeInv, NEW k \in Calls, ShowStored(k)
    PROVE  TypeInv'
<1>1. Scalars' /\ Queueing' /\ Viewing'
  BY DEF TypeInv, Scalars, Queueing, Viewing, ShowStored, clock, service, governor, events
<1>2. Slotted'
  BY ReturnTyped DEF TypeInv, ShowStored, Slots
<1>3. Sound(books, Charges)' /\ Filed'
  BY BesideTyped DEF ShowStored, events
<1>4. QED
  BY <1>1, <1>2, <1>3 DEF TypeInv

LEMMA ResetStoredTyped ==
    ASSUME TypeInv, NEW k \in Calls, ResetStored(k)
    PROVE  TypeInv'
<1>1. UNCHANGED <<clock, service, files, resumeAt, events, daemon>> /\ k \in Slots
  BY DEF ResetStored, Slots
<1>2. PICK o \in Ops, t \in Nat : Refresh(k, o, t) /\ paused' \in BOOLEAN
  <2>1. CASE op[k] = "reset" /\ paused' = FALSE /\ Refresh(k, "show", now)
    BY <2>1, NowFacts DEF Ops
  <2>2. CASE op[k] = "resetOverride" /\ UNCHANGED paused /\ Refresh(k, "override", instant[k])
    BY <2>2, <1>1 DEF Ops, TypeInv, Slotted, Scalars
  <2>3. QED
    BY <2>1, <2>2 DEF ResetStored
<1>3. Sound(books, Charges)' /\ Viewing' /\ Slotted' /\ Filed'
  BY <1>1, <1>2, RefreshTyped DEF events
<1>4. Scalars' /\ Queueing'
  BY <1>1, <1>2 DEF TypeInv, Scalars, Queueing, clock, service, events
<1>5. QED
  BY <1>3, <1>4 DEF TypeInv

LEMMA ResumeScalars ==
    ASSUME Scalars, Resume
    PROVE  up' \in BOOLEAN /\ state' \in {"stopped", "running", "stopping", "paused"}
BY DEF Scalars, Resume

LEMMA OverrideStoredTyped ==
    ASSUME TypeInv, NEW k \in Calls, OverrideStored(k)
    PROVE  TypeInv'
<1>1. k \in Slots
  BY DEF Slots
<1>2. Scalars' /\ Queueing'
  BY ResumeScalars DEF TypeInv, Scalars, Queueing, OverrideStored, clock, events
<1>3. Slotted'
  BY <1>1, ReachTyped DEF TypeInv, OverrideStored, Points
<1>4. Viewing'
  <2>1. view[k] \in View
    BY <1>1 DEF TypeInv, Viewing
  <2>2. Kept(view[k], TRUE, TRUE) \in View
    BY <2>1, KeptViews DEF TypeInv
  <2>3. QED
    BY <2>2 DEF TypeInv, Viewing, OverrideStored
<1>5. Sound(books, Charges)' /\ Filed'
  BY BesideTyped DEF OverrideStored, events
<1>6. QED
  BY <1>2, <1>3, <1>4, <1>5 DEF TypeInv

LEMMA OverrideResumedTyped ==
    ASSUME TypeInv, NEW k \in Calls, OverrideResumed(k)
    PROVE  TypeInv'
<1>1. k \in Slots /\ Slotted /\ Scalars
  BY DEF Slots, TypeInv
<1>2. Slotted' /\ Scalars'
  <2>1. CASE Return(k) /\ UNCHANGED <<service, governor>>
    BY <2>1, <1>1, ReturnTyped DEF OverrideResumed, Scalars, clock, service, governor
  <2>2. CASE Breached(Snapshot(k)) # {} /\ BeginPause(k, Latest(Breached(Snapshot(k))))
    <3>1. Latest(Breached(Snapshot(k))) \in Nat
      BY <1>1, <2>2, SnapshotDated, LatestIs DEF TypeInv
    <3>2. /\ Slotted' /\ paused' = TRUE /\ UNCHANGED <<up, resumeAt>>
          /\ state' \in {"stopped", "running", "stopping", "paused"}
      BY <1>1, <2>2, <3>1, BeginPauseTyped
    <3>3. QED
      BY <1>1, <3>2 DEF OverrideResumed, Scalars, clock
  <2>3. QED
    BY <2>1, <2>2 DEF OverrideResumed
<1>3. Queueing' /\ Viewing'
  BY CurrentViews DEF TypeInv, Queueing, Viewing, OverrideResumed, events
<1>4. Sound(books, Charges)' /\ Filed'
  BY BesideTyped DEF OverrideResumed, events
<1>5. QED
  BY <1>2, <1>3, <1>4 DEF TypeInv

LEMMA CrashTyped ==
    ASSUME TypeInv, Crash
    PROVE  TypeInv'
<1>1. UNCHANGED <<now, tmp, disk, messages, lastAt>> /\ queue' = <<>>
  BY DEF Crash
<1>2. Queueing' /\ Charges' \in Nat /\ Charges <= Charges'
  <2>1. <<>> \in Seq(0..MaxTime) /\ Len(<<>>) = 0
    OBVIOUS
  <2>2. messages \in Nat /\ Len(queue) \in Nat /\ Len(queue) <= messages
    BY DEF TypeInv, Queueing
  <2>3. Len(queue') = 0 /\ Len(queue') <= messages'
    BY <1>1, <2>1, <2>2
  <2>4. messages' - Len(queue') = messages
    BY <1>1, <2>2, <2>3
  <2>5. Charges' \in Nat /\ Charges <= Charges'
    BY <2>2, <2>4 DEF Charges
  <2>6. QED
    BY <1>1, <2>1, <2>3, <2>5 DEF TypeInv, Queueing
<1>3. Scalars'
  <2>1. crashes' \in 0..MaxCrashes
    BY DEF TypeInv, Scalars, Crash
  <2>2. now' \in 0..MaxTime
    BY <1>1 DEF TypeInv, Scalars
  <2>3. QED
    BY <2>1, <2>2 DEF Scalars, Crash
<1>4. Slotted'
  BY DEF Crash, Slotted, Ops, Points
<1>5. Sound(books, Charges)'
  BY <1>2, NoBooksSound DEF Crash
<1>6. Filed'
  <2>1. \A b : Sound(b, Charges) => Sound(b, Charges')
    BY <1>2, SoundLater, NowFacts
  <2>2. Contents(tmp)' /\ Contents(disk)'
    BY <1>1, <2>1 DEF TypeInv, Filed, Contents
  <2>3. QED
    BY <2>2 DEF Crash, Filed
<1>7. Viewing'
  BY CurrentViews DEF Crash, Viewing
<1>8. QED
  BY <1>2, <1>3, <1>4, <1>5, <1>6, <1>7 DEF TypeInv

LEMMA BootTyped ==
    ASSUME TypeInv, NEW k \in Calls, Boot(k)
    PROVE  TypeInv'
<1>1. UNCHANGED <<clock, service, files, governor, events, view>> /\ k \in Slots
  BY DEF Boot, Slots
<1>2. Charges \in Nat /\ Charges' = Charges
  BY <1>1, NowFacts DEF Charges, events
<1>3. Scalars' /\ Queueing' /\ Viewing'
  BY <1>1 DEF TypeInv, Scalars, Queueing, Viewing, clock, service, governor, events, Boot
<1>4. Slotted'
  BY <1>1, SuspendTyped DEF TypeInv, Boot, Ops, Points
<1>5. Sound(books, Charges)'
  BY <1>2, NoBooksSound DEF TypeInv, Filed, Contents, Boot, Whole
<1>6. Filed'
  BY <1>1, <1>2, FiledSame DEF TypeInv
<1>7. QED
  BY <1>3, <1>4, <1>5, <1>6 DEF TypeInv

LEMMA RecoveredTyped ==
    ASSUME TypeInv, NEW k \in Calls, Recovered(k)
    PROVE  TypeInv'
<1>1. k \in Slots
  BY DEF Slots
<1>2. Scalars'
  <2>1. CASE Resume /\ UNCHANGED governor
    BY <2>1, ResumeScalars DEF TypeInv, Scalars, Recovered, clock, governor
  <2>2. CASE /\ Breached(Snapshot(k)) # {} /\ paused' = TRUE
             /\ resumeAt' = Latest(Breached(Snapshot(k))) /\ state' = "paused" /\ UNCHANGED up
    <3>1. Latest(Breached(Snapshot(k))) \in Nat
      BY <1>1, <2>2, SnapshotDated, LatestIs DEF TypeInv
    <3>2. QED
      BY <2>2, <3>1 DEF TypeInv, Scalars, Recovered, clock
  <2>3. QED
    BY <2>1, <2>2 DEF Recovered
<1>3. Queueing' /\ Viewing'
  BY DEF TypeInv, Queueing, Viewing, Recovered, events
<1>4. Slotted'
  BY <1>1, ReturnTyped DEF TypeInv, Recovered
<1>5. Sound(books, Charges)' /\ Filed'
  BY BesideTyped DEF Recovered, events
<1>6. QED
  BY <1>2, <1>3, <1>4, <1>5 DEF TypeInv

\* The steps of the system, one by one.
LEMMA StepIsOne ==
    ASSUME Next
    PROVE  \/ \E k \in Slots : Throws(k) \/ Pauses(k) \/ Opens(k) \/ Writes(k) \/ Renames(k)
           \/ \E k \in Calls : \/ ShowStored(k) \/ ResetStored(k) \/ OverrideStored(k) \/ Recovered(k)
                               \/ OverrideResumed(k) \/ Recover(k) \/ Boot(k)
                               \/ Show(k) \/ Override(k) \/ Reset(k, "reset") \/ Reset(k, "resetOverride")
           \/ Charge \/ ChargeRecorded \/ UsageEvent \/ ChildExits \/ Crash
           \/ Start \/ Stop \/ ResumeFires \/ Tick
BY DEF Next, Continues, Completes, Request

LEMMA TypeStep ==
    ASSUME TypeInv, [Next]_vars
    PROVE  TypeInv'
<1>1. ASSUME NEW k \in Slots, Throws(k) \/ Pauses(k) \/ Opens(k) \/ Writes(k) \/ Renames(k)
      PROVE  TypeInv'
  BY <1>1, ThrowsTyped, PausesTyped, OpensTyped, WritesTyped, RenamesTyped
<1>2. ASSUME NEW k \in Calls,
             \/ ShowStored(k) \/ ResetStored(k) \/ OverrideStored(k) \/ Recovered(k)
             \/ OverrideResumed(k) \/ Recover(k) \/ Boot(k)
      PROVE  TypeInv'
  BY <1>2, ShowStoredTyped, ResetStoredTyped, OverrideStoredTyped, RecoveredTyped,
     OverrideResumedTyped, RecoverTyped, BootTyped
<1>3. ASSUME NEW k \in Calls,
             Show(k) \/ Override(k) \/ Reset(k, "reset") \/ Reset(k, "resetOverride")
      PROVE  TypeInv'
  BY <1>3, ShowTyped, OverrideTyped, ResetTyped
<1>4. CASE Charge \/ ChargeRecorded \/ UsageEvent \/ ChildExits \/ Crash
  BY <1>4, ChargeTyped, ChargeRecordedTyped, UsageEventTyped, ChildExitsTyped, CrashTyped
<1>5. CASE Start \/ Stop \/ ResumeFires \/ Tick
  BY <1>5, ServiceTyped
<1>6. CASE UNCHANGED vars
  <2>1. UNCHANGED <<clock, service, books, files, governor, events, calls, view, daemon>>
    BY <1>6 DEF vars
  <2>2. Sound(books, Charges)' /\ Filed'
    BY <2>1, BesideTyped DEF events
  <2>3. Slotted'
    BY <2>1, SlottedSame DEF TypeInv
  <2>4. Scalars' /\ Queueing' /\ Viewing'
    BY <2>1 DEF TypeInv, Scalars, Queueing, Viewing, clock, service, governor, events
  <2>5. QED
    BY <2>2, <2>3, <2>4 DEF TypeInv
<1>7. QED
  BY <1>1, <1>2, <1>3, <1>4, <1>5, <1>6, StepIsOne

\* The types hold and the books add up, however the writes of one file overlap: what the day spent is
\* in its week, and no copy of the books has more messages than were charged (record, persist).
THEOREM TypeCorrect == Spec => []TypeInv
<1>1. Init => TypeInv
  BY InitTyped
<1>2. TypeInv /\ [Next]_vars => TypeInv'
  BY TypeStep
<1>3. QED
  BY <1>1, <1>2, PTL DEF Spec

THEOREM TypesHold == Spec => []TypeOK
BY TypeCorrect, TypeInvImplies, PTL

-----------------------------------------------------------------------------
(* One operation on the store at a time: only a stop comes in between. *)

Storing(k) == pc[k] \in {"mkdir", "writing", "renaming", "stored"}
Busy(k) == pc[k] = "booting" \/ Storing(k)
Alone(k) == \A j \in Slots \ {k} : pc[j] = "idle"

\* A call that is at the store has it for itself, and no message waits.
OwnTurn == \A k \in Calls : Busy(k) => Alone(k) /\ queue = <<>>

\* There is one call; the queue charges, and stops the service; no write fails.
OneCallAtATime ==
    /\ \A j, k \in Calls : j = k \/ pc[j] = "idle" \/ pc[k] = "idle"
    /\ pc[Charger] \notin {"booting", "resumed"}
    /\ \A k \in Slots : pc[k] # "failed"

Stopped == ~up /\ state = "stopped" /\ resumeAt = None /\ ~paused

\* While the budget is recovered, and before, nothing runs.
BootIsFirst ==
    /\ \A k \in Slots : op[k] = "recover" => k \in Calls /\ Busy(k) /\ Stopped
    /\ \A k \in Slots : pc[k] = "booting" => op[k] = "recover"
    /\ ~Live => Stopped /\ queue = <<>> /\ \A k \in Slots : pc[k] = "idle"

Serial == OwnTurn /\ OneCallAtATime /\ BootIsFirst

\* A call moves on.
Moves(k, o, p) ==
    /\ \A j \in Slots : pc'[j] = IF j = k THEN p ELSE pc[j]
    /\ \A j \in Slots : op'[j] = IF j = k THEN o ELSE op[j]

LEMMA SuspendMoves ==
    ASSUME Slotted, NEW k \in Slots, NEW o, NEW p, NEW t, Suspend(k, o, p, t)
    PROVE  Moves(k, o, p)
BY DEF Slotted, Suspend, Moves

LEMMA ReturnMoves ==
    ASSUME Slotted, NEW k \in Slots, Return(k)
    PROVE  Moves(k, "none", "idle")
BY SuspendMoves DEF Return

LEMMA ReachMoves ==
    ASSUME Slotted, NEW k \in Slots, NEW p, Reach(k, p)
    PROVE  Moves(k, op[k], p)
BY DEF Slotted, Reach, Moves

\* A call begins when no other is in progress, and when nothing is to be charged.
LEMMA BeginsAlone ==
    ASSUME Overlap \subseteq {"stop"}, NEW request, request # "stop", MayBegin(request)
    PROVE  Live /\ queue = <<>> /\ \A k \in Slots : pc[k] = "idle"
<1>1. \A k \in Slots : pc[k] = "idle"
  BY DEF MayBegin
<1>2. pc[Charger] = "idle"
  BY <1>1 DEF Slots
<1>3. QED
  BY <1>1, <1>2 DEF MayBegin, Quiet

\* The calls stay apart when one that is alone moves on, ...
LEMMA AloneMoves ==
    ASSUME TypeInv, Serial, NEW k \in Calls, NEW o \in Ops, NEW p \in Points, Moves(k, o, p),
           Alone(k), queue' = <<>>, Live', p # "failed", o = "recover" => Stopped' /\ p \in {"booting", "mkdir", "stored"},
           p = "booting" => o = "recover"
    PROVE  Serial'
<1>1. k \in Slots /\ k # Charger /\ Charger \in Slots
  BY DEF Slots
<1>2. \A j \in Slots \ {k} : pc'[j] = "idle"
  BY DEF Alone, Moves
<1>3. pc'[k] = p /\ op'[k] = o
  BY <1>1 DEF Moves
<1>4. \A j \in Slots \ {k} : op'[j] = op[j] /\ op[j] # "recover"
  BY DEF Alone, Moves, Serial, BootIsFirst, Busy, Storing
<1>5. OwnTurn'
  BY <1>1, <1>2 DEF OwnTurn, Busy, Storing, Alone, Slots
<1>6. OneCallAtATime'
  BY <1>1, <1>2, <1>3 DEF OneCallAtATime, Slots
<1>7. BootIsFirst'
  BY <1>1, <1>2, <1>3, <1>4 DEF BootIsFirst, Busy, Storing
<1>8. QED
  BY <1>5, <1>6, <1>7 DEF Serial

\* ... and when one leaves the store or goes on there while the queue stays as it is.
LEMMA SettledMoves ==
    ASSUME TypeInv, Serial, NEW k \in Slots, NEW o \in Ops, NEW p \in Points, Moves(k, o, p),
           UNCHANGED queue, Live, Live', p \notin {"failed", "booting"}, pc[k] # "idle",
           k = Charger => p # "resumed",
           Storing(k) \/ p \notin {"mkdir", "writing", "renaming", "stored"},
           o = "recover" => /\ op[k] = "recover" /\ Stopped'
                            /\ p \in {"mkdir", "writing", "renaming", "stored"}
    PROVE  Serial'
<1>1. Charger \in Slots /\ Charger \notin Calls /\ Slots = Calls \cup {Charger}
  BY DEF Slots
<1>2. OwnTurn'
  <2>1. ASSUME NEW j \in Calls, Busy(j)' PROVE Alone(j)' /\ queue' = <<>>
    <3>1. Busy(j)
      BY <1>1, <2>1 DEF Busy, Storing, Moves, Serial, BootIsFirst
    <3>2. Alone(j) /\ queue = <<>>
      BY <3>1 DEF Serial, OwnTurn
    <3>3. j = k
      BY <3>2, <1>1 DEF Alone
    <3>4. QED
      BY <3>2, <3>3 DEF Alone, Moves
  <2>2. QED
    BY <2>1 DEF OwnTurn
<1>3. OneCallAtATime'
  BY <1>1 DEF Serial, OneCallAtATime, Moves
<1>4. BootIsFirst'
  <2>1. ASSUME NEW j \in Slots, op'[j] = "recover" PROVE j \in Calls /\ Busy(j)' /\ Stopped'
    <3>1. op[j] = "recover" /\ (j = k => o = "recover")
      BY <2>1 DEF Moves
    <3>2. j \in Calls /\ Busy(j) /\ Stopped /\ Alone(j)
      BY <3>1 DEF Serial, BootIsFirst, OwnTurn
    <3>3. j = k
      BY <3>2 DEF Alone
    <3>4. Stopped' /\ p \in {"mkdir", "writing", "renaming", "stored"}
      BY <3>1, <3>3
    <3>5. Busy(j)'
      BY <3>3, <3>4 DEF Busy, Storing, Moves
    <3>6. QED
      BY <3>2, <3>4, <3>5
  <2>2. QED
    BY <2>1 DEF BootIsFirst, Serial, Moves
<1>5. QED
  BY <1>2, <1>3, <1>4 DEF Serial

LEMMA OneStores ==
    ASSUME Serial, NEW j \in Slots, NEW k \in Slots, Storing(j), Storing(k)
    PROVE  j = k
BY DEF Serial, OwnTurn, OneCallAtATime, Busy, Storing, Alone, Slots

\* The file holds what is in memory.
Saved == disk = books \/ (disk = None /\ books = NoBooks)

Unsaved(k) == pc[k] \in {"mkdir", "writing", "renaming"}

\* A write that is alone puts what is in memory on disk, and is answered from it.
StoreInv ==
    /\ \A k \in Slots : pc[k] = "writing" => fd[k] = "tmp" /\ tmp = Empty /\ buffer[k] = books
    /\ \A k \in Slots : pc[k] = "renaming" => tmp = books
    /\ \A k \in Slots : pc[k] # "writing" => fd[k] = None
    /\ Live /\ (\A k \in Slots : ~Unsaved(k)) => Saved
    /\ \A k \in Slots : Storing(k) => view[k] = Current /\ books # NoBooks

\* A service that the governor believes paused is, or is about to be.
PauseInv ==
    /\ \A k \in Slots : (pc[k] = "stopping" => up) /\ (pc[k] = "held" => ~up)
    /\ paused => (~up /\ state = "paused") \/ \E k \in Slots : pc[k] \in {"stopping", "held"}

Ordered == Serial /\ StoreInv /\ PauseInv

LEMMA StoreAside ==
    ASSUME StoreInv, UNCHANGED <<books, files>>, Live' => Live,
           \A k \in Slots : \/ pc'[k] = pc[k]
                            \/ ~Unsaved(k) /\ pc'[k] \notin {"mkdir", "writing", "renaming", "stored"},
           \A k \in Slots : pc'[k] \in {"mkdir", "writing", "renaming", "stored"} => view'[k] = view[k]
    PROVE  StoreInv'
<1>1. UNCHANGED <<tmp, disk, fd, buffer, books>>
  BY DEF files
<1>2. \A k \in Slots : pc'[k] = "writing" => fd'[k] = "tmp" /\ tmp' = Empty /\ buffer'[k] = books'
  BY <1>1 DEF StoreInv
<1>3. \A k \in Slots : pc'[k] = "renaming" => tmp' = books'
  BY <1>1 DEF StoreInv
<1>4. \A k \in Slots : pc'[k] # "writing" => fd'[k] = None
  BY <1>1 DEF StoreInv, Unsaved
<1>5. Live' /\ (\A k \in Slots : ~Unsaved(k)') => Saved'
  BY <1>1 DEF StoreInv, Unsaved, Saved
<1>6. \A k \in Slots : Storing(k)' => view'[k] = Current /\ books' # NoBooks
  BY <1>1 DEF StoreInv, Storing
<1>7. QED
  BY <1>2, <1>3, <1>4, <1>5, <1>6 DEF StoreInv

\* A call puts new books in the store, to be written if they are.
LEMMA StoreUpdate ==
    ASSUME StoreInv, NEW k \in Slots, NEW o, NEW p \in {"mkdir", "stored"}, Moves(k, o, p),
           NEW b, NEW day, NEW week, Update(k, b, day, week), p = "stored" => b = books, b # NoBooks,
           UNCHANGED files, Live, ~Unsaved(k), \A j \in Slots \ {k} : ~Storing(j)
    PROVE  StoreInv'
<1>1. UNCHANGED <<tmp, disk, fd, buffer>> /\ books' = b
  BY DEF files, Update
<1>2. \A j \in Slots : pc'[j] \notin {"writing", "renaming"} /\ pc[j] \notin {"mkdir", "writing", "renaming"}
  BY DEF Moves, Storing, Unsaved
<1>3. \A j \in Slots : Storing(j)' => j = k
  BY DEF Moves, Storing
<1>4. view'[k] = Current /\ books' # NoBooks
  BY DEF Update
<1>5. Saved
  BY <1>2 DEF StoreInv, Unsaved
<1>6. Live' /\ (\A j \in Slots : ~Unsaved(j)') => Saved'
  BY <1>1, <1>5 DEF Unsaved, Moves, Saved
<1>7. \A j \in Slots : fd'[j] = None
  BY <1>1, <1>2 DEF StoreInv
<1>8. QED
  BY <1>2, <1>3, <1>4, <1>6, <1>7 DEF StoreInv

-----------------------------------------------------------------------------
(* Each step, when operations on the store do not overlap. *)

LEMMA OpensOrdered ==
    ASSUME TypeInv, Ordered, NEW k \in Slots, Opens(k)
    PROVE  Ordered'
<1>0. Slotted /\ Serial /\ StoreInv /\ PauseInv /\ Filed
  BY DEF TypeInv, Ordered
<1>1. Moves(k, op[k], "writing") /\ pc[k] = "mkdir" /\ Live /\ Live'
  BY <1>0, ReachMoves DEF Opens, Quiet, Live
<1>2. Serial'
  BY <1>0, <1>1, SettledMoves DEF Opens, events, service, governor, Storing, Points, Slotted, Stopped,
     Serial, BootIsFirst, OneCallAtATime
<1>3. StoreInv'
  <2>1. \A j \in Slots \ {k} : ~Storing(j) /\ pc'[j] = pc[j]
    BY <1>0, <1>1, OneStores DEF Storing, Moves
  <2>2. pc'[k] = "writing" /\ fd'[k] = "tmp" /\ tmp' = Empty /\ buffer'[k] = books'
    BY <1>0, <1>1 DEF Opens, Moves, Filed
  <2>3. \A j \in Slots \ {k} : fd'[j] = None
    BY <1>0, <2>1 DEF Opens, StoreInv, Storing, Filed
  <2>4. view'[k] = Current /\ books' # NoBooks
    BY <1>0, <1>1 DEF Opens, StoreInv, Storing
  <2>5. QED
    BY <2>1, <2>2, <2>3, <2>4 DEF StoreInv, Storing, Unsaved
<1>4. PauseInv'
  BY <1>0, <1>1 DEF PauseInv, Moves, Opens, service, governor
<1>5. QED
  BY <1>2, <1>3, <1>4 DEF Ordered

LEMMA WritesOrdered ==
    ASSUME TypeInv, Ordered, NEW k \in Slots, Writes(k)
    PROVE  Ordered'
<1>0. Slotted /\ Serial /\ StoreInv /\ PauseInv /\ Filed
  BY DEF TypeInv, Ordered
<1>1. Moves(k, op[k], "renaming") /\ pc[k] = "writing" /\ Live /\ Live'
  BY <1>0, ReachMoves DEF Writes, Quiet, Live
<1>2. Serial'
  BY <1>0, <1>1, SettledMoves DEF Writes, events, service, governor, Storing, Points, Slotted, Stopped,
     Serial, BootIsFirst, OneCallAtATime
<1>3. StoreInv'
  <2>1. \A j \in Slots \ {k} : ~Storing(j) /\ pc'[j] = pc[j]
    BY <1>0, <1>1, OneStores DEF Storing, Moves
  <2>2. fd[k] = "tmp" /\ tmp = Empty /\ buffer[k] = books
    BY <1>0, <1>1 DEF StoreInv
  <2>3. tmp' = books'
    BY <2>2 DEF Writes, Overwritten
  <2>4. \A j \in Slots : fd'[j] = None
    BY <1>0, <2>1 DEF Writes, StoreInv, Storing, Filed
  <2>5. view'[k] = Current /\ books' # NoBooks
    BY <1>0, <1>1 DEF Writes, StoreInv, Storing
  <2>6. pc'[k] = "renaming"
    BY <1>1 DEF Moves
  <2>7. QED
    BY <2>1, <2>3, <2>4, <2>5, <2>6 DEF StoreInv, Storing, Unsaved
<1>4. PauseInv'
  BY <1>0, <1>1 DEF PauseInv, Moves, Writes, service, governor
<1>5. QED
  BY <1>2, <1>3, <1>4 DEF Ordered

LEMMA RenamesOrdered ==
    ASSUME TypeInv, Ordered, NEW k \in Slots, Renames(k)
    PROVE  Ordered'
<1>0. Slotted /\ Serial /\ StoreInv /\ PauseInv /\ Filed
  BY DEF TypeInv, Ordered
<1>1. tmp = books
  BY <1>0 DEF Renames, StoreInv
<1>2. books # None
  <2>1. Sound(books, Charges) /\ Charges \in 0..MaxMessages
    BY ChargesFacts DEF TypeInv
  <2>2. QED
    BY <2>1, SoundIsBooks, FileAssumption
<1>3. Reach(k, "stored") /\ disk' = books /\ UNCHANGED books
  BY <1>1, <1>2 DEF Renames
<1>4. Moves(k, op[k], "stored") /\ pc[k] = "renaming" /\ Live /\ Live'
  BY <1>0, <1>3, ReachMoves DEF Renames, Quiet, Live
<1>5. Serial'
  BY <1>0, <1>4, SettledMoves DEF Renames, events, service, governor, Storing, Points, Slotted, Stopped,
     Serial, BootIsFirst, OneCallAtATime
<1>6. StoreInv'
  <2>1. \A j \in Slots \ {k} : ~Storing(j) /\ pc'[j] = pc[j]
    BY <1>0, <1>4, OneStores DEF Storing, Moves
  <2>2. \A j \in Slots : fd[j] = None
    BY <1>0, <1>4, <2>1 DEF StoreInv, Storing
  <2>3. \A j \in Slots : fd'[j] = None
    BY <1>1, <1>2, <2>2 DEF Renames
  <2>4. view'[k] = Current /\ books' # NoBooks
    BY <1>0, <1>4 DEF Renames, StoreInv, Storing
  <2>5. pc'[k] = "stored" /\ Saved'
    BY <1>3, <1>4 DEF Moves, Saved
  <2>6. QED
    BY <2>1, <2>3, <2>4, <2>5 DEF StoreInv, Storing, Unsaved
<1>7. PauseInv'
  BY <1>0, <1>4 DEF PauseInv, Moves, Renames, service, governor
<1>8. QED
  BY <1>5, <1>6, <1>7 DEF Ordered

LEMMA PausesOrdered ==
    ASSUME TypeInv, Ordered, NEW k \in Slots, Pauses(k)
    PROVE  Ordered'
<1>0. Slotted /\ Serial /\ StoreInv /\ PauseInv
  BY DEF TypeInv, Ordered
<1>1. Moves(k, "none", "idle") /\ pc[k] = "held" /\ Live /\ Live'
  BY <1>0, ReturnMoves DEF Pauses, Live
<1>2. Serial'
  BY <1>0, <1>1, SettledMoves DEF Pauses, events, Storing, Points, Ops
<1>3. StoreInv'
  BY <1>0, <1>1, StoreAside DEF Pauses, Moves, Unsaved
<1>4. PauseInv'
  BY <1>0, <1>1 DEF PauseInv, Moves, Pauses
<1>5. QED
  BY <1>2, <1>3, <1>4 DEF Ordered

\* The service's own steps, the messages and the clock.
LEMMA ServiceOrdered ==
    ASSUME Overlap \subseteq {"stop"}, TypeInv, Ordered,
           Start \/ Stop \/ ResumeFires \/ Tick \/ UsageEvent
    PROVE  Ordered'
<1>0. Slotted /\ Serial /\ StoreInv /\ PauseInv /\ Scalars
  BY DEF TypeInv, Ordered
<1>1. UNCHANGED <<books, files, calls, view, daemon>> /\ UNCHANGED <<op, pc>>
  BY DEF Start, Stop, ResumeFires, Tick, UsageEvent, events, calls
<1>2. StoreInv'
  BY <1>0, <1>1, StoreAside DEF Live
<1>3. CASE Start
  <2>1. \A k \in Slots : pc[k] = "idle"
    BY <1>3, BeginsAlone DEF Start
  <2>2. Serial'
    <3>1. \A k \in Slots : op[k] # "recover"
      BY <1>0, <2>1 DEF Serial, BootIsFirst, Busy, Storing
    <3>2. Live
      BY <1>3 DEF Start, MayBegin, Quiet
    <3>3. QED
      BY <1>0, <1>1, <1>3, <2>1, <3>1, <3>2 DEF Serial, OwnTurn, OneCallAtATime, BootIsFirst, Busy, Storing, Alone,
         Start, events, Live
  <2>3. PauseInv'
    BY <1>0, <1>1, <1>3, <2>1 DEF PauseInv, Start, governor
  <2>4. QED
    BY <1>2, <2>2, <2>3 DEF Ordered
<1>4. CASE Stop
  <2>1. Live
    BY <1>4 DEF Stop, MayBegin, Quiet
  <2>2. \A k \in Slots : op[k] # "recover"
    BY <1>0, <1>4 DEF Stop, Serial, BootIsFirst, Stopped
  <2>3. Serial'
    BY <1>0, <1>1, <1>4, <2>1, <2>2 DEF Serial, OwnTurn, OneCallAtATime, BootIsFirst, Busy, Storing, Alone,
       Stop, events, Live
  <2>4. PauseInv'
    BY <1>0, <1>1, <1>4 DEF PauseInv, Stop, governor, Scalars
  <2>5. QED
    BY <1>2, <2>3, <2>4 DEF Ordered
<1>5. CASE ResumeFires
  <2>1. Live /\ resumeAt # None
    BY <1>5 DEF ResumeFires, Quiet
  <2>2. \A k \in Slots : op[k] # "recover"
    BY <1>0, <2>1 DEF Serial, BootIsFirst, Stopped
  <2>3. Serial'
    BY <1>0, <1>1, <1>5, <2>1, <2>2 DEF Serial, OwnTurn, OneCallAtATime, BootIsFirst, Busy, Storing, Alone,
       ResumeFires, events, Live
  <2>4. PauseInv'
    BY <1>0, <1>1, <1>5 DEF PauseInv, ResumeFires, Resume, Quiet
  <2>5. QED
    BY <1>2, <2>3, <2>4 DEF Ordered
<1>6. CASE Tick
  <2>1. UNCHANGED <<queue, state, up, paused, resumeAt>>
    BY <1>6 DEF Tick, service, governor, events
  <2>2. Serial'
    BY <1>0, <1>1, <2>1 DEF Serial, OwnTurn, OneCallAtATime, BootIsFirst, Busy, Storing, Alone, Live, Stopped
  <2>3. PauseInv'
    BY <1>0, <1>1, <2>1 DEF PauseInv
  <2>4. QED
    BY <1>2, <2>2, <2>3 DEF Ordered
<1>7. CASE UsageEvent
  <2>1. UNCHANGED <<state, up, paused, resumeAt>> /\ Quiet /\ up /\ \A k \in Calls : ~Writing(k)
    BY <1>7 DEF UsageEvent, service, governor
  <2>2. \A k \in Calls : ~Busy(k)
    BY <1>0, <2>1 DEF Quiet, Writing, Busy, Storing, Serial, BootIsFirst, Stopped, Slots
  <2>3. Live /\ \A k \in Slots : op[k] # "recover"
    BY <1>0, <2>1 DEF Quiet, Serial, BootIsFirst, Stopped
  <2>4. Serial'
    BY <1>0, <1>1, <2>1, <2>2, <2>3 DEF Serial, OwnTurn, OneCallAtATime, BootIsFirst, Busy, Storing, Live
  <2>5. PauseInv'
    BY <1>0, <1>1, <2>1 DEF PauseInv
  <2>6. QED
    BY <1>2, <2>4, <2>5 DEF Ordered
<1>8. QED
  BY <1>3, <1>4, <1>5, <1>6, <1>7

LEMMA ChildExitsOrdered ==
    ASSUME TypeInv, Ordered, ChildExits
    PROVE  Ordered'
<1>0. Slotted /\ Serial /\ StoreInv /\ PauseInv
  BY DEF TypeInv, Ordered
<1>1. /\ \A k \in Slots : pc'[k] = IF pc[k] = "stopping" THEN "held" ELSE pc[k]
      /\ up /\ ~up' /\ state' = "stopped" /\ Live /\ Live'
      /\ \A k \in Slots : pc[k] # "held"
      /\ UNCHANGED <<books, files, queue, resumeAt, paused, op, view>>
  BY DEF ChildExits, Quiet, Live, governor, events
<1>2. StoreInv'
  BY <1>0, <1>1, StoreAside DEF Unsaved
<1>3. \A k \in Slots : op[k] # "recover"
  BY <1>0, <1>1 DEF Serial, BootIsFirst, Stopped
<1>4. Serial'
  BY <1>0, <1>1, <1>3 DEF Serial, OwnTurn, OneCallAtATime, BootIsFirst, Busy, Storing, Alone, Slots
<1>5. PauseInv'
  BY <1>0, <1>1 DEF PauseInv
<1>6. QED
  BY <1>2, <1>4, <1>5 DEF Ordered

LEMMA ChargeOrdered ==
    ASSUME TypeInv, Ordered, Charge
    PROVE  Ordered'
<1>0. Slotted /\ Serial /\ StoreInv /\ PauseInv /\ Charger \in Slots
  BY DEF TypeInv, Ordered, Slots
<1>1. /\ Moves(Charger, "charge", "mkdir") /\ pc[Charger] = "idle" /\ queue # <<>> /\ Live /\ Live'
      /\ UNCHANGED <<files, up, state, resumeAt, paused>>
  BY <1>0, SuspendMoves DEF Charge, Live, service, governor
<1>2. \A k \in Calls : ~Busy(k)
  BY <1>0, <1>1 DEF Serial, OwnTurn
<1>3. \A k \in Slots : op[k] # "recover" /\ ~Storing(k)
  BY <1>0, <1>1, <1>2 DEF Serial, BootIsFirst, Busy, Storing, Slots
<1>4. Serial'
  <2>1. \A k \in Calls : pc'[k] = pc[k] /\ op'[k] = op[k]
    BY <1>1, GovernorAssumption DEF Moves, Slots
  <2>2. \A k \in Slots : op'[k] # "recover"
    BY <1>1, <1>3 DEF Moves
  <2>3. pc'[Charger] = "mkdir"
    BY <1>0, <1>1 DEF Moves
  <2>4. OwnTurn'
    BY <1>2, <2>1 DEF OwnTurn, Busy, Storing
  <2>5. OneCallAtATime'
    BY <1>0, <2>1, <2>3 DEF Serial, OneCallAtATime, Slots
  <2>6. BootIsFirst'
    BY <1>0, <1>1, <2>1, <2>2, <2>3 DEF Serial, BootIsFirst, Slots
  <2>7. QED
    BY <2>4, <2>5, <2>6 DEF Serial
<1>5. StoreInv'
  <2>1. PICK at : at = Head(queue)
    OBVIOUS
  <2>2. PICK b, day, week : Update(Charger, b, day, week) /\ b = Charged(Rolled(books, at))
    BY <2>1 DEF Charge, UpdateRolled
  <2>3. at \in Nat
    BY <1>1, <2>1 DEF TypeInv, Queueing
  <2>4. b # NoBooks
    BY <2>2, <2>3, DayFacts DEF Charged, Rolled, NoBooks
  <2>5. QED
    BY <1>0, <1>1, <1>3, <2>2, <2>4, StoreUpdate DEF Storing, Unsaved
<1>6. PauseInv'
  BY <1>0, <1>1 DEF PauseInv, Moves
<1>7. QED
  BY <1>4, <1>5, <1>6 DEF Ordered

\* A call that may pause the service: the charge and the override.
LEMMA JudgesOrdered ==
    ASSUME TypeInv, Ordered, NEW k \in Slots, Live, Live', pc[k] \in {"stored", "resumed"}, op[k] # "recover",
           \/ Return(k) /\ UNCHANGED <<service, governor>>
           \/ \E t \in Nat : BeginPause(k, t),
           UNCHANGED <<books, files, queue>>, \A j \in Slots \ {k} : view'[j] = view[j]
    PROVE  Ordered'
<1>0. Slotted /\ Serial /\ StoreInv /\ PauseInv /\ Scalars
  BY DEF TypeInv, Ordered
<1>1. PICK o \in Ops, p \in {"idle", "stopping", "held"} :
          Moves(k, o, p) /\ o # "recover"
  <2>1. CASE Return(k)
    BY <1>0, <2>1, ReturnMoves DEF Ops
  <2>2. ASSUME NEW t \in Nat, BeginPause(k, t)
        PROVE  Moves(k, op[k], IF up THEN "stopping" ELSE "held")
    BY <1>0, <2>2, SuspendMoves DEF BeginPause
  <2>3. op[k] \in Ops
    BY <1>0 DEF Slotted
  <2>4. QED
    BY <2>1, <2>2, <2>3
<1>2. Serial'
  BY <1>0, <1>1, SettledMoves DEF Points
<1>3. StoreInv'
  BY <1>0, <1>1, StoreAside DEF Moves, Unsaved
<1>4. PauseInv'
  <2>1. CASE Return(k) /\ UNCHANGED <<service, governor>>
    <3>1. Moves(k, "none", "idle")
      BY <1>0, <2>1, ReturnMoves
    <3>2. QED
      BY <1>0, <2>1, <3>1 DEF PauseInv, Moves, service, governor
  <2>2. ASSUME NEW t \in Nat, BeginPause(k, t) PROVE PauseInv'
    <3>1. Moves(k, op[k], IF up THEN "stopping" ELSE "held") /\ UNCHANGED up
      BY <1>0, <2>2, SuspendMoves DEF BeginPause
    <3>2. pc'[k] \in {"stopping", "held"} /\ pc'[k] = IF up THEN "stopping" ELSE "held"
      BY <3>1 DEF Moves
    <3>3. QED
      BY <1>0, <3>1, <3>2 DEF PauseInv, Moves
  <2>3. QED
    BY <2>1, <2>2
<1>5. QED
  BY <1>2, <1>3, <1>4 DEF Ordered

LEMMA ChargeRecordedOrdered ==
    ASSUME TypeInv, Ordered, ChargeRecorded
    PROVE  Ordered'
<1>0. Charger \in Slots /\ Charger \notin Calls /\ Slotted /\ Serial
  BY DEF TypeInv, Ordered, Slots
<1>1. op[Charger] # "recover"
  BY <1>0 DEF Serial, BootIsFirst
<1>2. \/ Return(Charger) /\ UNCHANGED <<service, governor>>
      \/ \E t \in Nat : BeginPause(Charger, t)
  BY <1>0, SnapshotDated, LatestIs DEF TypeInv, ChargeRecorded
<1>3. Live /\ Live' /\ pc[Charger] = "stored" /\ UNCHANGED <<books, files, queue, view>>
  BY DEF ChargeRecorded, Live, events
<1>4. QED
  BY <1>0, <1>1, <1>2, <1>3, JudgesOrdered

LEMMA OverrideResumedOrdered ==
    ASSUME TypeInv, Ordered, NEW k \in Calls, OverrideResumed(k)
    PROVE  Ordered'
<1>0. k \in Slots /\ Slotted /\ Serial
  BY DEF TypeInv, Ordered, Slots
<1>1. Live /\ Live' /\ pc[k] = "resumed" /\ UNCHANGED <<books, files, queue>>
  BY DEF OverrideResumed, Quiet, Live, events
<1>2. op[k] # "recover"
  BY <1>0, <1>1 DEF Serial, BootIsFirst, Busy, Storing
<1>3. \/ Return(k) /\ UNCHANGED <<service, governor>>
      \/ \E t \in Nat : BeginPause(k, t)
  BY <1>0, SnapshotDated, LatestIs DEF TypeInv, OverrideResumed
<1>4. \A j \in Slots \ {k} : view'[j] = view[j]
  BY <1>0 DEF OverrideResumed, TypeInv, Viewing
<1>5. QED
  BY <1>0, <1>1, <1>2, <1>3, <1>4, JudgesOrdered

\* A call goes to the store with new books, alone.
LEMMA GoesToStore ==
    ASSUME TypeInv, Ordered, NEW k \in Calls, NEW o \in Ops, NEW p \in {"mkdir", "stored"}, Moves(k, o, p),
           NEW b, NEW day, NEW week, Update(k, b, day, week), p = "stored" => b = books, b # NoBooks,
           UNCHANGED <<files, queue, up, state>>, Live, Live',
           Alone(k), ~Unsaved(k), pc[k] \notin {"stopping", "held"}, queue = <<>>,
           o = "recover" => Stopped', paused' \in {FALSE, paused}
    PROVE  Ordered'
<1>0. k \in Slots /\ Serial /\ StoreInv /\ PauseInv /\ Scalars
  BY DEF TypeInv, Ordered, Slots
<1>1. Serial'
  BY <1>0, AloneMoves DEF Points
<1>2. StoreInv'
  <2>1. \A j \in Slots \ {k} : ~Storing(j)
    BY DEF Alone, Storing
  <2>2. QED
    BY <1>0, <2>1, StoreUpdate
<1>3. PauseInv'
  <2>1. \A j \in Slots : pc[j] \notin {"stopping", "held"} /\ pc'[j] \notin {"stopping", "held"}
    BY DEF Alone, Moves
  <2>2. paused' => paused
    BY <1>0 DEF Scalars
  <2>3. QED
    BY <1>0, <2>1, <2>2 DEF PauseInv
<1>4. QED
  BY <1>1, <1>2, <1>3 DEF Ordered

LEMMA RefreshOrdered ==
    ASSUME TypeInv, Ordered, NEW k \in Calls, NEW o \in Ops, NEW t \in Nat, Refresh(k, o, t),
           UNCHANGED <<files, queue, up, state>>, Live, Live',
           Alone(k), ~Unsaved(k), pc[k] \notin {"stopping", "held"}, queue = <<>>,
           o = "recover" => Stopped', paused' \in {FALSE, paused}
    PROVE  Ordered'
<1>1. Slotted /\ k \in Slots
  BY DEF TypeInv, Slots
<1>2. PICK b, day, week : Update(k, b, day, week) /\ b = Rolled(books, t)
  BY DEF Refresh, UpdateRolled
<1>3. PICK p \in {"mkdir", "stored"} : Suspend(k, o, p, t) /\ (p = "stored" => Rolled(books, t) = books)
  BY DEF Refresh
<1>4. Moves(k, o, p)
  BY <1>1, <1>3, SuspendMoves
<1>5. b # NoBooks
  BY <1>2, DayFacts DEF Rolled, NoBooks
<1>6. QED
  BY <1>2, <1>3, <1>4, <1>5, GoesToStore

LEMMA BeginsOrdered ==
    ASSUME Overlap \subseteq {"stop"}, TypeInv, Ordered, NEW k \in Calls,
           Show(k) \/ Override(k) \/ Reset(k, "reset") \/ Reset(k, "resetOverride")
    PROVE  Ordered'
<1>0. k \in Slots /\ Slotted
  BY DEF Slots, TypeInv
<1>1. /\ Live /\ Live' /\ queue = <<>> /\ UNCHANGED <<files, queue, up, state, paused>>
      /\ \A j \in Slots : pc[j] = "idle"
  <2>1. MayBegin("show") \/ MayBegin("override") \/ MayBegin("reset") \/ MayBegin("resetOverride")
    BY DEF Show, Override, Reset
  <2>2. UNCHANGED <<files, queue, up, state, paused, daemon>>
    BY DEF Show, Override, Reset, service, governor, events
  <2>3. QED
    BY <2>1, <2>2, BeginsAlone DEF Live
<1>2. Alone(k) /\ ~Unsaved(k) /\ pc[k] = "idle"
  BY <1>0, <1>1 DEF Alone, Unsaved
<1>3. CASE Show(k)
  BY <1>1, <1>2, <1>3, RefreshOrdered, NowFacts DEF Show, Ops
<1>4. CASE Override(k)
  <2>1. PICK b, day, week : Update(k, b, day, week) /\ b # NoBooks
    <3>1. PICK c \in Ceilings \cup {Unset}, d \in Ceilings \cup {Unset} :
              UpdateRolled(k, Lifted(c, d), now)
      BY <1>4, OverrideParts
    <3>2. Lifted(c, d) # NoBooks
      <4>1. Lifted(c, d).day = DayOf(now) /\ DayOf(now) \in Nat
        BY LiftedSound, NowFacts, DayFacts
      <4>2. NoBooks.day = None
        BY DEF NoBooks
      <4>3. QED
        BY <4>1, <4>2
    <3>3. QED
      BY <3>1, <3>2 DEF UpdateRolled
  <2>2. Suspend(k, "override", "mkdir", now)
    BY <1>4 DEF Override
  <2>3. Moves(k, "override", "mkdir")
    BY <1>0, <2>2, SuspendMoves
  <2>4. QED
    BY <1>1, <1>2, <2>1, <2>3, GoesToStore DEF Ops
<1>5. ASSUME NEW o \in {"reset", "resetOverride"}, Reset(k, o) PROVE Ordered'
  <2>1. PICK b, day, week : Update(k, b, day, week) /\ b # NoBooks
    <3>1. Zeroed(now).day = DayOf(now) /\ DayOf(now) \in Nat
      BY NowFacts, DayFacts DEF Zeroed, Rolled
    <3>2. NoBooks.day = None
      BY DEF NoBooks
    <3>3. Zeroed(now) # NoBooks
      BY <3>1, <3>2
    <3>4. QED
      BY <1>5, <3>3 DEF Reset
  <2>2. Moves(k, o, "mkdir")
    BY <1>0, <1>5, SuspendMoves DEF Reset
  <2>3. QED
    BY <1>1, <1>2, <2>1, <2>2, GoesToStore DEF Ops
<1>6. QED
  BY <1>3, <1>4, <1>5

LEMMA ContinuesOrdered ==
    ASSUME TypeInv, Ordered, NEW k \in Calls,
           ShowStored(k) \/ ResetStored(k) \/ OverrideStored(k) \/ Recover(k) \/ Recovered(k)
    PROVE  Ordered'
<1>0. k \in Slots /\ k # Charger /\ Slotted /\ Serial /\ StoreInv /\ PauseInv /\ Scalars
  BY DEF TypeInv, Ordered, Slots
<1>1. Live /\ Live' /\ pc[k] \in {"stored", "booting"} /\ UNCHANGED <<files, queue>>
  BY DEF ShowStored, ResetStored, OverrideStored, Recover, Recovered, Quiet, Live, events
<1>2. Busy(k) /\ Alone(k) /\ queue = <<>> /\ ~Unsaved(k)
  BY <1>0, <1>1 DEF Busy, Storing, Serial, OwnTurn, Unsaved
<1>3. CASE ShowStored(k)
  <2>1. Moves(k, "none", "idle") /\ UNCHANGED <<books, up, state, resumeAt, paused, view>>
    BY <1>0, <1>3, ReturnMoves DEF ShowStored, service, governor
  <2>2. Serial'
    BY <1>0, <1>1, <1>2, <2>1, AloneMoves DEF Ops, Points
  <2>3. StoreInv'
    BY <1>0, <1>1, <1>2, <2>1, StoreAside DEF Moves
  <2>4. PauseInv'
    BY <1>0, <1>1, <2>1 DEF PauseInv, Moves
  <2>5. QED
    BY <2>2, <2>3, <2>4 DEF Ordered
<1>4. CASE ResetStored(k)
  <2>1. PICK o \in {"show", "override"}, t \in Nat : Refresh(k, o, t) /\ paused' \in {FALSE, paused}
    <3>1. CASE op[k] = "reset" /\ paused' = FALSE /\ Refresh(k, "show", now)
      BY <3>1, NowFacts
    <3>2. CASE op[k] = "resetOverride" /\ UNCHANGED paused /\ Refresh(k, "override", instant[k])
      BY <3>2, <1>0 DEF Slotted
    <3>3. QED
      BY <1>4, <3>1, <3>2 DEF ResetStored
  <2>2. UNCHANGED <<up, state>>
    BY <1>4 DEF ResetStored, service
  <2>3. QED
    BY <1>1, <1>2, <2>1, <2>2, RefreshOrdered DEF Ops
<1>5. CASE OverrideStored(k)
  <2>1. Moves(k, "override", "resumed") /\ paused' = FALSE /\ UNCHANGED books /\ Resume
    BY <1>0, <1>5, ReachMoves DEF OverrideStored
  <2>2. Serial'
    BY <1>0, <1>1, <1>2, <2>1, AloneMoves DEF Ops, Points
  <2>3. StoreInv'
    <3>1. \A j \in Slots \ {k} : pc'[j] = "idle" /\ pc[j] = "idle"
      BY <1>2, <2>1 DEF Alone, Moves
    <3>2. pc'[k] = "resumed"
      BY <1>0, <2>1 DEF Moves
    <3>3. QED
      BY <1>0, <1>1, <1>2, <2>1, <3>1, <3>2, StoreAside
  <2>4. PauseInv'
    BY <1>0, <1>1, <1>2, <2>1 DEF PauseInv, Moves, Alone
  <2>5. QED
    BY <2>2, <2>3, <2>4 DEF Ordered
<1>6. CASE Recover(k)
  <2>1. Refresh(k, "recover", now) /\ UNCHANGED <<up, state, resumeAt, paused>> /\ pc[k] = "booting"
    BY <1>6 DEF Recover, service, governor
  <2>2. Stopped
    BY <1>0, <2>1 DEF Serial, BootIsFirst
  <2>3. Stopped'
    BY <2>1, <2>2 DEF Stopped
  <2>4. QED
    BY <1>1, <1>2, <2>1, <2>3, RefreshOrdered, NowFacts DEF Ops
<1>7. CASE Recovered(k)
  <2>1. Moves(k, "none", "idle") /\ UNCHANGED <<books, view>> /\ op[k] = "recover"
    BY <1>0, <1>7, ReturnMoves DEF Recovered
  <2>2. Serial'
    BY <1>0, <1>1, <1>2, <2>1, AloneMoves DEF Ops, Points
  <2>3. StoreInv'
    BY <1>0, <1>1, <1>2, <2>1, StoreAside DEF Moves
  <2>4. PauseInv'
    <3>1. Stopped
      BY <1>0, <2>1 DEF Serial, BootIsFirst
    <3>2. \A j \in Slots : pc'[j] = "idle"
      BY <1>2, <2>1 DEF Alone, Moves
    <3>3. paused' => ~up' /\ state' = "paused"
      BY <3>1, <1>7 DEF Recovered, Stopped, governor
    <3>4. QED
      BY <3>2, <3>3 DEF PauseInv
  <2>5. QED
    BY <2>2, <2>3, <2>4 DEF Ordered
<1>8. QED
  BY <1>3, <1>4, <1>5, <1>6, <1>7

LEMMA CrashOrdered ==
    ASSUME TypeInv, Ordered, Crash
    PROVE  Ordered'
<1>1. /\ \A k \in Slots : pc'[k] = "idle" /\ op'[k] = "none" /\ fd'[k] = None
      /\ ~Live' /\ Stopped' /\ queue' = <<>> /\ ~paused'
  BY DEF Crash, Live, Stopped
<1>2. Serial'
  BY <1>1 DEF Serial, OwnTurn, OneCallAtATime, BootIsFirst, Busy, Storing, Slots
<1>3. StoreInv'
  BY <1>1 DEF StoreInv, Storing
<1>4. PauseInv'
  BY <1>1 DEF PauseInv
<1>5. QED
  BY <1>2, <1>3, <1>4 DEF Ordered

LEMMA BootOrdered ==
    ASSUME TypeInv, Ordered, NEW k \in Calls, Boot(k)
    PROVE  Ordered'
<1>0. k \in Slots /\ Slotted /\ Serial /\ StoreInv /\ PauseInv /\ ~Live
  BY DEF TypeInv, Ordered, Slots, Boot, Live
<1>1. Moves(k, "recover", "booting")
  BY <1>0, SuspendMoves DEF Boot
<1>2. Live' /\ UNCHANGED <<up, state, resumeAt, paused, queue, view, tmp, disk, fd, buffer>>
  BY DEF Boot, Live, service, governor, events, files
<1>3. Stopped /\ queue = <<>> /\ \A j \in Slots : pc[j] = "idle"
  BY <1>0 DEF Serial, BootIsFirst
<1>4. Alone(k) /\ Stopped'
  BY <1>2, <1>3 DEF Alone, Stopped
<1>5. Serial'
  BY <1>0, <1>1, <1>2, <1>3, <1>4, AloneMoves DEF Ops, Points, Ordered
<1>6. StoreInv'
  <2>1. Saved'
    BY <1>2 DEF Boot, Saved
  <2>2. \A j \in Slots : pc'[j] \in {"idle", "booting"} /\ fd'[j] = None
    BY <1>0, <1>1, <1>2, <1>3 DEF StoreInv, Moves
  <2>3. QED
    BY <2>1, <2>2 DEF StoreInv, Storing
<1>7. PauseInv'
  BY <1>0, <1>1, <1>2, <1>3 DEF PauseInv, Moves, Stopped
<1>8. QED
  BY <1>5, <1>6, <1>7 DEF Ordered

LEMMA InitOrdered == Init => Ordered
<1> SUFFICES ASSUME Init PROVE Ordered
  OBVIOUS
<1>1. /\ \A k \in Slots : pc[k] = "idle" /\ op[k] = "none" /\ fd[k] = None
      /\ ~Live /\ Stopped /\ queue = <<>> /\ ~paused
  BY DEF Init, Live, Stopped
<1>2. Serial
  BY <1>1 DEF Serial, OwnTurn, OneCallAtATime, BootIsFirst, Busy, Storing, Slots
<1>3. StoreInv /\ PauseInv
  BY <1>1 DEF StoreInv, Storing, PauseInv
<1>4. QED
  BY <1>2, <1>3 DEF Ordered

LEMMA OrderedStep ==
    ASSUME Overlap \subseteq {"stop"}, TypeInv, Ordered, [Next]_vars
    PROVE  Ordered'
<1>1. ASSUME NEW k \in Slots, Throws(k) \/ Pauses(k) \/ Opens(k) \/ Writes(k) \/ Renames(k)
      PROVE  Ordered'
  <2>1. ~Throws(k)
    BY DEF Throws, Ordered, Serial, OneCallAtATime
  <2>2. QED
    BY <1>1, <2>1, PausesOrdered, OpensOrdered, WritesOrdered, RenamesOrdered
<1>2. ASSUME NEW k \in Calls,
             \/ ShowStored(k) \/ ResetStored(k) \/ OverrideStored(k) \/ Recovered(k)
             \/ OverrideResumed(k) \/ Recover(k) \/ Boot(k)
      PROVE  Ordered'
  BY <1>2, ContinuesOrdered, OverrideResumedOrdered, BootOrdered
<1>3. ASSUME NEW k \in Calls,
             Show(k) \/ Override(k) \/ Reset(k, "reset") \/ Reset(k, "resetOverride")
      PROVE  Ordered'
  BY <1>3, BeginsOrdered
<1>4. CASE Charge \/ ChargeRecorded \/ ChildExits \/ Crash
  BY <1>4, ChargeOrdered, ChargeRecordedOrdered, ChildExitsOrdered, CrashOrdered
<1>5. CASE Start \/ Stop \/ ResumeFires \/ Tick \/ UsageEvent
  BY <1>5, ServiceOrdered
<1>6. CASE UNCHANGED vars
  <2>1. UNCHANGED <<state, up, books, tmp, disk, fd, buffer, paused, resumeAt, queue, op, pc, view, daemon>>
    BY <1>6 DEF vars, service, files, governor, events, calls
  <2>2. QED
    BY <2>1 DEF Ordered, Serial, OwnTurn, OneCallAtATime, BootIsFirst, Busy, Storing, Alone, Stopped, Live,
       StoreInv, Unsaved, Saved, PauseInv
<1>7. QED
  BY <1>1, <1>2, <1>3, <1>4, <1>5, <1>6, StepIsOne

\* One operation on the store at a time, each with what it needs of the file, and no pause
\* half made: what the queue of the governor and the awaits of the requests are there for.
THEOREM OrderedInvariant == ASSUME Overlap \subseteq {"stop"} PROVE Spec => []Ordered
<1>1. Init => Ordered
  BY InitOrdered
<1>2. TypeInv /\ Ordered /\ [Next]_vars => Ordered'
  BY OrderedStep
<1>3. Spec => []TypeInv
  BY TypeCorrect
<1>4. QED
  BY <1>1, <1>2, <1>3, PTL DEF Spec

\* A service that the governor believes paused is down and says so, once nothing is in progress: the
\* flag that makes the governor ignore a breach is never left on a service that runs (charge, stop,
\* override, recover).
THEOREM PausedTheorem == ASSUME Overlap \subseteq {"stop"} PROVE Spec => []PausedMeansHeld
<1>1. Ordered => PausedMeansHeld
  BY DEF Ordered, PauseInv, PausedMeansHeld, Idle
<1>2. QED
  BY <1>1, OrderedInvariant, PTL

\* What is judged is what is in the store.
LEMMA SnapshotIsBooks ==
    ASSUME TypeInv, Ordered, NEW k \in Slots, Storing(k)
    PROVE  Snapshot(k) = books
<1>1. view[k] = Current
  BY DEF Ordered, StoreInv
<1>2. books \in Ledger
  BY DEF TypeInv, Sound
<1>3. view[k].day = None /\ view[k].week = None
  BY <1>1 DEF Current
<1>4. Snapshot(k) = [books EXCEPT !.day = books.day, !.spentDay = books.spentDay,
                                  !.week = books.week, !.spentWeek = books.spentWeek]
  BY <1>2, <1>3 DEF Snapshot, Ledger
<1>5. PICK b \in Ledger : b = books
  BY <1>2
<1>6. b = [b EXCEPT !.day = b.day, !.spentDay = b.spentDay, !.week = b.week, !.spentWeek = b.spentWeek]
  BY DEF Ledger
<1>7. QED
  BY <1>4, <1>5, <1>6

\* A cap that nothing was spent of is not reached.
LEMMA FreshWindow ==
    ASSUME NEW cap \in Caps
    PROVE  ~Reached(0, Effective(cap, Unset))
BY DEF Effective, Reached, Caps

\* Time only ends breaches.
LEMMA RolledBreaches ==
    ASSUME NEW b, NEW t, Breached(b) = {}
    PROVE  Breached(Rolled(b, t)) = {}
<1>1. ~DayReached(b) /\ ~WeekReached(b)
  BY BreachedIs
<1>2. PICK r : r = Rolled(b, t)
  OBVIOUS
<1>3. /\ r.spentDay = (IF b.day = DayOf(t) THEN b.spentDay ELSE 0)
      /\ r.capDay = (IF b.day = DayOf(t) THEN b.capDay ELSE Unset)
      /\ r.spentWeek = (IF b.week = WeekOf(t) THEN b.spentWeek ELSE 0)
      /\ r.capWeek = (IF b.week = WeekOf(t) THEN b.capWeek ELSE Unset)
  BY <1>2 DEF Rolled
<1>4. ~DayReached(r)
  BY <1>1, <1>3, FreshWindow DEF DayReached
<1>5. ~WeekReached(r)
  BY <1>1, <1>3, FreshWindow DEF WeekReached
<1>6. QED
  BY <1>2, <1>4, <1>5, BreachedIs

\* A boot starts no service that the file says is over a cap at that time: the snapshot that
\* recover() judges is what is on disk, whatever the clock did since (refresh, recover).
THEOREM BootTheorem == ASSUME Overlap \subseteq {"stop"} PROVE Spec => BootHolds
<1>1. ASSUME TypeInv, Ordered, NEW k \in Calls, Recovered(k), ~up, up'
      PROVE  Notify \/ Breached(Rolled(disk, now)) = {}
  <2>1. k \in Slots /\ Storing(k) /\ Live /\ pc[k] = "stored" /\ k \in Calls /\ op[k] = "recover"
    BY <1>1 DEF Recovered, Slots, Storing
  <2>2. Snapshot(k) = books
    BY <1>1, <2>1, SnapshotIsBooks
  <2>3. Notify \/ Breached(books) = {}
    BY <1>1, <2>2 DEF Recovered
  <2>4. \A j \in Slots : ~Unsaved(j)
    <3>1. Alone(k)
      BY <1>1, <2>1 DEF Ordered, Serial, OwnTurn, Busy
    <3>2. QED
      BY <3>1, <2>1 DEF Alone, Unsaved
  <2>5. disk = books
    BY <1>1, <2>1, <2>4 DEF Ordered, StoreInv, Saved
  <2>6. QED
    BY <2>3, <2>5, RolledBreaches
<1>2. TypeInv /\ Ordered /\ [Next]_vars =>
          [\A k \in Calls : Recovered(k) /\ ~up /\ up' => Notify \/ Breached(Rolled(disk, now)) = {}]_vars
  BY <1>1
<1>3. Spec => []TypeInv
  BY TypeCorrect
<1>4. QED
  BY <1>2, <1>3, OrderedInvariant, PTL DEF Spec, BootHolds

-----------------------------------------------------------------------------
(* What a pause waits for is on disk. *)

\* A window that has begun is this one, or over.
LEMMA DayPassed ==
    ASSUME NEW d \in Nat, NEW t \in Nat, d * DayLength <= t, d # DayOf(t)
    PROVE  (d + 1) * DayLength <= t
<1>1. PICK q \in Nat : q = DayOf(t)
  BY DayFacts
<1>2. DayLength * q <= t /\ t < DayLength * (q + 1)
  BY <1>1, DayFacts
<1>3. DayLength * d < DayLength * (q + 1)
  BY <1>2
<1>4. d < q + 1
  <2> SUFFICES ASSUME q + 1 <= d PROVE FALSE
    OBVIOUS
  <2>1. DayLength * (q + 1) <= DayLength * d
    OBVIOUS
  <2>2. QED
    BY <1>3, <2>1
<1>5. d + 1 <= q
  BY <1>1, <1>4
<1>6. DayLength * (d + 1) <= DayLength * q
  BY <1>5
<1>7. QED
  BY <1>2, <1>6

LEMMA WeekPassed ==
    ASSUME NEW w \in Nat, NEW t \in Nat, w * WeekLength <= t, w # WeekOf(t)
    PROVE  (w + 1) * WeekLength <= t
<1>1. PICK q \in Nat : q = WeekOf(t)
  BY WeekFacts
<1>2. WeekLength * q <= t /\ t < WeekLength * (q + 1)
  BY <1>1, WeekFacts
<1>3. WeekLength * w < WeekLength * (q + 1)
  BY <1>2
<1>4. w < q + 1
  <2> SUFFICES ASSUME q + 1 <= w PROVE FALSE
    OBVIOUS
  <2>1. WeekLength * (q + 1) <= WeekLength * w
    OBVIOUS
  <2>2. QED
    BY <1>3, <2>1
<1>5. w + 1 <= q
  BY <1>1, <1>4
<1>6. WeekLength * (w + 1) <= WeekLength * q
  BY <1>5
<1>7. QED
  BY <1>2, <1>6

\* No message that is still to be charged, or to come, began before this.
Earliest == IF queue = <<>> THEN lastAt ELSE queue[1]

InOrder ==
    /\ lastAt <= now
    /\ \A i \in DOMAIN queue : queue[i] <= lastAt
    /\ \A i, j \in DOMAIN queue : i <= j => queue[i] <= queue[j]

\* The windows in which something was spent have begun by e.
Begun(b, e) ==
    /\ b.spentDay > 0 => b.day * DayLength <= e
    /\ b.spentWeek > 0 => b.week * WeekLength <= e

BegunInv == Begun(books, Earliest) /\ (disk \in {None, Empty, Torn} \/ Begun(disk, Earliest))

\* What is to happen at t is due by n, or waits for a window of b that is over its cap.
Awaited(t, b, n) ==
    \/ n >= t
    \/ DayReached(b) /\ t = DayEnd(b)
    \/ WeekReached(b) /\ t = WeekEnd(b)

AwaitedInv ==
    /\ resumeAt # None => Awaited(resumeAt, books, now)
    /\ \A k \in Slots : pc[k] \in {"stopping", "held"} =>
           instant[k] \in Nat /\ Awaited(instant[k], books, now)

\* The windows that `pid resume` copied are over, or those of b, which may hold more by now.
SeenDay(v, b, n) ==
    \/ v.spentDay = 0
    \/ n >= (v.day + 1) * DayLength
    \/ v.day = b.day /\ v.spentDay <= b.spentDay

SeenWeek(v, b, n) ==
    \/ v.spentWeek = 0
    \/ n >= (v.week + 1) * WeekLength
    \/ v.week = b.week /\ v.spentWeek <= b.spentWeek

SeenInv ==
    \A k \in Slots : pc[k] = "resumed" =>
        /\ view[k].day # None /\ view[k].week # None
        /\ SeenDay(view[k].day, books, now) /\ SeenWeek(view[k].week, books, now)

\* An operation that may lift a pause has cancelled its timer.
CancelledInv ==
    \A k \in Calls : Storing(k) /\ op[k] \in {"reset", "override", "resetOverride"} => resumeAt = None

HeldInv == InOrder /\ BegunInv /\ AwaitedInv /\ SeenInv /\ CancelledInv

LEMMA EarliestFacts ==
    ASSUME TypeInv, InOrder
    PROVE  /\ Earliest \in Nat /\ Earliest <= lastAt /\ Earliest <= now /\ lastAt \in Nat /\ now \in Nat
           /\ queue # <<>> => Earliest = Head(queue)
<1>1. queue \in Seq(0 .. MaxTime) /\ lastAt \in Nat /\ now \in Nat
  BY NowFacts DEF TypeInv, Queueing
<1>2. queue # <<>> => 1 \in DOMAIN queue /\ queue[1] \in Nat
  BY <1>1
<1>3. QED
  BY <1>1, <1>2 DEF Earliest, InOrder

LEMMA EmptySeq ==
    ASSUME NEW S, NEW s \in Seq(S), Len(s) = 0
    PROVE  s = <<>>
OBVIOUS

\* Messages are charged in the order in which they began, none before one that was charged.
LEMMA EarliestGrows ==
    ASSUME TypeInv, InOrder, [Next]_vars
    PROVE  InOrder' /\ Earliest <= Earliest' /\ now <= now'
<1>0. /\ queue \in Seq(0 .. MaxTime) /\ Len(queue) \in Nat /\ DOMAIN queue = 1 .. Len(queue)
      /\ lastAt \in Nat /\ now \in Nat
      /\ \A i \in DOMAIN queue : queue[i] \in Nat
  BY NowFacts DEF TypeInv, Queueing
<1>1. CASE UsageEvent
  <2>1. PICK at \in lastAt .. now : lastAt' = at /\ queue' = Append(queue, at) /\ now' = now
    BY <1>1 DEF UsageEvent, clock
  <2>2. /\ at \in Nat /\ lastAt <= at /\ at <= now
        /\ DOMAIN queue' = 1 .. Len(queue) + 1
        /\ \A i \in 1 .. Len(queue) : queue'[i] = queue[i]
        /\ queue'[Len(queue) + 1] = at
    BY <1>0, <2>1
  <2>3. \A i \in DOMAIN queue' : queue'[i] <= at
    BY <1>0, <2>2 DEF InOrder
  <2>4. \A i, j \in DOMAIN queue' : i <= j => queue'[i] <= queue'[j]
    BY <1>0, <2>2, <2>3 DEF InOrder
  <2>5. InOrder'
    BY <2>1, <2>2, <2>3, <2>4 DEF InOrder
  <2>6. queue' # <<>> /\ queue'[1] = IF queue = <<>> THEN at ELSE queue[1]
    <3>1. CASE queue = <<>>
      BY <1>0, <2>2, <3>1
    <3>2. CASE queue # <<>>
      BY <1>0, <2>2, <3>2
    <3>3. QED
      BY <3>1, <3>2
  <2>7. Earliest <= Earliest'
    BY <1>0, <2>2, <2>6 DEF Earliest
  <2>8. QED
    BY <1>0, <2>1, <2>5, <2>7
<1>2. CASE Charge
  <2>1. queue # <<>> /\ queue' = Tail(queue) /\ lastAt' = lastAt /\ now' = now
    BY <1>2 DEF Charge, clock
  <2>2. /\ DOMAIN queue' = 1 .. Len(queue) - 1 /\ Len(queue) >= 1
        /\ \A i \in 1 .. Len(queue) - 1 : queue'[i] = queue[i + 1]
    BY <1>0, <2>1
  <2>3. InOrder'
    <3>1. \A i \in DOMAIN queue' : i + 1 \in DOMAIN queue /\ queue'[i] = queue[i + 1]
      BY <1>0, <2>2
    <3>2. \A i \in DOMAIN queue' : queue'[i] <= lastAt
      BY <3>1 DEF InOrder
    <3>3. \A i, j \in DOMAIN queue' : i <= j => queue'[i] <= queue'[j]
      <4>1. \A i, j \in DOMAIN queue' : i <= j => i + 1 <= j + 1
        BY <1>0, <2>2
      <4>2. QED
        BY <3>1, <4>1 DEF InOrder
    <3>4. QED
      BY <2>1, <3>2, <3>3 DEF InOrder
  <2>4. Earliest <= Earliest'
    <3>1. 1 \in DOMAIN queue
      BY <1>0, <2>2
    <3>2. CASE queue' = <<>>
      BY <1>0, <2>1, <3>1, <3>2 DEF Earliest, InOrder
    <3>3. CASE queue' # <<>>
      <4>1. 1 \in DOMAIN queue' /\ 2 \in DOMAIN queue /\ queue'[1] = queue[2]
        <5>1. queue' \in Seq(0 .. MaxTime) /\ Len(queue') = Len(queue) - 1
          BY <1>0, <2>1
        <5>2. Len(queue') # 0
          BY <3>3, <5>1, EmptySeq
        <5>3. QED
          BY <1>0, <2>2, <5>1, <5>2
      <4>2. queue[1] <= queue[2]
        BY <3>1, <4>1 DEF InOrder
      <4>3. QED
        BY <2>1, <3>3, <4>1, <4>2 DEF Earliest
    <3>4. QED
      BY <3>2, <3>3
  <2>5. QED
    BY <1>0, <2>1, <2>3, <2>4
<1>3. CASE Crash
  <2>1. queue' = <<>> /\ UNCHANGED <<lastAt, now>>
    BY <1>3 DEF Crash
  <2>2. Earliest' = lastAt /\ Earliest <= lastAt
    BY <2>1, EarliestFacts DEF Earliest
  <2>3. QED
    BY <1>0, <2>1, <2>2 DEF InOrder
<1>4. CASE UNCHANGED <<queue, lastAt>> /\ now' \in {now, now + 1}
  <2>1. Earliest' = Earliest /\ Earliest \in Nat /\ now <= now'
    BY <1>0, <1>4, EarliestFacts DEF Earliest
  <2>2. InOrder'
    BY <1>0, <1>4, <2>1 DEF InOrder
  <2>3. QED
    BY <2>1, <2>2
<1>5. UsageEvent \/ Charge \/ Crash \/ (UNCHANGED <<queue, lastAt>> /\ now' \in {now, now + 1})
  <2>1. ASSUME NEW k \in Slots, Throws(k) \/ Pauses(k) \/ Opens(k) \/ Writes(k) \/ Renames(k)
        PROVE  UNCHANGED <<queue, lastAt, now>>
    BY <2>1 DEF Throws, Pauses, Opens, Writes, Renames, events, clock
  <2>2. ASSUME NEW k \in Calls,
               \/ ShowStored(k) \/ ResetStored(k) \/ OverrideStored(k) \/ Recovered(k)
               \/ OverrideResumed(k) \/ Recover(k) \/ Boot(k)
        PROVE  UNCHANGED <<queue, lastAt, now>>
    BY <2>2 DEF ShowStored, ResetStored, OverrideStored, Recovered, OverrideResumed, Recover, Boot, events, clock
  <2>3. ASSUME NEW k \in Calls,
               Show(k) \/ Override(k) \/ Reset(k, "reset") \/ Reset(k, "resetOverride")
        PROVE  UNCHANGED <<queue, lastAt, now>>
    BY <2>3 DEF Show, Override, Reset, events, clock
  <2>4. ChargeRecorded \/ ChildExits \/ Start \/ Stop \/ ResumeFires => UNCHANGED <<queue, lastAt, now>>
    BY DEF ChargeRecorded, ChildExits, Start, Stop, ResumeFires, events, clock
  <2>5. Tick => UNCHANGED <<queue, lastAt>> /\ now' = now + 1
    BY DEF Tick, events
  <2>6. CASE UNCHANGED vars
    BY <2>6 DEF vars, events, clock
  <2>7. QED
    BY <2>1, <2>2, <2>3, <2>4, <2>5, <2>6, StepIsOne
<1>6. QED
  BY <1>1, <1>2, <1>3, <1>4, <1>5

\* Books that were rolled to t, with nothing spent.
RollsTo(b, c, t) ==
    /\ c.day = DayOf(t) /\ c.spentDay = IF b.day = DayOf(t) THEN b.spentDay ELSE 0
    /\ c.week = WeekOf(t) /\ c.spentWeek = IF b.week = WeekOf(t) THEN b.spentWeek ELSE 0

\* Books of the time t, that have what was spent in its windows and the overrides.
Succeeds(b, c, t) ==
    /\ c.day = DayOf(t) /\ c.week = WeekOf(t)
    /\ b.day = DayOf(t) => b.spentDay <= c.spentDay /\ c.capDay = b.capDay
    /\ b.week = WeekOf(t) => b.spentWeek <= c.spentWeek /\ c.capWeek = b.capWeek

LEMMA RolledRolls ==
    ASSUME NEW b, Dated(b), NEW t, NEW c, c = Rolled(b, t)
    PROVE  RollsTo(b, c, t) /\ Succeeds(b, c, t)
<1>1. /\ c.day = DayOf(t) /\ c.week = WeekOf(t)
      /\ c.spentDay = IF b.day = DayOf(t) THEN b.spentDay ELSE 0
      /\ c.spentWeek = IF b.week = WeekOf(t) THEN b.spentWeek ELSE 0
      /\ c.capDay = IF b.day = DayOf(t) THEN b.capDay ELSE Unset
      /\ c.capWeek = IF b.week = WeekOf(t) THEN b.capWeek ELSE Unset
  BY DEF Rolled
<1>2. b.spentDay \in Nat /\ b.spentWeek \in Nat
  BY DEF Dated
<1>3. QED
  BY <1>1, <1>2 DEF RollsTo, Succeeds

LEMMA ChargedSucceeds ==
    ASSUME NEW n \in Nat, NEW b, Sound(b, n), NEW t \in Nat, NEW c, c = Charged(Rolled(b, t))
    PROVE  Succeeds(b, c, t) /\ Dated(c)
<1>1. PICK r : r = Rolled(b, t)
  OBVIOUS
<1>2. Sound(r, n) /\ r.day = DayOf(t) /\ r.week = WeekOf(t) /\ r \in Ledger
  BY <1>1, RolledSound DEF Sound
<1>3. RollsTo(b, r, t) /\ Succeeds(b, r, t)
  BY <1>1, SoundIsDated, RolledRolls
<1>4. r.day # None /\ r.week # None
  BY <1>2, DayFacts, WeekFacts
<1>5. PICK d \in Nat, w \in Nat : d = r.spentDay + 1 /\ w = r.spentWeek + 1
  BY <1>2 DEF Ledger
<1>6. c = [r EXCEPT !.spentDay = d, !.spentWeek = w]
  BY <1>1, <1>5 DEF Charged
<1>7. /\ c.day = r.day /\ c.week = r.week /\ c.spentDay = d /\ c.spentWeek = w
      /\ c.capDay = r.capDay /\ c.capWeek = r.capWeek
  BY <1>2, <1>6 DEF Ledger
<1>8. r.spentDay \in Nat /\ r.spentWeek \in Nat /\ b.spentDay \in Nat /\ b.spentWeek \in Nat
  BY <1>2 DEF Ledger, Sound
<1>9. Succeeds(b, c, t)
  BY <1>3, <1>5, <1>7, <1>8 DEF Succeeds
<1>10. Sound(c, n + 1)
  BY <1>1, <1>2, <1>4, ChargedSound
<1>11. QED
  BY <1>9, <1>10, SoundIsDated

LEMMA ReachedMore ==
    ASSUME NEW cap \in Caps, NEW s \in Nat, NEW m \in Nat, s <= m, Reached(s, cap)
    PROVE  Reached(m, cap)
BY DEF Reached, Caps

\* The store goes on to a time t: what waited for a window that is over by then is due; what waits
\* for the window of t waits still.
LEMMA Onward ==
    ASSUME NEW b, Dated(b), NEW c, Dated(c), NEW t \in Nat, NEW n \in Nat, NEW e \in Nat,
           e <= t, t <= n, Begun(b, e), Succeeds(b, c, t)
    PROVE  /\ \A u \in Nat : Awaited(u, b, n) => Awaited(u, c, n)
           /\ \A v \in DayView : SeenDay(v, b, n) => SeenDay(v, c, n)
           /\ \A v \in WeekView : SeenWeek(v, b, n) => SeenWeek(v, c, n)
<1>0. /\ b.spentDay \in Nat /\ c.spentDay \in Nat /\ b.spentWeek \in Nat /\ c.spentWeek \in Nat
      /\ b.capDay \in Ceilings \cup {Unset} /\ b.capWeek \in Ceilings \cup {Unset}
  BY DEF Dated
<1>1. b.spentDay > 0 => b.day \in Nat /\ (b.day # DayOf(t) => (b.day + 1) * DayLength <= n)
  <2> SUFFICES ASSUME b.spentDay > 0
               PROVE  b.day \in Nat /\ (b.day # DayOf(t) => (b.day + 1) * DayLength <= n)
    OBVIOUS
  <2>1. PICK d \in Nat : d = b.day
    BY <1>0 DEF Dated
  <2>2. d * DayLength \in Nat /\ (d + 1) * DayLength \in Nat
    OBVIOUS
  <2>3. d * DayLength <= t
    BY <2>1, <2>2 DEF Begun
  <2>4. d # DayOf(t) => (d + 1) * DayLength <= t
    BY <2>3, DayPassed
  <2>5. QED
    BY <2>1, <2>2, <2>4
<1>2. b.spentWeek > 0 => b.week \in Nat /\ (b.week # WeekOf(t) => (b.week + 1) * WeekLength <= n)
  <2> SUFFICES ASSUME b.spentWeek > 0
               PROVE  b.week \in Nat /\ (b.week # WeekOf(t) => (b.week + 1) * WeekLength <= n)
    OBVIOUS
  <2>1. PICK d \in Nat : d = b.week
    BY <1>0 DEF Dated
  <2>2. d * WeekLength \in Nat /\ (d + 1) * WeekLength \in Nat
    OBVIOUS
  <2>3. d * WeekLength <= t
    BY <2>1, <2>2 DEF Begun
  <2>4. d # WeekOf(t) => (d + 1) * WeekLength <= t
    BY <2>3, WeekPassed
  <2>5. QED
    BY <2>1, <2>2, <2>4
<1>3. DayReached(b) => b.spentDay > 0 /\ (b.day = DayOf(t) => DayReached(c) /\ c.day = b.day)
  <2> SUFFICES ASSUME DayReached(b)
               PROVE  b.spentDay > 0 /\ (b.day = DayOf(t) => DayReached(c) /\ c.day = b.day)
    OBVIOUS
  <2>1. b.spentDay > 0
    BY DatedEnds
  <2>2. Effective(CapDay, b.capDay) \in Caps
    BY <1>0, EffectiveCap
  <2>3. QED
    BY <1>0, <2>1, <2>2, ReachedMore DEF DayReached, Succeeds
<1>4. WeekReached(b) => b.spentWeek > 0 /\ (b.week = WeekOf(t) => WeekReached(c) /\ c.week = b.week)
  <2> SUFFICES ASSUME WeekReached(b)
               PROVE  b.spentWeek > 0 /\ (b.week = WeekOf(t) => WeekReached(c) /\ c.week = b.week)
    OBVIOUS
  <2>1. b.spentWeek > 0
    BY DatedEnds
  <2>2. Effective(CapWeek, b.capWeek) \in Caps
    BY <1>0, EffectiveCap
  <2>3. QED
    BY <1>0, <2>1, <2>2, ReachedMore DEF WeekReached, Succeeds
<1>5. ASSUME NEW u \in Nat, Awaited(u, b, n) PROVE Awaited(u, c, n)
  <2>1. CASE DayReached(b) /\ u = DayEnd(b)
    BY <1>1, <1>3, <2>1 DEF Awaited, DayEnd
  <2>2. CASE WeekReached(b) /\ u = WeekEnd(b)
    BY <1>2, <1>4, <2>2 DEF Awaited, WeekEnd
  <2>3. QED
    BY <1>5, <2>1, <2>2 DEF Awaited
<1>6. ASSUME NEW v \in DayView, SeenDay(v, b, n) PROVE SeenDay(v, c, n)
  <2>1. v.spentDay \in Nat
    BY DEF DayView
  <2>2. CASE v.spentDay # 0 /\ v.day = b.day /\ v.spentDay <= b.spentDay
    <3>1. b.spentDay > 0
      BY <1>0, <2>1, <2>2
    <3>2. QED
      BY <1>0, <1>1, <2>1, <2>2, <3>1 DEF SeenDay, Succeeds
  <2>3. QED
    BY <1>6, <2>2 DEF SeenDay
<1>7. ASSUME NEW v \in WeekView, SeenWeek(v, b, n) PROVE SeenWeek(v, c, n)
  <2>1. v.spentWeek \in Nat
    BY DEF WeekView
  <2>2. CASE v.spentWeek # 0 /\ v.week = b.week /\ v.spentWeek <= b.spentWeek
    <3>1. b.spentWeek > 0
      BY <1>0, <2>1, <2>2
    <3>2. QED
      BY <1>0, <1>2, <2>1, <2>2, <3>1 DEF SeenWeek, Succeeds
  <2>3. QED
    BY <1>7, <2>2 DEF SeenWeek
<1>8. QED
  BY <1>5, <1>6, <1>7

\* Time goes by.
LEMMA InTime ==
    ASSUME NEW b, NEW n \in Nat, NEW m \in Nat, n <= m
    PROVE  /\ \A u \in Nat : Awaited(u, b, n) => Awaited(u, b, m)
           /\ \A v \in DayView : SeenDay(v, b, n) => SeenDay(v, b, m)
           /\ \A v \in WeekView : SeenWeek(v, b, n) => SeenWeek(v, b, m)
<1>1. \A v \in DayView : v.spentDay = 0 \/ v.day \in Nat
  BY DEF DayView
<1>2. \A v \in WeekView : v.spentWeek = 0 \/ v.week \in Nat
  BY DEF WeekView
<1>3. QED
  BY <1>1, <1>2 DEF Awaited, SeenDay, SeenWeek

LEMMA BegunFacts ==
    ASSUME NEW b, Dated(b), NEW c, Dated(c), NEW t \in Nat, NEW e \in Nat, NEW f \in Nat, e <= f, Begun(b, e)
    PROVE  /\ Begun(b, f)
           /\ RollsTo(b, c, t) => Begun(c, f)
           /\ Succeeds(b, c, t) /\ t <= f => Begun(c, f)
<1>1. b.spentDay \in Nat /\ (b.spentDay > 0 => b.day \in Nat /\ b.day * DayLength \in Nat)
  BY DEF Dated
<1>2. b.spentWeek \in Nat /\ (b.spentWeek > 0 => b.week \in Nat /\ b.week * WeekLength \in Nat)
  BY DEF Dated
<1>3. Begun(b, f)
  BY <1>1, <1>2 DEF Begun
<1>4. RollsTo(b, c, t) => Begun(c, f)
  BY <1>1, <1>2, <1>3 DEF Begun, RollsTo
<1>5. Succeeds(b, c, t) /\ t <= f => Begun(c, f)
  <2>1. /\ DayOf(t) \in Nat /\ DayLength * DayOf(t) <= t /\ WeekOf(t) \in Nat /\ WeekLength * WeekOf(t) <= t
    BY DayFacts, WeekFacts
  <2>2. PICK d \in Nat, w \in Nat : d = DayOf(t) /\ w = WeekOf(t)
    BY <2>1
  <2>3. DayLength * d \in Nat /\ WeekLength * w \in Nat /\ DayLength * d = d * DayLength
        /\ WeekLength * w = w * WeekLength
    OBVIOUS
  <2>4. QED
    BY <2>1, <2>2, <2>3 DEF Begun, Succeeds
<1>6. QED
  BY <1>3, <1>4, <1>5

\* What each step does to the store.
LEMMA BooksStep ==
    ASSUME TypeInv, [Next]_vars
    PROVE  \/ books' = books
           \/ \E t \in Nat : RollsTo(books, books', t)
           \/ books'.spentDay = 0 /\ books'.spentWeek = 0
           \/ queue # <<>> /\ Succeeds(books, books', Head(queue))
           \/ disk \notin {None, Empty, Torn} /\ books' = disk
<1>0. now \in Nat /\ Charges \in Nat /\ Sound(books, Charges) /\ Dated(books) /\ Slotted
  BY NowFacts, SoundIsDated DEF TypeInv
<1>1. ASSUME NEW k \in Slots, Throws(k) \/ Pauses(k) \/ Opens(k) \/ Writes(k) \/ Renames(k)
      PROVE  books' = books
  BY <1>1 DEF Throws, Pauses, Opens, Writes, Renames
<1>2. ASSUME NEW k \in Calls, NEW o, NEW t \in Nat, Refresh(k, o, t)
      PROVE  \E u \in Nat : RollsTo(books, books', u)
  <2>1. books' = Rolled(books, t)
    BY <1>2 DEF Refresh, UpdateRolled, Update
  <2>2. RollsTo(books, books', t)
    BY <1>0, <2>1, RolledRolls
  <2>3. QED
    BY <2>2
<1>3. ASSUME NEW k \in Calls,
             \/ ShowStored(k) \/ ResetStored(k) \/ OverrideStored(k) \/ Recovered(k)
             \/ OverrideResumed(k) \/ Recover(k) \/ Show(k)
      PROVE  books' = books \/ \E t \in Nat : RollsTo(books, books', t)
  <2>1. CASE ResetStored(k)
    <3>1. CASE Refresh(k, "show", now)
      BY <1>0, <1>2, <3>1
    <3>2. CASE op[k] = "resetOverride" /\ Refresh(k, "override", instant[k])
      <4>1. instant[k] \in Nat
        BY <1>0, <3>2 DEF Slotted, Slots
      <4>2. QED
        BY <1>2, <3>2, <4>1
    <3>3. QED
      BY <2>1, <3>1, <3>2 DEF ResetStored
  <2>2. CASE Recover(k) \/ Show(k)
    BY <1>0, <1>2, <2>2 DEF Recover, Show
  <2>3. QED
    BY <1>3, <2>1, <2>2 DEF ShowStored, OverrideStored, Recovered, OverrideResumed
<1>4. ASSUME NEW k \in Calls, Boot(k)
      PROVE  \/ books'.spentDay = 0 /\ books'.spentWeek = 0
             \/ disk \notin {None, Empty, Torn} /\ books' = disk
  BY <1>4 DEF Boot, Whole, NoBooks
<1>5. ASSUME NEW k \in Calls, Override(k)
      PROVE  RollsTo(books, books', now)
  <2>1. PICK c \in Ceilings \cup {Unset}, d \in Ceilings \cup {Unset} : UpdateRolled(k, Lifted(c, d), now)
    BY <1>5, OverrideParts
  <2>2. books' = Lifted(c, d)
    BY <2>1 DEF UpdateRolled, Update
  <2>3. PICK r : r = Rolled(books, now)
    OBVIOUS
  <2>4. RollsTo(books, r, now)
    BY <1>0, <2>3, RolledRolls
  <2>5. /\ books'.day = DayOf(now) /\ books'.week = WeekOf(now)
        /\ books'.spentDay = r.spentDay /\ books'.spentWeek = r.spentWeek
    BY <2>2, <2>3, LiftedSound
  <2>6. QED
    BY <2>4, <2>5 DEF RollsTo
<1>6. ASSUME NEW k \in Calls, NEW o, Reset(k, o)
      PROVE  books'.spentDay = 0 /\ books'.spentWeek = 0
  BY <1>6 DEF Reset, Update, Zeroed, Rolled, NoBooks
<1>7. CASE Charge
  <2>1. PICK t : t = Head(queue)
    OBVIOUS
  <2>2. t \in Nat /\ queue # <<>>
    BY <1>7, <2>1 DEF Charge, TypeInv, Queueing
  <2>3. books' = Charged(Rolled(books, t))
    BY <1>7, <2>1 DEF Charge, UpdateRolled, Update
  <2>4. PICK n \in Nat : n = Charges
    BY <1>0
  <2>5. Succeeds(books, books', t)
    BY <1>0, <2>2, <2>3, <2>4, ChargedSucceeds
  <2>6. QED
    BY <2>1, <2>2, <2>5
<1>8. CASE Crash
  BY <1>8 DEF Crash, NoBooks
<1>9. CASE ChargeRecorded \/ UsageEvent \/ ChildExits \/ Start \/ Stop \/ ResumeFires \/ Tick \/ UNCHANGED vars
  BY <1>9 DEF ChargeRecorded, UsageEvent, ChildExits, Start, Stop, ResumeFires, Tick, vars
<1>10. QED
  BY <1>0, <1>1, <1>3, <1>4, <1>5, <1>6, <1>7, <1>8, <1>9, StepIsOne

\* Only what is in memory is renamed into place.
LEMMA DiskStep ==
    ASSUME TypeInv, Ordered, [Next]_vars
    PROVE  disk' = disk \/ (disk' = books /\ books' = books)
<1>1. ASSUME NEW k \in Slots, Throws(k) \/ Pauses(k) \/ Opens(k) \/ Writes(k)
      PROVE  disk' = disk
  <2>1. Writes(k) => fd[k] = "tmp"
    BY DEF Writes, Ordered, StoreInv
  <2>2. QED
    BY <1>1, <2>1 DEF Throws, Pauses, Opens, Writes, files
<1>2. ASSUME NEW k \in Slots, Renames(k)
      PROVE  disk' = disk \/ (disk' = books /\ books' = books)
  BY <1>2 DEF Renames, Ordered, StoreInv
<1>3. ASSUME NEW k \in Calls,
             \/ ShowStored(k) \/ ResetStored(k) \/ OverrideStored(k) \/ Recovered(k)
             \/ OverrideResumed(k) \/ Recover(k) \/ Boot(k)
             \/ Show(k) \/ Override(k) \/ Reset(k, "reset") \/ Reset(k, "resetOverride")
      PROVE  disk' = disk
  BY <1>3 DEF ShowStored, ResetStored, OverrideStored, Recovered, OverrideResumed, Recover, Boot, Show,
     Override, Reset, files
<1>4. CASE Charge \/ ChargeRecorded \/ UsageEvent \/ ChildExits \/ Crash
           \/ Start \/ Stop \/ ResumeFires \/ Tick \/ UNCHANGED vars
  BY <1>4 DEF Charge, ChargeRecorded, UsageEvent, ChildExits, Crash, Start, Stop, ResumeFires, Tick, vars, files
<1>5. QED
  BY <1>1, <1>2, <1>3, <1>4, StepIsOne

LEMMA BegunStep ==
    ASSUME TypeInv, Ordered, InOrder, BegunInv, [Next]_vars
    PROVE  BegunInv'
<1>0. /\ Earliest \in Nat /\ Earliest <= Earliest' /\ TypeInv' /\ InOrder'
      /\ queue # <<>> => Earliest = Head(queue)
  BY EarliestFacts, EarliestGrows, TypeStep
<1>1. Earliest' \in Nat
  BY <1>0 DEF Earliest, TypeInv, Queueing
<1>2. PICK e \in Nat, f \in Nat : e = Earliest /\ f = Earliest' /\ e <= f
  BY <1>0, <1>1
<1>3. Dated(books) /\ books.spentDay \in Nat /\ (disk \in {None, Empty, Torn} \/ Dated(disk))
  BY SoundIsDated DEF TypeInv, Filed, Contents, Dated
<1>4. PICK c : c = books'
  OBVIOUS
<1>5. Dated(c)
  BY <1>0, <1>4, SoundIsDated DEF TypeInv
<1>6. Begun(books, f) /\ (disk \in {None, Empty, Torn} \/ Begun(disk, f))
  <2>1. Begun(books, f)
    BY <1>2, <1>3, BegunFacts DEF BegunInv
  <2>2. CASE disk \notin {None, Empty, Torn}
    BY <1>2, <1>3, <2>2, BegunFacts DEF BegunInv
  <2>3. QED
    BY <2>1, <2>2
<1>7. Begun(c, f)
  <2>1. CASE \E t \in Nat : RollsTo(books, c, t)
    BY <1>2, <1>3, <1>5, <2>1, BegunFacts DEF BegunInv
  <2>2. CASE c.spentDay = 0 /\ c.spentWeek = 0
    BY <2>2 DEF Begun
  <2>3. CASE queue # <<>> /\ Succeeds(books, c, Head(queue))
    BY <1>0, <1>2, <1>3, <1>5, <2>3, BegunFacts DEF BegunInv
  <2>4. QED
    BY <1>4, <1>6, <2>1, <2>2, <2>3, BooksStep
<1>8. disk' \in {None, Empty, Torn} \/ Begun(disk', f)
  BY <1>6, DiskStep
<1>9. QED
  BY <1>2, <1>4, <1>7, <1>8 DEF BegunInv

LEMMA SnapshotParts ==
    ASSUME TypeInv, NEW k \in Slots, view[k].day # None, view[k].week # None
    PROVE  LET s == Snapshot(k)
               v == view[k]
           IN  /\ s.day = v.day.day /\ s.spentDay = v.day.spentDay /\ s.capDay = books.capDay
               /\ s.week = v.week.week /\ s.spentWeek = v.week.spentWeek /\ s.capWeek = books.capWeek
BY DEF TypeInv, Sound, Ledger, Snapshot

\* What `pid resume` finds still breached, when the service is up again, the store has too.
LEMMA SeenEnds ==
    ASSUME TypeInv, SeenInv, NEW k \in Slots, pc[k] = "resumed", Breached(Snapshot(k)) # {}
    PROVE  Awaited(Latest(Breached(Snapshot(k))), books, now)
<1>1. PICK s, v : s = Snapshot(k) /\ v = view[k]
  OBVIOUS
<1>2. /\ s.day = v.day.day /\ s.spentDay = v.day.spentDay /\ s.capDay = books.capDay
      /\ s.week = v.week.week /\ s.spentWeek = v.week.spentWeek /\ s.capWeek = books.capWeek
      /\ SeenDay(v.day, books, now) /\ SeenWeek(v.week, books, now)
  BY <1>1, SnapshotParts DEF SeenInv
<1>3. Dated(s) /\ Dated(books)
  BY <1>1, SnapshotDated, SoundIsDated DEF TypeInv
<1>4. /\ s.spentDay \in Nat /\ books.spentDay \in Nat /\ s.spentWeek \in Nat /\ books.spentWeek \in Nat
      /\ Effective(CapDay, books.capDay) \in Caps /\ Effective(CapWeek, books.capWeek) \in Caps
  BY <1>3, EffectiveCap DEF Dated
<1>5. PICK t : t = Latest(Breached(s))
  OBVIOUS
<1>6. (DayReached(s) /\ t = DayEnd(s)) \/ (WeekReached(s) /\ t = WeekEnd(s))
  BY <1>1, <1>3, <1>5, LatestIs
<1>7. CASE DayReached(s) /\ t = DayEnd(s)
  <2>1. s.spentDay > 0
    BY <1>3, <1>7, DatedEnds
  <2>2. CASE now >= (s.day + 1) * DayLength
    BY <1>1, <1>5, <1>7, <2>2 DEF Awaited, DayEnd
  <2>3. CASE s.day = books.day /\ s.spentDay <= books.spentDay
    <3>1. DayReached(books)
      BY <1>2, <1>4, <1>7, <2>3, ReachedMore DEF DayReached
    <3>2. QED
      BY <1>1, <1>5, <1>7, <2>3, <3>1 DEF Awaited, DayEnd
  <2>4. QED
    BY <1>2, <2>1, <2>2, <2>3 DEF SeenDay
<1>8. CASE WeekReached(s) /\ t = WeekEnd(s)
  <2>1. s.spentWeek > 0
    BY <1>3, <1>8, DatedEnds
  <2>2. CASE now >= (s.week + 1) * WeekLength
    BY <1>1, <1>5, <1>8, <2>2 DEF Awaited, WeekEnd
  <2>3. CASE s.week = books.week /\ s.spentWeek <= books.spentWeek
    <3>1. WeekReached(books)
      BY <1>2, <1>4, <1>8, <2>3, ReachedMore DEF WeekReached
    <3>2. QED
      BY <1>1, <1>5, <1>8, <2>3, <3>1 DEF Awaited, WeekEnd
  <2>4. QED
    BY <1>2, <2>1, <2>2, <2>3 DEF SeenWeek
<1>9. QED
  BY <1>1, <1>5, <1>6, <1>7, <1>8

LEMMA LatestIsAwaited ==
    ASSUME NEW b, Dated(b), Breached(b) # {}, NEW n
    PROVE  Awaited(Latest(Breached(b)), b, n)
BY LatestIs DEF Awaited

Lifting == {"reset", "override", "resetOverride"}

WaitInv == AwaitedInv /\ SeenInv /\ CancelledInv

\* Nothing that waits in b' waits longer than in b.
Onwards(b, n, c, m) ==
    /\ \A u \in Nat : Awaited(u, b, n) => Awaited(u, c, m)
    /\ \A v \in DayView : SeenDay(v, b, n) => SeenDay(v, c, m)
    /\ \A v \in WeekView : SeenWeek(v, b, n) => SeenWeek(v, c, m)

\* A step that pauses nothing, or that has left the store as it is, ...
LEMMA WaitsMove ==
    ASSUME TypeInv, WaitInv, Onwards(books, now, books', now'),
           resumeAt' = resumeAt \/ resumeAt' = None \/ Awaited(resumeAt', books', now'),
           \A k \in Slots : pc'[k] \in {"stopping", "held"} =>
               \/ pc[k] \in {"stopping", "held"} /\ instant'[k] = instant[k]
               \/ instant'[k] \in Nat /\ Awaited(instant'[k], books', now'),
           \A k \in Slots : pc'[k] = "resumed" => pc[k] = "resumed" /\ view'[k] = view[k],
           \A k \in Calls : Storing(k)' /\ op'[k] \in Lifting =>
               resumeAt' = None \/ (resumeAt' = resumeAt /\ Storing(k) /\ op[k] \in Lifting)
    PROVE  WaitInv'
<1>1. resumeAt \in Nat \cup {None}
  BY DEF TypeInv, Scalars
<1>2. AwaitedInv'
  <2>1. resumeAt' # None => Awaited(resumeAt', books', now')
    BY <1>1 DEF WaitInv, AwaitedInv, Onwards
  <2>2. \A k \in Slots : pc'[k] \in {"stopping", "held"} =>
            instant'[k] \in Nat /\ Awaited(instant'[k], books', now')
    BY DEF WaitInv, AwaitedInv, Onwards
  <2>3. QED
    BY <2>1, <2>2 DEF AwaitedInv
<1>3. SeenInv'
  <2>1. ASSUME NEW k \in Slots, pc'[k] = "resumed"
        PROVE  /\ view'[k].day # None /\ view'[k].week # None
               /\ SeenDay(view'[k].day, books', now') /\ SeenWeek(view'[k].week, books', now')
    <3>1. PICK v : v = view[k] /\ v = view'[k]
      BY <2>1
    <3>2. /\ v.day # None /\ v.week # None
          /\ SeenDay(v.day, books, now) /\ SeenWeek(v.week, books, now)
      BY <2>1, <3>1 DEF WaitInv, SeenInv
    <3>3. v.day \in DayView /\ v.week \in WeekView
      <4>1. v \in View
        <5>1. view \in [Slots -> View]
          BY DEF TypeInv, Viewing
        <5>2. QED
          BY <3>1, <5>1
      <4>2. v.day \in DayView \cup {None} /\ v.week \in WeekView \cup {None}
        BY <4>1 DEF View
      <4>3. QED
        BY <3>2, <4>2
    <3>4. QED
      BY <3>1, <3>2, <3>3 DEF Onwards
  <2>2. QED
    BY <2>1 DEF SeenInv
<1>4. CancelledInv'
  BY DEF WaitInv, CancelledInv, Lifting
<1>5. QED
  BY <1>2, <1>3, <1>4 DEF WaitInv

\* ... or one after which nothing waits.
LEMMA NothingWaits ==
    ASSUME resumeAt' = None, \A k \in Slots : pc'[k] \notin {"stopping", "held", "resumed"}
    PROVE  WaitInv'
BY DEF WaitInv, AwaitedInv, SeenInv, CancelledInv

LEMMA StaysOn ==
    ASSUME TypeInv, InOrder, [Next]_vars, books' = books
    PROVE  Onwards(books, now, books', now')
<1>1. now \in Nat /\ now' \in Nat /\ now <= now'
  <2>1. TypeInv' /\ now <= now'
    BY TypeStep, EarliestGrows
  <2>2. now \in Nat /\ now' \in Nat
    BY <2>1 DEF TypeInv, Scalars
  <2>3. QED
    BY <2>1, <2>2
<1>2. PICK b : b = books
  OBVIOUS
<1>3. Onwards(b, now, b, now')
  BY <1>1, InTime DEF Onwards
<1>4. QED
  BY <1>2, <1>3

LEMMA GoesOn ==
    ASSUME TypeInv, TypeInv', InOrder, BegunInv, NEW t \in Nat, Earliest <= t, t <= now, now' = now,
           Succeeds(books, books', t)
    PROVE  Onwards(books, now, books', now')
<1>1. PICK b, c, e, n : b = books /\ c = books' /\ e = Earliest /\ n = now
  OBVIOUS
<1>2. Dated(b) /\ Dated(c) /\ e \in Nat /\ n \in Nat /\ Begun(b, e)
  BY <1>1, SoundIsDated, EarliestFacts DEF TypeInv, BegunInv
<1>3. Onwards(b, n, c, n)
  BY <1>1, <1>2, Onward DEF Onwards
<1>4. QED
  BY <1>1, <1>3

LEMMA CallsWait ==
    ASSUME TypeInv, Ordered, HeldInv, NEW k \in Calls, [Next]_vars,
           \/ ShowStored(k) \/ ResetStored(k) \/ OverrideStored(k) \/ Recovered(k) \/ Recover(k)
    PROVE  WaitInv'
<1>0. /\ k \in Slots /\ Slotted /\ Serial /\ StoreInv /\ InOrder /\ BegunInv /\ WaitInv /\ TypeInv'
      /\ now \in Nat /\ Sound(books, Charges) /\ Dated(books)
  BY NowFacts, TypeStep, SoundIsDated DEF TypeInv, Ordered, Slots, HeldInv, WaitInv
<1>1. pc[k] \in {"stored", "booting"} /\ now' = now
  BY DEF ShowStored, ResetStored, OverrideStored, Recover, Recovered, clock
<1>2. Busy(k) /\ \A j \in Slots \ {k} : pc[j] = "idle"
  BY <1>0, <1>1 DEF Busy, Storing, Serial, OwnTurn, Alone
<1>3. CASE ShowStored(k)
  <2>1. Moves(k, "none", "idle") /\ UNCHANGED <<books, resumeAt>>
    BY <1>0, <1>3, ReturnMoves DEF ShowStored, governor
  <2>2. \A j \in Slots : pc'[j] = "idle"
    BY <1>2, <2>1 DEF Moves
  <2>3. Onwards(books, now, books', now')
    BY <1>0, <2>1, StaysOn
  <2>4. QED
    BY <1>0, <2>1, <2>2, <2>3, WaitsMove DEF Storing, Slots
<1>4. CASE ResetStored(k)
  <2>1. resumeAt = None /\ resumeAt' = resumeAt
    BY <1>0, <1>4 DEF ResetStored, WaitInv, CancelledInv, Storing
  <2>2. PICK o \in {"show", "override"}, p \in {"mkdir", "stored"} : Moves(k, o, p)
    BY <1>0, <1>4, SuspendMoves DEF ResetStored, Refresh
  <2>3. \A j \in Slots : pc'[j] \in {"idle", "mkdir", "stored"}
    BY <1>2, <2>2 DEF Moves
  <2>4. QED
    BY <2>1, <2>3, NothingWaits
<1>5. CASE OverrideStored(k)
  <2>1. resumeAt = None /\ resumeAt' = resumeAt /\ books' = books /\ Moves(k, op[k], "resumed")
    BY <1>0, <1>5, ReachMoves DEF OverrideStored, WaitInv, CancelledInv, Storing
  <2>2. \A j \in Slots : pc'[j] = IF j = k THEN "resumed" ELSE "idle"
    BY <1>2, <2>1 DEF Moves
  <2>3. view'[k] = Kept(Current, TRUE, TRUE)
    BY <1>0, <1>5 DEF OverrideStored, StoreInv, Storing, TypeInv, Viewing
  <2>4. view'[k] = [day |-> [day |-> books.day, spentDay |-> books.spentDay],
                    week |-> [week |-> books.week, spentWeek |-> books.spentWeek]]
    BY <2>3 DEF Kept, Current
  <2>5. view'[k].day # None /\ view'[k].week # None
    BY <1>0, <2>4, FileAssumption DEF Kepts, Sound, Ledger
  <2>6. SeenDay(view'[k].day, books', now') /\ SeenWeek(view'[k].week, books', now')
    <3>1. PICK d, w : d = view'[k].day /\ w = view'[k].week
      OBVIOUS
    <3>2. d.day = books.day /\ d.spentDay = books.spentDay /\ w.week = books.week /\ w.spentWeek = books.spentWeek
      BY <2>4, <3>1
    <3>3. books.spentDay \in Nat /\ books.spentWeek \in Nat
      BY <1>0 DEF Dated
    <3>4. QED
      BY <2>1, <3>1, <3>2, <3>3 DEF SeenDay, SeenWeek
  <2>7. QED
    BY <2>1, <2>2, <2>5, <2>6 DEF WaitInv, AwaitedInv, SeenInv, CancelledInv
<1>6. CASE Recovered(k)
  <2>1. Moves(k, "none", "idle") /\ books' = books /\ pc[k] = "stored"
    BY <1>0, <1>6, ReturnMoves DEF Recovered
  <2>2. \A j \in Slots : pc'[j] = "idle"
    BY <1>2, <2>1 DEF Moves
  <2>3. Onwards(books, now, books', now')
    BY <1>0, <2>1, StaysOn
  <2>4. Snapshot(k) = books
    BY <1>0, <2>1, SnapshotIsBooks DEF Storing
  <2>5. resumeAt' = resumeAt \/ Awaited(resumeAt', books', now')
    BY <1>0, <1>1, <1>6, <2>1, <2>4, LatestIsAwaited DEF Recovered, governor
  <2>6. QED
    BY <1>0, <2>2, <2>3, <2>5, WaitsMove DEF Storing, Slots
<1>7. CASE Recover(k)
  <2>1. Refresh(k, "recover", now) /\ resumeAt' = resumeAt
    BY <1>7 DEF Recover, governor
  <2>2. PICK p \in {"mkdir", "stored"} : Moves(k, "recover", p)
    BY <1>0, <2>1, SuspendMoves DEF Refresh
  <2>3. books' = Rolled(books, now)
    BY <2>1 DEF Refresh, UpdateRolled, Update
  <2>4. Onwards(books, now, books', now')
    BY <1>0, <1>1, <2>3, RolledRolls, EarliestFacts, GoesOn
  <2>5. \A j \in Slots : pc'[j] \in {"idle", "mkdir", "stored"}
    BY <1>2, <2>2 DEF Moves
  <2>6. \A j \in Calls : Storing(j)' => op'[j] = "recover"
    BY <1>2, <2>2 DEF Storing, Moves, Slots
  <2>7. QED
    BY <1>0, <2>1, <2>4, <2>5, <2>6, WaitsMove DEF Lifting
<1>8. QED
  BY <1>3, <1>4, <1>5, <1>6, <1>7

LEMMA BeginsWait ==
    ASSUME Overlap \subseteq {"stop"}, TypeInv, Ordered, HeldInv, NEW k \in Calls, [Next]_vars,
           Boot(k) \/ Show(k) \/ Override(k) \/ Reset(k, "reset") \/ Reset(k, "resetOverride")
    PROVE  WaitInv'
<1>0. /\ k \in Slots /\ Slotted /\ Serial /\ InOrder /\ BegunInv /\ WaitInv /\ TypeInv'
      /\ now \in Nat /\ Dated(books)
  BY NowFacts, TypeStep, SoundIsDated DEF TypeInv, Ordered, Slots, HeldInv, WaitInv
<1>1. \A j \in Slots : pc[j] = "idle"
  <2>1. CASE Boot(k)
    BY <1>0, <2>1 DEF Boot, Live, Serial, BootIsFirst
  <2>2. CASE Show(k) \/ Override(k) \/ Reset(k, "reset") \/ Reset(k, "resetOverride")
    BY <2>2, BeginsAlone DEF Show, Override, Reset
  <2>3. QED
    BY <2>1, <2>2
<1>2. PICK o \in Ops, p \in {"booting", "mkdir", "stored"} : Moves(k, o, p) /\ (Show(k) => o = "show")
  <2>1. CASE Boot(k) /\ ~Show(k)
    BY <1>0, <2>1, SuspendMoves DEF Boot, Ops
  <2>2. CASE Show(k)
    BY <1>0, <2>2, SuspendMoves DEF Show, Refresh, Ops
  <2>3. CASE (Override(k) \/ Reset(k, "reset") \/ Reset(k, "resetOverride")) /\ ~Show(k)
    <3>1. PICK o \in Ops : Suspend(k, o, "mkdir", now)
      BY <2>3 DEF Override, Reset, Ops
    <3>2. Moves(k, o, "mkdir")
      BY <1>0, <3>1, SuspendMoves
    <3>3. QED
      BY <2>3, <3>2
  <2>4. QED
    BY <2>1, <2>2, <2>3
<1>3. \A j \in Slots : pc'[j] \in {"idle", "booting", "mkdir", "stored"}
  BY <1>1, <1>2 DEF Moves
<1>4. CASE Boot(k) \/ Override(k) \/ Reset(k, "reset") \/ Reset(k, "resetOverride")
  <2>1. resumeAt' = None
    BY <1>0, <1>4 DEF Boot, Override, Reset, governor, Live, Serial, BootIsFirst, Stopped
  <2>2. QED
    BY <1>3, <2>1, NothingWaits
<1>5. CASE Show(k)
  <2>1. books' = Rolled(books, now) /\ resumeAt' = resumeAt /\ now' = now
    BY <1>5 DEF Show, Refresh, UpdateRolled, Update, governor, clock
  <2>2. Onwards(books, now, books', now')
    BY <1>0, <2>1, RolledRolls, EarliestFacts, GoesOn
  <2>3. \A j \in Calls : Storing(j)' => op'[j] = "show"
    BY <1>1, <1>2, <1>5 DEF Storing, Moves, Slots
  <2>4. QED
    BY <1>0, <1>3, <2>1, <2>2, <2>3, WaitsMove DEF Lifting
<1>6. QED
  BY <1>4, <1>5

\* A call that may pause the service, at what the store says.
LEMMA JudgesWait ==
    ASSUME TypeInv, Ordered, HeldInv, [Next]_vars, NEW k \in Slots, pc[k] \in {"stored", "resumed"},
           \/ Return(k) /\ UNCHANGED <<service, governor>>
           \/ \E t \in Nat : BeginPause(k, t) /\ Awaited(t, books, now),
           UNCHANGED <<books, now>>, \A j \in Slots \ {k} : view'[j] = view[j]
    PROVE  WaitInv'
<1>0. Slotted /\ InOrder /\ WaitInv /\ resumeAt' = resumeAt
  BY DEF TypeInv, HeldInv, WaitInv, governor, BeginPause
<1>1. Onwards(books, now, books', now')
  BY <1>0, StaysOn
<1>2. \A j \in Slots \ {k} : pc'[j] = pc[j] /\ op'[j] = op[j] /\ instant'[j] = instant[j]
  BY <1>0 DEF Slotted, BeginPause, Return, Suspend
<1>3. pc'[k] = "idle" \/ (pc'[k] \in {"stopping", "held"} /\ instant'[k] \in Nat /\ Awaited(instant'[k], books, now))
  BY <1>0 DEF Slotted, BeginPause, Return, Suspend
<1>4. \A j \in Slots : pc'[j] \in {"stopping", "held"} =>
          \/ pc[j] \in {"stopping", "held"} /\ instant'[j] = instant[j]
          \/ instant'[j] \in Nat /\ Awaited(instant'[j], books', now')
  BY <1>2, <1>3
<1>5. \A j \in Slots : pc'[j] = "resumed" => pc[j] = "resumed" /\ view'[j] = view[j]
  BY <1>2, <1>3
<1>6. \A j \in Calls : Storing(j)' /\ op'[j] \in Lifting => Storing(j) /\ op[j] \in Lifting
  BY <1>2, <1>3 DEF Storing, Slots
<1>7. QED
  BY <1>0, <1>1, <1>4, <1>5, <1>6, WaitsMove

LEMMA ChargeRecordedWaits ==
    ASSUME TypeInv, Ordered, HeldInv, ChargeRecorded
    PROVE  WaitInv'
<1>0. Charger \in Slots /\ Dated(books) /\ pc[Charger] = "stored"
  BY SoundIsDated DEF TypeInv, Slots, ChargeRecorded
<1>1. Snapshot(Charger) = books
  BY <1>0, SnapshotIsBooks DEF Storing
<1>2. \/ Return(Charger) /\ UNCHANGED <<service, governor>>
      \/ \E t \in Nat : BeginPause(Charger, t) /\ Awaited(t, books, now)
  BY <1>0, <1>1, LatestIs, LatestIsAwaited DEF ChargeRecorded
<1>3. UNCHANGED <<books, now, view>> /\ [Next]_vars
  BY DEF ChargeRecorded, clock, Next, Continues
<1>4. QED
  BY <1>0, <1>2, <1>3, JudgesWait

LEMMA OverrideResumedWaits ==
    ASSUME TypeInv, Ordered, HeldInv, NEW k \in Calls, OverrideResumed(k)
    PROVE  WaitInv'
<1>0. k \in Slots /\ pc[k] = "resumed" /\ SeenInv
  BY DEF OverrideResumed, Slots, HeldInv
<1>1. \/ Return(k) /\ UNCHANGED <<service, governor>>
      \/ \E t \in Nat : BeginPause(k, t) /\ Awaited(t, books, now)
  BY <1>0, SnapshotDated, LatestIs, SeenEnds DEF TypeInv, OverrideResumed
<1>2. UNCHANGED <<books, now>> /\ [Next]_vars
  BY DEF OverrideResumed, clock, Next, Completes
<1>3. \A j \in Slots \ {k} : view'[j] = view[j]
  BY <1>0 DEF OverrideResumed, TypeInv, Viewing
<1>4. QED
  BY <1>0, <1>1, <1>2, <1>3, JudgesWait

LEMMA ChargeWaits ==
    ASSUME TypeInv, Ordered, HeldInv, Charge
    PROVE  WaitInv'
<1>0. /\ Charger \in Slots /\ Charger \notin Calls /\ Slotted /\ InOrder /\ BegunInv /\ WaitInv
      /\ Sound(books, Charges) /\ Charges \in Nat
  BY NowFacts DEF TypeInv, HeldInv, WaitInv, Slots
<1>1. [Next]_vars
  BY DEF Next, Continues
<1>2. PICK t : t = Head(queue)
  OBVIOUS
<1>3. /\ t \in Nat /\ t = Earliest /\ t <= now /\ Earliest <= t
      /\ pc[Charger] = "idle" /\ UNCHANGED <<resumeAt, now>>
      /\ Suspend(Charger, "charge", "mkdir", t)
  BY <1>0, <1>2, EarliestFacts DEF Charge, TypeInv, Queueing, governor, clock
<1>3a. Moves(Charger, "charge", "mkdir") /\ instant' = [instant EXCEPT ![Charger] = t]
  BY <1>0, <1>3, SuspendMoves DEF Suspend
<1>4. books' = Charged(Rolled(books, t))
  BY <1>2 DEF Charge, UpdateRolled, Update
<1>5. Onwards(books, now, books', now')
  <2>1. TypeInv'
    BY <1>1, TypeStep
  <2>2. PICK n \in Nat : n = Charges
    BY <1>0
  <2>3. Succeeds(books, books', t)
    BY <1>0, <1>3, <1>4, <2>2, ChargedSucceeds
  <2>4. QED
    BY <1>0, <1>3, <2>1, <2>3, GoesOn
<1>6. \A j \in Slots \ {Charger} : pc'[j] = pc[j] /\ op'[j] = op[j] /\ instant'[j] = instant[j]
  BY <1>0, <1>3a DEF Moves, Slotted
<1>7. pc'[Charger] = "mkdir" /\ op'[Charger] = "charge"
  BY <1>0, <1>3a DEF Moves
<1>8. ASSUME NEW j \in Slots, pc'[j] = "resumed" PROVE pc[j] = "resumed" /\ view'[j] = view[j]
  <2>1. j # Charger /\ pc[j] = "resumed"
    BY <1>6, <1>7, <1>8
  <2>2. PICK v : v = view[j]
    OBVIOUS
  <2>3. v \in View /\ v.day # None /\ v.week # None
    BY <1>0, <2>1, <2>2 DEF TypeInv, Viewing, WaitInv, SeenInv
  <2>4. \E day, week : view'[j] = Kept(v, day, week)
    BY <2>1, <2>2 DEF Charge, UpdateRolled, Update
  <2>5. view'[j] = [day |-> v.day, week |-> v.week]
    BY <2>3, <2>4 DEF Kept
  <2>6. QED
    BY <2>1, <2>2, <2>3, <2>5 DEF View
<1>9. \A j \in Calls : Storing(j)' => Storing(j) /\ op'[j] = op[j]
  BY <1>0, <1>6 DEF Storing, Slots
<1>10. QED
  BY <1>0, <1>3, <1>5, <1>6, <1>7, <1>8, <1>9, WaitsMove

LEMMA WaitStep ==
    ASSUME Overlap \subseteq {"stop"}, TypeInv, Ordered, HeldInv, [Next]_vars
    PROVE  WaitInv'
<1>0. Slotted /\ Serial /\ InOrder /\ WaitInv
  BY DEF TypeInv, Ordered, HeldInv, WaitInv
<1>1. ASSUME NEW k \in Slots, Opens(k) \/ Writes(k) \/ Renames(k)
      PROVE  WaitInv'
  <2>1. /\ Storing(k) /\ UNCHANGED <<books, resumeAt, view>>
        /\ \E p \in {"writing", "renaming", "stored", "failed"} : Reach(k, p)
    BY <1>1 DEF Opens, Writes, Renames, governor, Storing
  <2>2. PICK p \in {"writing", "renaming", "stored", "failed"} : Moves(k, op[k], p) /\ instant' = instant
    BY <1>0, <2>1, ReachMoves DEF Reach
  <2>3. Onwards(books, now, books', now')
    BY <1>0, <2>1, StaysOn
  <2>4. \A j \in Calls : Storing(j)' => Storing(j) /\ op'[j] = op[j]
    BY <2>1, <2>2 DEF Storing, Moves, Slots
  <2>5. QED
    BY <1>0, <2>1, <2>2, <2>3, <2>4, WaitsMove DEF Moves
<1>2. ASSUME NEW k \in Slots, Throws(k) \/ Pauses(k)
      PROVE  WaitInv'
  <2>1. ~Throws(k)
    BY <1>0 DEF Throws, Serial, OneCallAtATime
  <2>2. Pauses(k) /\ pc[k] = "held" /\ resumeAt' = instant[k] /\ UNCHANGED <<books, view, now>> /\ Return(k)
    BY <1>2, <2>1 DEF Pauses, clock
  <2>3. \A j \in Slots \ {k} : pc'[j] = pc[j] /\ op'[j] = op[j] /\ instant'[j] = instant[j]
    BY <1>0, <2>2 DEF Slotted, Return, Suspend
  <2>4. pc'[k] = "idle"
    BY <1>0, <2>2 DEF Slotted, Return, Suspend
  <2>5. Onwards(books, now, books', now')
    BY <1>0, <2>2, StaysOn
  <2>6. Awaited(resumeAt', books', now')
    BY <1>0, <2>2 DEF WaitInv, AwaitedInv
  <2>7. \A j \in Calls : ~Storing(j)'
    <3>1. \A j \in Calls : Storing(j) => Alone(j) /\ j # k
      BY <1>0, <2>2 DEF Serial, OwnTurn, Busy, Storing
    <3>2. \A j \in Calls : ~Storing(j)
      BY <2>2, <3>1 DEF Alone
    <3>3. QED
      BY <2>3, <2>4, <3>2 DEF Storing, Slots
  <2>8. QED
    BY <1>0, <2>2, <2>3, <2>4, <2>5, <2>6, <2>7, WaitsMove
<1>3. ASSUME NEW k \in Calls,
             \/ ShowStored(k) \/ ResetStored(k) \/ OverrideStored(k) \/ Recovered(k)
             \/ OverrideResumed(k) \/ Recover(k) \/ Boot(k)
             \/ Show(k) \/ Override(k) \/ Reset(k, "reset") \/ Reset(k, "resetOverride")
      PROVE  WaitInv'
  BY <1>3, CallsWait, BeginsWait, OverrideResumedWaits
<1>4. CASE Start \/ Stop \/ ResumeFires \/ Tick \/ UsageEvent \/ ChildExits \/ UNCHANGED vars
  <2>1. /\ UNCHANGED <<books, view, op, instant>> /\ resumeAt' \in {resumeAt, None}
        /\ \A k \in Slots : pc'[k] = pc[k] \/ (pc[k] = "stopping" /\ pc'[k] = "held")
    BY <1>4 DEF Start, Stop, ResumeFires, Tick, UsageEvent, ChildExits, vars, governor, calls
  <2>2. Onwards(books, now, books', now')
    BY <1>0, <2>1, StaysOn
  <2>3. \A k \in Calls : Storing(k)' => Storing(k) /\ op'[k] = op[k]
    BY <2>1 DEF Storing, Slots
  <2>4. QED
    BY <1>0, <2>1, <2>2, <2>3, WaitsMove
<1>5. CASE Crash
  <2>1. resumeAt' = None /\ \A k \in Slots : pc'[k] = "idle"
    BY <1>5 DEF Crash
  <2>2. QED
    BY <2>1, NothingWaits
<1>6. QED
  BY <1>1, <1>2, <1>3, <1>4, <1>5, ChargeWaits, ChargeRecordedWaits, StepIsOne

LEMMA InitHeld == Init => HeldInv
<1> SUFFICES ASSUME Init PROVE HeldInv
  OBVIOUS
<1>1. queue = <<>> /\ lastAt = 0 /\ now = 0 /\ resumeAt = None /\ disk = None /\ \A k \in Slots : pc[k] = "idle"
  BY DEF Init
<1>2. books.spentDay = 0 /\ books.spentWeek = 0
  BY DEF Init, NoBooks
<1>3. QED
  BY <1>1, <1>2 DEF HeldInv, InOrder, BegunInv, Begun, AwaitedInv, SeenInv, CancelledInv, Storing, Slots

\* Messages are charged in order; the windows in which something was spent have begun; and what a pause
\* waits for, set or about to be, is the end of a window that is over its cap, or has come.
THEOREM HeldInvariant == ASSUME Overlap \subseteq {"stop"} PROVE Spec => []HeldInv
<1>1. Init => HeldInv
  BY InitHeld
<1>2. TypeInv /\ Ordered /\ HeldInv /\ [Next]_vars => HeldInv'
  <2> SUFFICES ASSUME TypeInv, Ordered, HeldInv, [Next]_vars PROVE HeldInv'
    OBVIOUS
  <2>1. InOrder' /\ BegunInv'
    BY EarliestGrows, BegunStep DEF HeldInv
  <2>2. WaitInv'
    BY WaitStep
  <2>3. QED
    BY <2>1, <2>2 DEF HeldInv, WaitInv
<1>3. Spec => []TypeInv
  BY TypeCorrect
<1>4. QED
  BY <1>1, <1>2, <1>3, OrderedInvariant, PTL DEF Spec

\* A window that is over its cap and not over is still that of the clock.
LEMMA StillBreached ==
    ASSUME NEW b, Dated(b), NEW e \in Nat, NEW n \in Nat, e <= n, Begun(b, e), NEW t, Awaited(t, b, n), ~(n >= t)
    PROVE  Breached(Rolled(b, n)) # {} /\ b # NoBooks
<1>1. PICK r : r = Rolled(b, n)
  OBVIOUS
<1>2. Succeeds(b, r, n)
  BY <1>1, RolledRolls
<1>3. CASE DayReached(b) /\ t = DayEnd(b)
  <2>1. PICK d \in Nat : d = b.day /\ b.spentDay > 0
    BY <1>3, DatedEnds
  <2>2. d * DayLength \in Nat /\ (d + 1) * DayLength \in Nat /\ d * DayLength <= e /\ ~(n >= (d + 1) * DayLength)
    BY <1>3, <2>1 DEF Begun, DayEnd
  <2>3. d = DayOf(n)
    BY <2>2, DayPassed
  <2>4. r.spentDay = b.spentDay /\ r.capDay = b.capDay
    BY <1>1, <2>1, <2>3 DEF Rolled
  <2>5. DayReached(r)
    BY <1>3, <2>4 DEF DayReached
  <2>6. QED
    BY <1>1, <2>1, <2>5, BreachedIs DEF NoBooks
<1>4. CASE WeekReached(b) /\ t = WeekEnd(b)
  <2>1. PICK d \in Nat : d = b.week /\ b.spentWeek > 0
    BY <1>4, DatedEnds
  <2>2. d * WeekLength \in Nat /\ (d + 1) * WeekLength \in Nat /\ d * WeekLength <= e /\ ~(n >= (d + 1) * WeekLength)
    BY <1>4, <2>1 DEF Begun, WeekEnd
  <2>3. d = WeekOf(n)
    BY <2>2, WeekPassed
  <2>4. r.spentWeek = b.spentWeek /\ r.capWeek = b.capWeek
    BY <1>1, <2>1, <2>3 DEF Rolled
  <2>5. WeekReached(r)
    BY <1>4, <2>4 DEF WeekReached
  <2>6. QED
    BY <1>1, <2>1, <2>5, BreachedIs DEF NoBooks
<1>5. QED
  BY <1>3, <1>4 DEF Awaited

\* At rest, whenever the governor holds a service over its caps, what is on disk makes the next boot hold
\* it too, whenever the daemon dies and until the window rolls (record, recover).
THEOREM HeldTheorem == ASSUME Overlap \subseteq {"stop"} PROVE Spec => []HeldAcrossCrash
<1>1. ASSUME TypeInv, Ordered, HeldInv, Live, Idle, resumeAt # None, now < resumeAt
      PROVE  disk \in Books /\ Breached(Rolled(disk, now)) # {}
  <2>1. PICK b, e, t : b = books /\ e = Earliest /\ t = resumeAt
    OBVIOUS
  <2>2. /\ Dated(b) /\ e \in Nat /\ e <= now /\ now \in Nat /\ t \in Nat
        /\ Begun(b, e) /\ Awaited(t, b, now) /\ ~(now >= t)
    BY <1>1, <2>1, SoundIsDated, EarliestFacts DEF TypeInv, Scalars, HeldInv, BegunInv, AwaitedInv
  <2>3. Breached(Rolled(books, now)) # {} /\ books # NoBooks
    BY <2>1, <2>2, StillBreached
  <2>4. disk = books
    BY <1>1, <2>3 DEF Ordered, StoreInv, Saved, Unsaved, Idle
  <2>5. books \in Books
    BY <1>1, ChargesFacts, SoundIsBooks DEF TypeInv
  <2>6. QED
    BY <2>3, <2>4, <2>5
<1>2. TypeInv /\ Ordered /\ HeldInv => HeldAcrossCrash
  BY <1>1 DEF HeldAcrossCrash
<1>3. Spec => []TypeInv
  BY TypeCorrect
<1>4. QED
  BY <1>2, <1>3, OrderedInvariant, HeldInvariant, PTL

-----------------------------------------------------------------------------
(* A pause has a timer, however stops, shows and charges overlap. *)

\* Whoever recovers the budget at the boot has the service for itself.
BootApart ==
    /\ \A k \in Slots : pc[k] = "booting" => op[k] = "recover"
    /\ \A k \in Slots : op[k] = "recover" =>
           /\ k \in Calls /\ Stopped /\ queue = <<>> /\ pc[Charger] = "idle"
           /\ pc[k] \in {"booting", "mkdir", "writing", "renaming", "stored", "failed"}
           /\ \A j \in Slots : pc[j] \notin {"stopping", "held"} /\ (op[j] = "recover" => j = k)
    /\ ~Live => Stopped /\ queue = <<>> /\ \A k \in Slots : pc[k] = "idle" /\ op[k] = "none"

\* There are no overrides and resets.
NoLifting ==
    \A k \in Slots : op[k] \in {"none", "charge", "show", "recover"} /\ pc[k] # "resumed"

\* A service that is to be paused is down by then, and the time of its resume is known.
TimerInv ==
    /\ \A k \in Slots : pc[k] \in {"stopping", "held"} => instant[k] \in Nat
    /\ \A k \in Slots : pc[k] = "held" => ~up
    /\ state = "paused" => ~up /\ resumeAt # None

TimedInv == BootApart /\ NoLifting /\ TimerInv

\* A call that does not touch the service moves on.
LEMMA MovesTimed ==
    ASSUME TypeInv, TimedInv, NEW k \in Slots, NEW o \in {"none", "charge", "show", "recover"},
           NEW p \in Points \ {"resumed", "stopping", "held"}, NEW t, Suspend(k, o, p, t),
           UNCHANGED <<service, governor, daemon>>, Live,
           queue' = queue \/ (k = Charger /\ queue # <<>>),
           p = "booting" \/ o = "recover" => o = "recover" /\ op[k] = "recover" /\ p \in {"mkdir", "stored"},
           k = Charger => p = "idle" \/ pc[k] # "idle" \/ queue # <<>>
    PROVE  TimedInv'
<1>0. Slotted /\ Charger \in Slots /\ Charger \notin Calls
  BY DEF TypeInv, Slots
<1>1. /\ Moves(k, o, p) /\ UNCHANGED <<up, state, resumeAt, paused>>
      /\ \A j \in Slots \ {k} : instant'[j] = instant[j]
  BY <1>0, SuspendMoves DEF service, governor, Suspend, Slotted
<1>2. \A j \in Slots : pc'[j] \in {"stopping", "held"} => pc'[j] = pc[j] /\ j # k
  BY <1>1 DEF Moves
<1>3. TimerInv'
  BY <1>1, <1>2 DEF TimedInv, TimerInv
<1>4. NoLifting'
  BY <1>1 DEF TimedInv, NoLifting, Moves
<1>5. BootApart'
  <2>1. ASSUME NEW j \in Slots, op'[j] = "recover"
        PROVE  /\ j \in Calls /\ Stopped' /\ queue' = <<>> /\ pc'[Charger] = "idle"
               /\ pc'[j] \in {"booting", "mkdir", "writing", "renaming", "stored", "failed"}
               /\ \A i \in Slots : pc'[i] \notin {"stopping", "held"} /\ (op'[i] = "recover" => i = j)
    <3>1. op[j] = "recover" /\ (j = k => p \in {"mkdir", "stored"})
      BY <1>1, <2>1 DEF Moves
    <3>2. /\ j \in Calls /\ Stopped /\ queue = <<>> /\ pc[Charger] = "idle"
          /\ pc[j] \in {"booting", "mkdir", "writing", "renaming", "stored", "failed"}
          /\ \A i \in Slots : pc[i] \notin {"stopping", "held"} /\ (op[i] = "recover" => i = j)
      BY <3>1 DEF TimedInv, BootApart
    <3>3. pc'[Charger] = "idle"
      BY <1>0, <1>1, <3>2 DEF Moves
    <3>4. \A i \in Slots : op'[i] = "recover" => op[i] = "recover"
      BY <1>1 DEF Moves
    <3>5. Stopped' /\ queue' = <<>>
      BY <1>1, <3>2 DEF Stopped
    <3>6. QED
      BY <1>1, <1>2, <3>1, <3>2, <3>3, <3>4, <3>5 DEF Moves
  <2>2. Live'
    BY DEF Live
  <2>3. \A j \in Slots : pc'[j] = "booting" => op'[j] = "recover"
    BY <1>1 DEF Moves, TimedInv, BootApart
  <2>4. QED
    BY <2>1, <2>2, <2>3 DEF BootApart
<1>6. QED
  BY <1>3, <1>4, <1>5 DEF TimedInv

\* A call reads or writes the files.
LEMMA ReachesTimed ==
    ASSUME TypeInv, TimedInv, NEW k \in Slots, NEW p \in {"writing", "renaming", "stored", "failed"}, Reach(k, p),
           pc[k] \in {"mkdir", "writing", "renaming"}, UNCHANGED <<service, governor, daemon, queue>>
    PROVE  TimedInv'
<1>0. Slotted /\ Charger \in Slots /\ Charger \notin Calls
  BY DEF TypeInv, Slots
<1>1. Moves(k, op[k], p) /\ UNCHANGED <<up, state, resumeAt, paused, instant, op>>
  BY <1>0, ReachMoves DEF service, governor, Reach
<1>2. \A j \in Slots : (pc'[j] = pc[j] /\ j # k) \/ (j = k /\ pc'[j] = p)
  BY <1>1 DEF Moves
<1>3. TimerInv'
  BY <1>1, <1>2 DEF TimedInv, TimerInv
<1>4. NoLifting'
  BY <1>1, <1>2 DEF TimedInv, NoLifting
<1>5. Live' <=> Live
  BY DEF Live
<1>6. BootApart'
  BY <1>0, <1>1, <1>2, <1>5 DEF TimedInv, BootApart, Stopped
<1>7. QED
  BY <1>3, <1>4, <1>6 DEF TimedInv

LEMMA PausesTimed ==
    ASSUME TypeInv, TimedInv, NEW k \in Slots, Pauses(k)
    PROVE  TimedInv'
<1>0. Slotted /\ pc[k] = "held" /\ Live /\ Live'
  BY DEF TypeInv, Pauses, Live
<1>1. /\ Moves(k, "none", "idle") /\ UNCHANGED <<up, queue>> /\ state' = "paused" /\ resumeAt' = instant[k]
      /\ \A j \in Slots \ {k} : instant'[j] = instant[j]
  BY <1>0, ReturnMoves DEF Pauses, events, Return, Suspend, Slotted
<1>2. ~up /\ instant[k] \in Nat
  BY <1>0 DEF TimedInv, TimerInv
<1>3. TimerInv'
  BY <1>1, <1>2 DEF TimedInv, TimerInv, Moves
<1>4. NoLifting'
  BY <1>1 DEF TimedInv, NoLifting, Moves
<1>5. \A j \in Slots : op[j] # "recover"
  BY <1>0 DEF TimedInv, BootApart
<1>6. BootApart'
  BY <1>0, <1>1, <1>5 DEF TimedInv, BootApart, Moves
<1>7. QED
  BY <1>3, <1>4, <1>6 DEF TimedInv

LEMMA ChargeRecordedTimed ==
    ASSUME TypeInv, TimedInv, ChargeRecorded
    PROVE  TimedInv'
<1>0. Slotted /\ Charger \in Slots /\ Charger \notin Calls /\ pc[Charger] = "stored" /\ Live /\ Live'
  BY DEF TypeInv, Slots, ChargeRecorded, Live
<1>1. UNCHANGED <<queue, daemon>>
  BY DEF ChargeRecorded, events
<1>2. CASE Return(Charger) /\ UNCHANGED <<service, governor>>
  BY <1>0, <1>1, <1>2, MovesTimed DEF Return, Points
<1>3. CASE BeginPause(Charger, Latest(Breached(Snapshot(Charger)))) /\ Breached(Snapshot(Charger)) # {}
  <2>1. PICK t \in Nat : BeginPause(Charger, t)
    BY <1>0, <1>3, SnapshotDated, LatestIs DEF TypeInv
  <2>2. \A j \in Slots : op[j] # "recover"
    BY <1>0 DEF TimedInv, BootApart
  <2>3. /\ Moves(Charger, op[Charger], IF up THEN "stopping" ELSE "held") /\ UNCHANGED <<up, resumeAt>>
        /\ state' = IF up THEN "stopping" ELSE state
        /\ instant' = [instant EXCEPT ![Charger] = t]
    BY <1>0, <2>1, SuspendMoves DEF BeginPause, Suspend
  <2>4. TimerInv'
    <3>1. \A j \in Slots : instant'[j] = IF j = Charger THEN t ELSE instant[j]
      BY <1>0, <2>3 DEF Slotted
    <3>2. \A j \in Slots : pc'[j] \in {"stopping", "held"} => instant'[j] \in Nat
      BY <2>3, <3>1 DEF TimedInv, TimerInv, Moves
    <3>3. \A j \in Slots : pc'[j] = "held" => ~up'
      BY <2>3 DEF TimedInv, TimerInv, Moves
    <3>4. state' = "paused" => ~up' /\ resumeAt' # None
      BY <2>3 DEF TimedInv, TimerInv
    <3>5. QED
      BY <3>2, <3>3, <3>4 DEF TimerInv
  <2>5. NoLifting'
    BY <1>0, <2>3 DEF TimedInv, NoLifting, Moves
  <2>6. BootApart'
    BY <1>0, <2>2, <2>3 DEF TimedInv, BootApart, Moves
  <2>7. QED
    BY <2>4, <2>5, <2>6 DEF TimedInv
<1>4. QED
  BY <1>2, <1>3 DEF ChargeRecorded

LEMMA RecoveredTimed ==
    ASSUME TypeInv, TimedInv, NEW k \in Calls, Recovered(k)
    PROVE  TimedInv'
<1>0. Slotted /\ k \in Slots /\ op[k] = "recover" /\ Live /\ Live'
  BY DEF TypeInv, Slots, Recovered, Live
<1>1. Moves(k, "none", "idle") /\ UNCHANGED queue
  BY <1>0, ReturnMoves DEF Recovered, events
<1>2. Stopped /\ \A j \in Slots : pc[j] \notin {"stopping", "held"} /\ (op[j] = "recover" => j = k)
  BY <1>0 DEF TimedInv, BootApart
<1>3. state' = "paused" => ~up' /\ resumeAt' # None
  <2>1. CASE Resume /\ UNCHANGED governor
    BY <1>2, <2>1 DEF Resume, Stopped
  <2>2. CASE /\ Breached(Snapshot(k)) # {} /\ resumeAt' = Latest(Breached(Snapshot(k))) /\ UNCHANGED up
    BY <1>0, <1>2, <2>2, SnapshotDated, LatestIs DEF TypeInv, Stopped
  <2>3. QED
    BY <2>1, <2>2 DEF Recovered
<1>4. \A j \in Slots : pc'[j] \notin {"stopping", "held"} /\ op'[j] # "recover"
  BY <1>1, <1>2 DEF Moves
<1>5. TimerInv'
  BY <1>3, <1>4 DEF TimerInv
<1>6. NoLifting'
  BY <1>1 DEF TimedInv, NoLifting, Moves
<1>7. BootApart'
  BY <1>0, <1>1, <1>4 DEF TimedInv, BootApart, Moves
<1>8. QED
  BY <1>5, <1>6, <1>7 DEF TimedInv

LEMMA ServiceTimed ==
    ASSUME "start" \notin Overlap, TypeInv, TimedInv,
           Start \/ Stop \/ ResumeFires \/ Tick \/ UsageEvent \/ UNCHANGED vars
    PROVE  TimedInv'
<1>0. UNCHANGED <<op, pc, instant, daemon>> /\ (Live' <=> Live)
  BY DEF Start, Stop, ResumeFires, Tick, UsageEvent, vars, calls, Live
<1>1. NoLifting'
  BY <1>0 DEF TimedInv, NoLifting
<1>2. CASE Tick \/ UNCHANGED vars
  <2>1. UNCHANGED <<up, state, resumeAt, paused, queue>>
    BY <1>2 DEF Tick, vars, service, governor, events
  <2>2. BootApart' /\ TimerInv'
    BY <1>0, <2>1 DEF TimedInv, BootApart, TimerInv, Stopped
  <2>3. QED
    BY <1>1, <2>2 DEF TimedInv
<1>3. CASE Start \/ Stop \/ ResumeFires \/ UsageEvent
  <2>1. Live
    BY <1>3 DEF Start, Stop, ResumeFires, UsageEvent, MayBegin, Quiet
  <2>2. \A k \in Slots : op[k] # "recover"
    <3>1. CASE Start
      BY <3>1 DEF Start, MayBegin, TimedInv, BootApart
    <3>2. CASE Stop \/ ResumeFires \/ UsageEvent
      BY <3>2 DEF Stop, ResumeFires, UsageEvent, TimedInv, BootApart, Stopped
    <3>3. QED
      BY <1>3, <3>1, <3>2
  <2>3. BootApart'
    BY <1>0, <2>1, <2>2 DEF TimedInv, BootApart
  <2>4. TimerInv'
    <3>1. CASE Start
      BY <1>0, <3>1 DEF TimedInv, TimerInv, Start, MayBegin, Quiet
    <3>2. CASE Stop
      BY <1>0, <3>2 DEF TimedInv, TimerInv, Stop
    <3>3. CASE ResumeFires
      BY <1>0, <3>3 DEF TimedInv, TimerInv, ResumeFires, Resume, Quiet
    <3>4. CASE UsageEvent
      BY <1>0, <3>4 DEF TimedInv, TimerInv, UsageEvent, service, governor
    <3>5. QED
      BY <1>3, <3>1, <3>2, <3>3, <3>4
  <2>5. QED
    BY <1>1, <2>3, <2>4 DEF TimedInv
<1>4. QED
  BY <1>2, <1>3

LEMMA ChildExitsTimed ==
    ASSUME TypeInv, TimedInv, ChildExits
    PROVE  TimedInv'
<1>1. /\ \A k \in Slots : pc'[k] = IF pc[k] = "stopping" THEN "held" ELSE pc[k]
      /\ up /\ ~up' /\ state' = "stopped" /\ Live /\ Live' /\ UNCHANGED <<queue, op, instant>>
  BY DEF ChildExits, Quiet, Live, events
<1>2. \A k \in Slots : op[k] # "recover"
  BY <1>1 DEF TimedInv, BootApart, Stopped
<1>3. BootApart' /\ NoLifting' /\ TimerInv'
  BY <1>1, <1>2 DEF TimedInv, BootApart, NoLifting, TimerInv
<1>4. QED
  BY <1>3 DEF TimedInv

LEMMA BootTimed ==
    ASSUME TypeInv, TimedInv, NEW k \in Calls, Boot(k)
    PROVE  TimedInv'
<1>0. Slotted /\ k \in Slots /\ k # Charger /\ Charger \in Slots /\ ~Live /\ Live'
  BY DEF TypeInv, Slots, Boot, Live
<1>1. Moves(k, "recover", "booting") /\ UNCHANGED <<up, state, resumeAt, paused, queue>>
  BY <1>0, SuspendMoves DEF Boot, service, governor, events
<1>2. Stopped /\ queue = <<>> /\ \A j \in Slots : pc[j] = "idle" /\ op[j] = "none"
  BY <1>0 DEF TimedInv, BootApart
<1>3. Stopped'
  BY <1>1, <1>2 DEF Stopped
<1>4. BootApart' /\ NoLifting' /\ TimerInv'
  BY <1>0, <1>1, <1>2, <1>3 DEF BootApart, NoLifting, TimerInv, Moves, Stopped
<1>5. QED
  BY <1>4 DEF TimedInv

LEMMA CrashTimed ==
    ASSUME Crash
    PROVE  TimedInv'
<1>1. /\ \A k \in Slots : pc'[k] = "idle" /\ op'[k] = "none" /\ instant'[k] = None
      /\ ~Live' /\ Stopped' /\ queue' = <<>>
  BY DEF Crash, Live, Stopped
<1>2. BootApart' /\ NoLifting' /\ TimerInv'
  BY <1>1 DEF BootApart, NoLifting, TimerInv, Stopped
<1>3. QED
  BY <1>2 DEF TimedInv

LEMMA InitTimed == Init => TimedInv
<1> SUFFICES ASSUME Init PROVE TimedInv
  OBVIOUS
<1>1. /\ \A k \in Slots : pc[k] = "idle" /\ op[k] = "none" /\ instant[k] = None
      /\ ~Live /\ Stopped /\ queue = <<>>
  BY DEF Init, Live, Stopped
<1>2. QED
  BY <1>1 DEF TimedInv, BootApart, NoLifting, TimerInv, Stopped

LEMMA TimedStep ==
    ASSUME Requests \subseteq {"start", "stop", "show"}, "start" \notin Overlap, TypeInv, TimedInv, [Next]_vars
    PROVE  TimedInv'
<1>0. /\ Charger \in Slots /\ Charger \notin Calls /\ Calls \subseteq Slots
      /\ \A k \in Slots : op[k] \in {"none", "charge", "show", "recover"} /\ pc[k] # "resumed"
  BY DEF Slots, TimedInv, NoLifting
<1>1. ASSUME NEW k \in Slots, Opens(k) \/ Writes(k) \/ Renames(k)
      PROVE  TimedInv'
  <2>1. UNCHANGED <<service, governor, daemon, queue>> /\ pc[k] \in {"mkdir", "writing", "renaming"}
    BY <1>1 DEF Opens, Writes, Renames, events
  <2>2. PICK p \in {"writing", "renaming", "stored", "failed"} : Reach(k, p)
    BY <1>1 DEF Opens, Writes, Renames
  <2>3. QED
    BY <2>1, <2>2, ReachesTimed
<1>2. ASSUME NEW k \in Slots, Throws(k) \/ Pauses(k)
      PROVE  TimedInv'
  <2>1. CASE Throws(k)
    <3>1. /\ Suspend(k, "none", "idle", None) /\ UNCHANGED <<service, governor, daemon, queue>> /\ Live
      BY <2>1 DEF Throws, Return, events
    <3>2. QED
      BY <3>1, MovesTimed DEF Points
  <2>2. QED
    BY <1>2, <2>1, PausesTimed
<1>3. ASSUME NEW k \in Calls, ShowStored(k)
      PROVE  TimedInv'
  <2>1. /\ Suspend(k, "none", "idle", None) /\ UNCHANGED <<service, governor, daemon, queue>> /\ Live
    BY <1>3 DEF ShowStored, Return, events
  <2>2. QED
    BY <1>0, <2>1, MovesTimed DEF Points
<1>4. ASSUME NEW k \in Calls, Recover(k) \/ Show(k)
      PROVE  TimedInv'
  <2>1. UNCHANGED <<service, governor, daemon, queue>> /\ Live
    BY <1>4 DEF Recover, Show, MayBegin, Quiet, events
  <2>2. PICK o \in {"show", "recover"}, p \in {"mkdir", "stored"} :
            Suspend(k, o, p, now) /\ (o = "recover" => pc[k] = "booting")
    BY <1>4 DEF Recover, Show, Refresh
  <2>3. o = "recover" => op[k] = "recover"
    BY <1>0, <2>2 DEF TimedInv, BootApart
  <2>4. QED
    BY <1>0, <2>1, <2>2, <2>3, MovesTimed DEF Points
<1>5. ASSUME NEW k \in Calls,
             \/ ResetStored(k) \/ OverrideStored(k) \/ OverrideResumed(k)
             \/ Override(k) \/ Reset(k, "reset") \/ Reset(k, "resetOverride")
      PROVE  FALSE
  BY <1>0, <1>5 DEF ResetStored, OverrideStored, OverrideResumed, Override, Reset, MayBegin
<1>6. CASE Charge
  <2>1. /\ Suspend(Charger, "charge", "mkdir", Head(queue)) /\ UNCHANGED <<service, governor, daemon>> /\ Live
        /\ queue # <<>>
    BY <1>6 DEF Charge
  <2>2. PICK t : Suspend(Charger, "charge", "mkdir", t)
    BY <2>1
  <2>3. QED
    BY <1>0, <2>1, <2>2, MovesTimed DEF Points
<1>7. QED
  BY <1>1, <1>2, <1>3, <1>4, <1>5, <1>6, ServiceTimed, ChildExitsTimed, BootTimed, CrashTimed,
     RecoveredTimed, ChargeRecordedTimed, StepIsOne

\* A paused service has a timer: no overlap of charges, shows and stops, failed write or crash loses the
\* resume, and none fires for a pause to come (armResume, doResume, cancelResume, recover).
THEOREM TimedTheorem ==
    ASSUME Requests \subseteq {"start", "stop", "show"}, "start" \notin Overlap
    PROVE  Spec => []PausedIsTimed
<1>1. Init => TimedInv
  BY InitTimed
<1>2. TypeInv /\ TimedInv /\ [Next]_vars => TimedInv'
  BY TimedStep
<1>3. TimedInv => PausedIsTimed
  BY DEF TimedInv, TimerInv, PausedIsTimed
<1>4. Spec => []TypeInv
  BY TypeCorrect
<1>5. QED
  BY <1>1, <1>2, <1>3, <1>4, PTL DEF Spec

===============================================================================
