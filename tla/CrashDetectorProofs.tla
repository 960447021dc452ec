------------------------- MODULE CrashDetectorProofs -------------------------
(***************************************************************************)
(* Theorems about CrashDetector, for every threshold, window, set of tools *)
(* and exits, and every bound.                                             *)
(***************************************************************************)
EXTENDS CrashDetector, FiniteSetTheorems, TLAPS

-----------------------------------------------------------------------------
(* Events. *)

\* A signature is what a failure is told by, and only a genuine failure has one.
LEMMA GenuineHasSignature ==
    ASSUME NEW e \in Event
    PROVE  Genuine(e) <=> Signature(e) # NoFailure
<1>1. CASE e \in [type : {"tool_execution_end"}, tool : Tools, isError : BOOLEAN]
  BY <1>1 DEF Genuine, Signature, NoFailure
<1>2. CASE e \in [type : {"extension_error"}]
  BY <1>2 DEF Genuine, Signature, NoFailure
<1>3. CASE e \in [type : {"agent_end"}, willRetry : BOOLEAN, stop : {"error", "aborted", "stop"}]
  BY <1>3 DEF Genuine, Signature, NoFailure
<1>4. CASE e \in [type : {"exit"}, how : Signals]
  BY <1>4 DEF Genuine, Signature, NoFailure
<1>5. QED
  BY <1>1, <1>2, <1>3, <1>4 DEF Event

\* Two failures that the detector cannot tell apart are the same event.
LEMMA SignatureTells ==
    ASSUME NEW d \in Event, NEW e \in Event, Genuine(d), Genuine(e), Signature(d) = Signature(e)
    PROVE  d = e
<1>1. CASE e \in [type : {"tool_execution_end"}, tool : Tools, isError : BOOLEAN]
  <2>1. Signature(e) = <<"tool", e.tool>> /\ e.isError
    BY <1>1 DEF Genuine, Signature
  <2>2. d \in [type : {"tool_execution_end"}, tool : Tools, isError : BOOLEAN]
    BY <2>1 DEF Event, Genuine, Signature
  <2>3. Signature(d) = <<"tool", d.tool>> /\ d.isError
    BY <2>2 DEF Genuine, Signature
  <2>4. d.tool = e.tool
    BY <2>1, <2>3
  <2>5. d.isError = TRUE /\ e.isError = TRUE
    BY <1>1, <2>1, <2>2, <2>3
  <2>6. QED
    BY <1>1, <2>2, <2>4, <2>5
<1>2. CASE e \in [type : {"extension_error"}]
  <2>1. Signature(e) = <<"ext">>
    BY <1>2 DEF Signature
  <2>2. d \in [type : {"extension_error"}]
    BY <2>1 DEF Event, Genuine, Signature
  <2>3. QED
    BY <1>2, <2>2
<1>3. CASE e \in [type : {"agent_end"}, willRetry : BOOLEAN, stop : {"error", "aborted", "stop"}]
  <2>1. Signature(e) = <<"agent">> /\ ~e.willRetry /\ e.stop = "error"
    BY <1>3 DEF Genuine, Signature
  <2>2. d \in [type : {"agent_end"}, willRetry : BOOLEAN, stop : {"error", "aborted", "stop"}]
    BY <2>1 DEF Event, Genuine, Signature
  <2>3. ~d.willRetry /\ d.stop = "error"
    BY <2>2 DEF Genuine
  <2>4. d.willRetry = FALSE /\ e.willRetry = FALSE
    BY <1>3, <2>1, <2>2, <2>3
  <2>5. QED
    BY <1>3, <2>1, <2>2, <2>3, <2>4
<1>4. CASE e \in [type : {"exit"}, how : Signals]
  <2>1. Signature(e) = <<"proc", e.how>>
    BY <1>4 DEF Signature
  <2>2. d \in [type : {"exit"}, how : Signals]
    BY <2>1 DEF Event, Genuine, Signature
  <2>3. Signature(d) = <<"proc", d.how>>
    BY <2>2 DEF Signature
  <2>4. QED
    BY <1>4, <2>1, <2>2, <2>3
<1>5. QED
  BY <1>1, <1>2, <1>3, <1>4 DEF Event

-----------------------------------------------------------------------------
(* Types. *)

\* How much a registration was told since it was last cleared, and will be.
Heard(b) == Len(seen[b])
Waits(b) == Len(boxes[b].queue)

\* The type invariant in three parts.
Clocked == now \in Time /\ happened \in 0..MaxFailures /\ current \in 0..Len(boxes)

Shaped ==
    /\ boxes \in Seq(Box) /\ Len(boxes) \in 1..MaxBoxes
    /\ seen \in Seq(Seq(Telling)) /\ Len(seen) = Len(boxes)

Counted == \A b \in DOMAIN boxes : Heard(b) + Waits(b) <= happened

LEMMA TypeParts == TypeOK <=> Clocked /\ Shaped /\ Counted
BY DEF TypeOK, Clocked, Shaped, Counted, Heard, Waits

LEMMA EmptyBox ==
    /\ NewBox \in Box /\ NewBox.queue = <<>> /\ Len(NewBox.queue) = 0
    /\ NewBox.recent = <<>> /\ NewBox.quarantined = FALSE
<1>1. <<>> \in [{} -> Failure] /\ {} \in SUBSET (1..MaxFailures)
  OBVIOUS
<1>2. <<>> \in UNION {[kept -> Failure] : kept \in SUBSET (1..MaxFailures)}
  BY <1>1
<1>3. <<>> \in Seq(Event)
  OBVIOUS
<1>4. QED
  BY <1>2, <1>3 DEF NewBox, Box

\* What the type gives of one registration.
LEMMA BoxFacts ==
    ASSUME TypeOK, NEW b \in DOMAIN boxes
    PROVE  /\ boxes[b] \in Box /\ boxes[b].queue \in Seq(Event) /\ boxes[b].quarantined \in BOOLEAN
           /\ b \in 1..Len(boxes) /\ b \in DOMAIN seen /\ seen[b] \in Seq(Telling)
           /\ Heard(b) \in Nat /\ Waits(b) \in Nat /\ Heard(b) + Waits(b) <= happened
           /\ boxes = [boxes EXCEPT ![b] = boxes[b]] /\ seen = [seen EXCEPT ![b] = seen[b]]
<1>1. Shaped /\ Counted
  BY TypeParts
<1>2. /\ boxes[b] \in Box /\ seen[b] \in Seq(Telling) /\ b \in 1..Len(boxes) /\ b \in DOMAIN seen
      /\ boxes = [boxes EXCEPT ![b] = boxes[b]] /\ seen = [seen EXCEPT ![b] = seen[b]]
  BY <1>1 DEF Shaped
<1>3. boxes[b].queue \in Seq(Event) /\ boxes[b].quarantined \in BOOLEAN
  BY <1>2 DEF Box
<1>4. Heard(b) \in Nat /\ Waits(b) \in Nat
  BY <1>2, <1>3 DEF Heard, Waits
<1>5. QED
  BY <1>1, <1>2, <1>3, <1>4 DEF Counted

LEMMA InitTyped == Init => TypeOK
<1> SUFFICES ASSUME Init PROVE TypeOK
  OBVIOUS
<1>1. Clocked
  BY CrashDetectorAssumption DEF Init, Clocked, Time
<1>2. Shaped
  <2>1. boxes \in Seq(Box) /\ Len(boxes) = 1
    BY EmptyBox DEF Init
  <2>2. <<>> \in Seq(Telling)
    OBVIOUS
  <2>3. seen \in Seq(Seq(Telling)) /\ Len(seen) = 1
    BY <2>2 DEF Init
  <2>4. QED
    BY <2>1, <2>3, CrashDetectorAssumption DEF Shaped
<1>3. Counted
  BY EmptyBox DEF Counted, Init, Heard, Waits
<1>4. QED
  BY <1>1, <1>2, <1>3, TypeParts

\* What is kept after a failure was looked at is again some failures, each under its number.
LEMMA RecentTyped ==
    ASSUME TypeOK, NEW b \in DOMAIN boxes, NEW e \in Event, Heard(b) < MaxFailures
    PROVE  Recent(b, e) \in UNION {[kept -> Failure] : kept \in SUBSET (1..MaxFailures)}
<1>1. boxes[b] \in Box /\ Heard(b) \in Nat
  BY BoxFacts
<1>2. PICK old \in SUBSET (1..MaxFailures) : boxes[b].recent \in [old -> Failure]
  BY <1>1 DEF Box
<1>3. [at |-> now, signature |-> Signature(e)] \in Failure
  BY DEF Failure, TypeOK
<1>4. Heard(b) + 1 \in 1..MaxFailures
  BY <1>1, CrashDetectorAssumption
<1>5. PICK kept : kept = {i \in DOMAIN boxes[b].recent : InWindow(boxes[b].recent[i])}
                          \cup {Heard(b) + 1}
  OBVIOUS
<1>6. kept \in SUBSET (1..MaxFailures) /\ Recent(b, e) \in [kept -> Failure]
  BY <1>2, <1>3, <1>4, <1>5 DEF Recent, Heard
<1>7. QED
  BY <1>6

\* One registration changes.
Changes(b, box, told) ==
    /\ boxes' = [boxes EXCEPT ![b] = box] /\ seen' = [seen EXCEPT ![b] = told]
    /\ UNCHANGED <<now, current>>

\* Where it does, the others do not.
LEMMA ChangedBox ==
    ASSUME TypeOK, NEW b \in DOMAIN boxes, NEW box \in Box, NEW told \in Seq(Telling),
           Changes(b, box, told)
    PROVE  /\ boxes' \in Seq(Box) /\ Len(boxes') = Len(boxes) /\ DOMAIN boxes' = DOMAIN boxes
           /\ seen' \in Seq(Seq(Telling)) /\ Len(seen') = Len(seen)
           /\ boxes'[b] = box /\ seen'[b] = told
           /\ \A c \in DOMAIN boxes \ {b} : boxes'[c] = boxes[c] /\ seen'[c] = seen[c]
<1>1. Shaped /\ b \in DOMAIN seen
  BY TypeParts, BoxFacts
<1>2. /\ boxes' \in Seq(Box) /\ Len(boxes') = Len(boxes) /\ DOMAIN boxes' = DOMAIN boxes
      /\ boxes'[b] = box /\ \A c \in DOMAIN boxes \ {b} : boxes'[c] = boxes[c]
  BY <1>1 DEF Shaped, Changes
<1>3. /\ seen' \in Seq(Seq(Telling)) /\ Len(seen') = Len(seen)
      /\ seen'[b] = told /\ \A c \in DOMAIN boxes \ {b} : seen'[c] = seen[c]
  BY <1>1 DEF Shaped, Changes
<1>4. QED
  BY <1>2, <1>3

\* It stays within what happened.
LEMMA ChangedTyped ==
    ASSUME TypeOK, NEW b \in DOMAIN boxes, NEW box \in Box, NEW told \in Seq(Telling),
           Changes(b, box, told),
           happened' \in happened..MaxFailures, Len(told) + Len(box.queue) <= happened'
    PROVE  TypeOK'
<1> USE CrashDetectorAssumption
<1>1. Clocked /\ Shaped /\ Counted
  BY TypeParts
<1>2. Shaped'
  BY <1>1, ChangedBox DEF Shaped
<1>3. happened \in Nat /\ happened' \in 0..MaxFailures /\ happened <= happened'
  BY <1>1 DEF Clocked
<1>4. Clocked'
  BY <1>1, <1>3, ChangedBox DEF Clocked, Changes
<1>5. Heard(b)' + Waits(b)' <= happened'
  BY ChangedBox DEF Heard, Waits
<1>6. \A c \in DOMAIN boxes \ {b} : Heard(c)' = Heard(c) /\ Waits(c)' = Waits(c)
  BY ChangedBox DEF Heard, Waits
<1>7. \A c \in DOMAIN boxes : Heard(c) \in Nat /\ Waits(c) \in Nat /\ Heard(c) + Waits(c) <= happened
  BY BoxFacts
<1>8. \A c \in DOMAIN boxes : Heard(c)' + Waits(c)' <= happened'
  BY <1>3, <1>5, <1>6, <1>7
<1>9. Counted'
  BY <1>8, ChangedBox DEF Counted
<1>10. QED
  BY <1>2, <1>4, <1>9 DEF TypeOK, Clocked, Shaped, Counted, Heard, Waits

\* No registration changes.
LEMMA AsideTyped ==
    ASSUME TypeOK, UNCHANGED <<boxes, happened, seen>>, now' \in Time, current' \in {0, current}
    PROVE  TypeOK'
<1>1. Clocked /\ Shaped /\ Counted
  BY TypeParts
<1>2. Clocked'
  BY <1>1 DEF Clocked, Shaped
<1>3. Shaped'
  BY <1>1 DEF Shaped
<1>4. Counted'
  BY <1>1 DEF Counted, Heard, Waits
<1>5. QED
  BY <1>2, <1>3, <1>4 DEF TypeOK, Clocked, Shaped, Counted, Heard, Waits

\* What is told is added at the end.
LEMMA ToldMore ==
    ASSUME NEW told \in Seq(Telling), NEW e \in Event, NEW t \in Time
    PROVE  /\ Append(told, [at |-> t, event |-> e]) \in Seq(Telling)
           /\ Len(Append(told, [at |-> t, event |-> e])) = Len(told) + 1
           /\ Append(told, [at |-> t, event |-> e])[Len(told) + 1] = [at |-> t, event |-> e]
           /\ \A i \in DOMAIN told : Append(told, [at |-> t, event |-> e])[i] = told[i]
<1>1. PICK this : this = [at |-> t, event |-> e]
  OBVIOUS
<1>2. this \in Telling
  BY <1>1 DEF Telling
<1>3. /\ Append(told, this) \in Seq(Telling) /\ Len(Append(told, this)) = Len(told) + 1
      /\ Append(told, this)[Len(told) + 1] = this
      /\ \A i \in DOMAIN told : Append(told, this)[i] = told[i]
  BY <1>2
<1>4. QED
  BY <1>1, <1>3

-----------------------------------------------------------------------------
(* The steps that change a registration, as such. *)

\* The box after HandleEvent() of a failure, record(), observeExit(), and clear().
Queued(b, e) == [boxes[b] EXCEPT !.queue = Append(@, e)]
Recorded(b, e) ==
    [recent |-> Recent(b, e), quarantined |-> boxes[b].quarantined \/ Trips(b, e),
     queue |-> Tail(boxes[b].queue), busy |-> Trips(b, e)]
Observed(b, e) == [boxes[b] EXCEPT !.recent = Recent(b, e), !.quarantined = @ \/ Trips(b, e)]
Cleared(b) == [boxes[b] EXCEPT !.recent = <<>>, !.quarantined = FALSE]
Ended(b) == [boxes[b] EXCEPT !.busy = FALSE]

LEMMA QueuedFacts ==
    ASSUME TypeOK, NEW b \in DOMAIN boxes, NEW e \in Event
    PROVE  /\ Queued(b, e) \in Box /\ Queued(b, e).queue = Append(boxes[b].queue, e)
           /\ Len(Queued(b, e).queue) = Waits(b) + 1
           /\ Queued(b, e).recent = boxes[b].recent
           /\ Queued(b, e).quarantined = boxes[b].quarantined
<1>1. boxes[b] \in Box /\ boxes[b].queue \in Seq(Event)
  BY BoxFacts
<1>2. Append(boxes[b].queue, e) \in Seq(Event) /\ Len(Append(boxes[b].queue, e)) = Len(boxes[b].queue) + 1
  BY <1>1
<1>3. QED
  BY <1>1, <1>2 DEF Queued, Box, Waits

LEMMA RecordedFacts ==
    ASSUME TypeOK, NEW b \in DOMAIN boxes, boxes[b].queue # <<>>,
           NEW e \in Event, Heard(b) < MaxFailures
    PROVE  /\ Recorded(b, e) \in Box /\ Recorded(b, e).queue = Tail(boxes[b].queue)
           /\ Len(Recorded(b, e).queue) = Waits(b) - 1
           /\ Recorded(b, e).recent = Recent(b, e)
           /\ Recorded(b, e).quarantined <=> boxes[b].quarantined \/ Trips(b, e)
<1>1. boxes[b].queue \in Seq(Event)
  BY BoxFacts
<1>2. Tail(boxes[b].queue) \in Seq(Event) /\ Len(Tail(boxes[b].queue)) = Len(boxes[b].queue) - 1
  BY <1>1
<1>3. Trips(b, e) \in BOOLEAN
  BY DEF Trips
<1>4. QED
  BY <1>2, <1>3, RecentTyped DEF Recorded, Box, Waits

LEMMA ObservedFacts ==
    ASSUME TypeOK, NEW b \in DOMAIN boxes, NEW e \in Event, Heard(b) < MaxFailures
    PROVE  /\ Observed(b, e) \in Box /\ Observed(b, e).queue = boxes[b].queue
           /\ Observed(b, e).recent = Recent(b, e)
           /\ Observed(b, e).quarantined <=> boxes[b].quarantined \/ Trips(b, e)
<1>1. boxes[b] \in Box
  BY BoxFacts
<1>2. Trips(b, e) \in BOOLEAN
  BY DEF Trips
<1>3. QED
  BY <1>1, <1>2, RecentTyped DEF Observed, Box

LEMMA ClearedFacts ==
    ASSUME TypeOK, NEW b \in DOMAIN boxes
    PROVE  /\ Cleared(b) \in Box /\ Cleared(b).queue = boxes[b].queue
           /\ Cleared(b).recent = <<>> /\ Cleared(b).quarantined = FALSE
           /\ Ended(b) \in Box /\ Ended(b).queue = boxes[b].queue
           /\ Ended(b).recent = boxes[b].recent /\ Ended(b).quarantined = boxes[b].quarantined
<1>1. boxes[b] \in Box
  BY BoxFacts
<1>2. <<>> \in [{} -> Failure] /\ {} \in SUBSET (1..MaxFailures)
  OBVIOUS
<1>3. <<>> \in UNION {[kept -> Failure] : kept \in SUBSET (1..MaxFailures)}
  BY <1>2
<1>4. QED
  BY <1>1, <1>3 DEF Cleared, Ended, Box

\* The next that a registration looks at.
Next0(b) == Head(boxes[b].queue)

\* What it was told with this.
With(b, e) == Append(seen[b], [at |-> now, event |-> e])

LEMMA WithFacts ==
    ASSUME TypeOK, NEW b \in DOMAIN boxes, NEW e \in Event
    PROVE  With(b, e) \in Seq(Telling) /\ Len(With(b, e)) = Heard(b) + 1
<1>1. seen[b] \in Seq(Telling) /\ now \in Time
  BY BoxFacts DEF TypeOK
<1>2. QED
  BY <1>1, ToldMore DEF With, Heard

LEMMA CurrentBox ==
    ASSUME TypeOK, current # 0
    PROVE  current \in DOMAIN boxes
<1>1. Clocked /\ Shaped
  BY TypeParts
<1>2. Len(boxes) \in Nat /\ DOMAIN boxes = 1..Len(boxes)
  BY <1>1 DEF Shaped
<1>3. QED
  BY <1>1, <1>2 DEF Clocked

LEMMA HappenedFacts ==
    ASSUME TypeOK
    PROVE  /\ happened \in Nat /\ happened <= MaxFailures /\ MaxFailures \in Nat
           /\ Happens => happened' = happened + 1 /\ happened' \in happened..MaxFailures
BY CrashDetectorAssumption DEF TypeOK, Happens

\* An event that is a failure waits; another one is only told.
LEMMA HandleEventStep ==
    ASSUME TypeOK, NEW e \in Event, HandleEvent(e)
    PROVE  /\ current \in DOMAIN boxes /\ happened' \in happened..MaxFailures
           /\ happened' = happened + 1
           /\ \/ Signature(e) = NoFailure /\ Changes(current, boxes[current], With(current, e))
              \/ Signature(e) # NoFailure /\ Changes(current, Queued(current, e), seen[current])
<1>1. current \in DOMAIN boxes
  BY CurrentBox DEF HandleEvent
<1>2. /\ boxes = [boxes EXCEPT ![current] = boxes[current]]
      /\ seen = [seen EXCEPT ![current] = seen[current]] /\ current \in DOMAIN seen
  BY <1>1, BoxFacts
<1>3. CASE Signature(e) = NoFailure
  <2>1. seen' = [seen EXCEPT ![current] = With(current, e)] /\ boxes' = boxes
    BY <1>2, <1>3 DEF HandleEvent, Told, With
  <2>2. QED
    BY <1>1, <1>2, <1>3, <2>1, HappenedFacts DEF HandleEvent, Changes
<1>4. CASE Signature(e) # NoFailure
  <2>1. boxes' = [boxes EXCEPT ![current] = Queued(current, e)] /\ seen' = seen
    BY <1>1, <1>4 DEF HandleEvent, Queued
  <2>2. QED
    BY <1>1, <1>2, <1>4, <2>1, HappenedFacts DEF HandleEvent, Changes
<1>5. QED
  BY <1>3, <1>4

LEMMA RecordStep ==
    ASSUME TypeOK, NEW b \in DOMAIN boxes, Record(b)
    PROVE  /\ boxes[b].queue # <<>> /\ Next0(b) \in Event /\ Heard(b) < MaxFailures
           /\ happened' = happened
           /\ Changes(b, Recorded(b, Next0(b)), With(b, Next0(b)))
<1>1. boxes[b].queue # <<>> /\ boxes[b].queue \in Seq(Event)
  BY BoxFacts DEF Record
<1>2. Next0(b) \in Event /\ Waits(b) >= 1
  BY <1>1 DEF Next0, Waits
<1>3. Heard(b) < MaxFailures
  BY <1>2, BoxFacts, HappenedFacts
<1>4. b \in DOMAIN seen
  BY BoxFacts
<1>5. boxes' = [boxes EXCEPT ![b] = Recorded(b, Next0(b))]
  BY DEF Record, Recorded, Next0
<1>6. seen' = [seen EXCEPT ![b] = With(b, Next0(b))]
  BY <1>4 DEF Record, Told, With, Next0
<1>7. QED
  BY <1>1, <1>2, <1>3, <1>5, <1>6 DEF Record, Changes

LEMMA ObserveExitStep ==
    ASSUME TypeOK, NEW e \in Event, ObserveExit(e)
    PROVE  /\ current \in DOMAIN boxes /\ Heard(current) < MaxFailures
           /\ happened' \in happened..MaxFailures /\ happened' = happened + 1
           /\ e.type = "exit"
           /\ Changes(current, Observed(current, e), With(current, e))
<1>1. current \in DOMAIN boxes
  BY CurrentBox DEF ObserveExit
<1>2. current \in DOMAIN seen /\ Heard(current) < MaxFailures
  BY <1>1, BoxFacts, HappenedFacts DEF ObserveExit, Happens
<1>3. boxes' = [boxes EXCEPT ![current] = Observed(current, e)]
  BY <1>1 DEF ObserveExit, Observed
<1>4. seen' = [seen EXCEPT ![current] = With(current, e)]
  BY <1>2 DEF ObserveExit, Told, With
<1>5. QED
  BY <1>1, <1>2, <1>3, <1>4, HappenedFacts DEF ObserveExit, Changes

LEMMA ClearStep ==
    ASSUME TypeOK, Clear
    PROVE  /\ current \in DOMAIN boxes /\ happened' = happened
           /\ Changes(current, Cleared(current), <<>>)
<1>1. current \in DOMAIN boxes
  BY CurrentBox DEF Clear
<1>2. boxes' = [boxes EXCEPT ![current] = Cleared(current)]
  BY <1>1 DEF Clear, Cleared
<1>3. QED
  BY <1>1, <1>2 DEF Clear, Changes

LEMMA QuarantineEndsStep ==
    ASSUME TypeOK, NEW b \in DOMAIN boxes, QuarantineEnds(b)
    PROVE  happened' = happened /\ Changes(b, Ended(b), seen[b])
<1>1. boxes' = [boxes EXCEPT ![b] = Ended(b)]
  BY DEF QuarantineEnds, Ended
<1>2. QED
  BY <1>1, BoxFacts DEF QuarantineEnds, Changes

\* A registration more.
LEMMA RegisterStep ==
    ASSUME TypeOK, Register
    PROVE  /\ TypeOK' /\ DOMAIN boxes' = DOMAIN boxes \cup {Len(boxes) + 1}
           /\ boxes'[Len(boxes) + 1] = NewBox /\ seen'[Len(boxes) + 1] = <<>>
           /\ \A b \in DOMAIN boxes : boxes'[b] = boxes[b] /\ seen'[b] = seen[b]
<1> USE CrashDetectorAssumption
<1>1. Clocked /\ Shaped
  BY TypeParts
<1>2. /\ boxes' \in Seq(Box) /\ Len(boxes') = Len(boxes) + 1
      /\ boxes'[Len(boxes) + 1] = NewBox
      /\ \A b \in DOMAIN boxes : boxes'[b] = boxes[b]
      /\ DOMAIN boxes' = DOMAIN boxes \cup {Len(boxes) + 1}
  BY <1>1, EmptyBox DEF Shaped, Register
<1>3. <<>> \in Seq(Telling)
  OBVIOUS
<1>4. /\ seen' \in Seq(Seq(Telling)) /\ Len(seen') = Len(boxes) + 1
      /\ seen'[Len(boxes) + 1] = <<>> /\ \A b \in DOMAIN boxes : seen'[b] = seen[b]
  BY <1>1, <1>3 DEF Shaped, Register
<1>5. Shaped'
  BY <1>1, <1>2, <1>4 DEF Shaped, Register
<1>6. Clocked'
  <2>1. current' = Len(boxes) + 1 /\ Len(boxes) \in Nat
    BY <1>1 DEF Register, Shaped
  <2>2. QED
    BY <1>1, <1>2, <2>1 DEF Clocked, Register
<1>7. \A b \in DOMAIN boxes : Heard(b)' = Heard(b) /\ Waits(b)' = Waits(b)
  BY <1>2, <1>4 DEF Heard, Waits
<1>8. \A b \in DOMAIN boxes : Heard(b)' + Waits(b)' <= happened'
  BY <1>7, BoxFacts DEF Register
<1>9. Len(seen'[Len(boxes) + 1]) + Len(boxes'[Len(boxes) + 1].queue) <= happened'
  <2>1. Len(seen'[Len(boxes) + 1]) = 0 /\ Len(boxes'[Len(boxes) + 1].queue) = 0
    BY <1>2, <1>4, EmptyBox
  <2>2. happened' = happened /\ happened >= 0
    BY <1>1 DEF Clocked, Register
  <2>3. QED
    BY <2>1, <2>2
<1>10. Counted'
  <2>1. \A b \in DOMAIN boxes : Len(seen'[b]) + Len(boxes'[b].queue) <= happened'
    BY <1>8 DEF Heard, Waits
  <2>2. QED
    BY <2>1, <1>2, <1>9 DEF Counted, Heard, Waits
<1>11. TypeOK'
  BY <1>5, <1>6, <1>10 DEF TypeOK, Clocked, Shaped, Counted, Heard, Waits
<1>12. QED
  BY <1>2, <1>4, <1>11

LEMMA TypeStep ==
    ASSUME TypeOK, [Next]_vars
    PROVE  TypeOK'
<1>0. TypeOK /\ happened \in Nat /\ happened <= MaxFailures /\ MaxFailures \in Nat
  BY HappenedFacts
<1>1. CASE Register
  BY <1>1, RegisterStep
<1>2. CASE Unregister
  BY <1>2, AsideTyped DEF Unregister, TypeOK
<1>3. CASE Clear
  <2>1. <<>> \in Seq(Telling) /\ Len(<<>>) = 0
    OBVIOUS
  <2>2. /\ current \in DOMAIN boxes /\ happened' = happened
        /\ Changes(current, Cleared(current), <<>>)
    BY <1>3, ClearStep
  <2>3. Cleared(current) \in Box /\ Cleared(current).queue = boxes[current].queue
    BY <2>2, ClearedFacts
  <2>4. Len(<<>>) + Len(Cleared(current).queue) <= happened'
    BY <2>1, <2>2, <2>3, BoxFacts, <1>0 DEF Waits
  <2>5. QED
    <3>1. happened' \in happened..MaxFailures
      BY <1>0, <2>2
    <3>2. QED
      BY <2>1, <2>2, <2>3, <2>4, <3>1, ChangedTyped
<1>4. CASE Tick
  <2>1. now \in Time
    BY DEF TypeOK
  <2>2. now' \in Time /\ UNCHANGED <<boxes, happened, seen>> /\ current' \in {0, current}
    BY <1>4, <2>1, CrashDetectorAssumption DEF Tick, Time
  <2>3. QED
    BY <2>2, AsideTyped
<1>5. ASSUME NEW e \in Event, HandleEvent(e) PROVE TypeOK'
  <2>1. current \in DOMAIN boxes /\ happened' \in happened..MaxFailures /\ happened' = happened + 1
    BY <1>5, HandleEventStep
  <2>2. boxes[current] \in Box /\ seen[current] \in Seq(Telling)
    BY <2>1, BoxFacts
  <2>3. CASE Changes(current, boxes[current], With(current, e))
    <3>1. With(current, e) \in Seq(Telling)
      BY <2>1, WithFacts
    <3>2. Len(With(current, e)) + Len(boxes[current].queue) <= happened'
      BY <1>0, <2>1, WithFacts, BoxFacts DEF Waits
    <3>3. QED
      BY <2>1, <2>2, <2>3, <3>1, <3>2, ChangedTyped
  <2>4. CASE Changes(current, Queued(current, e), seen[current])
    <3>1. Queued(current, e) \in Box
      BY <2>1, QueuedFacts
    <3>2. Len(seen[current]) + Len(Queued(current, e).queue) <= happened'
      <4>1. Heard(current) \in Nat /\ Waits(current) \in Nat /\ Heard(current) + Waits(current) <= happened
        BY <2>1, BoxFacts
      <4>2. Len(Queued(current, e).queue) = Waits(current) + 1
        BY <2>1, QueuedFacts
      <4>3. QED
        BY <1>0, <2>1, <4>1, <4>2 DEF Heard
    <3>3. QED
      BY <2>1, <2>2, <2>4, <3>1, <3>2, ChangedTyped
  <2>5. QED
    BY <1>5, <2>3, <2>4, HandleEventStep
<1>6. ASSUME NEW e \in Event, ObserveExit(e) PROVE TypeOK'
  <2>1. /\ current \in DOMAIN boxes /\ Heard(current) < MaxFailures
        /\ happened' \in happened..MaxFailures /\ happened' = happened + 1
        /\ Changes(current, Observed(current, e), With(current, e))
    BY <1>6, ObserveExitStep
  <2>2. Observed(current, e) \in Box /\ With(current, e) \in Seq(Telling)
    BY <2>1, ObservedFacts, WithFacts
  <2>3. Len(With(current, e)) + Len(Observed(current, e).queue) <= happened'
    <3>1. Heard(current) \in Nat /\ Waits(current) \in Nat /\ Heard(current) + Waits(current) <= happened
      BY <2>1, BoxFacts
    <3>2. Len(Observed(current, e).queue) = Waits(current) /\ Len(With(current, e)) = Heard(current) + 1
      BY <2>1, ObservedFacts, WithFacts DEF Waits
    <3>3. QED
      BY <1>0, <2>1, <3>1, <3>2
  <2>4. QED
    BY <2>1, <2>2, <2>3, ChangedTyped
<1>7. ASSUME NEW b \in DOMAIN boxes, Record(b) PROVE TypeOK'
  <2>1. /\ boxes[b].queue # <<>> /\ Next0(b) \in Event /\ Heard(b) < MaxFailures
        /\ happened' = happened /\ Changes(b, Recorded(b, Next0(b)), With(b, Next0(b)))
    BY <1>7, RecordStep
  <2>2. Recorded(b, Next0(b)) \in Box /\ With(b, Next0(b)) \in Seq(Telling)
    BY <2>1, RecordedFacts, WithFacts
  <2>3. Len(With(b, Next0(b))) + Len(Recorded(b, Next0(b)).queue) <= happened'
    BY <1>0, <2>1, RecordedFacts, WithFacts, BoxFacts
  <2>4. happened' \in happened..MaxFailures
    BY <1>0, <2>1
  <2>5. QED
    BY <2>1, <2>2, <2>3, <2>4, ChangedTyped
<1>8. ASSUME NEW b \in DOMAIN boxes, QuarantineEnds(b) PROVE TypeOK'
  <2>1. happened' = happened /\ Changes(b, Ended(b), seen[b])
    BY <1>8, QuarantineEndsStep
  <2>2. Ended(b) \in Box /\ Ended(b).queue = boxes[b].queue /\ seen[b] \in Seq(Telling)
    BY ClearedFacts, BoxFacts
  <2>3. Len(seen[b]) + Len(Ended(b).queue) <= happened'
    BY <2>1, <2>2, BoxFacts DEF Waits, Heard
  <2>4. happened' \in happened..MaxFailures
    BY <1>0, <2>1
  <2>5. QED
    BY <2>1, <2>2, <2>3, <2>4, ChangedTyped
<1>9. CASE UNCHANGED vars
  BY <1>9, AsideTyped DEF vars, TypeOK
<1>10. QED
  BY <1>1, <1>2, <1>3, <1>4, <1>5, <1>6, <1>7, <1>8, <1>9 DEF Next

\* The types hold: in particular no registration hears of more than happened, and what is kept of
\* it comes from what it heard (crash.ts).
THEOREM TypeCorrect == Spec => []TypeOK
<1>1. Init => TypeOK
  BY InitTyped
<1>2. TypeOK /\ [Next]_vars => TypeOK'
  BY TypeStep
<1>3. QED
  BY <1>1, <1>2, PTL DEF Spec

-----------------------------------------------------------------------------
(* The sliding list and the history. *)

\* What makes the detector's answer right is that its list has, of what it was told, exactly the
\* failures that can still count: nothing that was not told, and everything that is in the window.
KeepsOnlyTold(box, told) ==
    \A i \in DOMAIN box.recent :
        /\ i \in DOMAIN told /\ Genuine(told[i].event)
        /\ box.recent[i] = [at |-> told[i].at, signature |-> Signature(told[i].event)]

KeepsTheWindow(box, told) ==
    \A i \in DOMAIN told : Genuine(told[i].event) /\ InWindow(told[i]) => i \in DOMAIN box.recent

QueuesFailures(box) == \A i \in DOMAIN box.queue : Genuine(box.queue[i])

Remembers(box, told) ==
    /\ KeepsOnlyTold(box, told) /\ KeepsTheWindow(box, told) /\ QueuesFailures(box)
    /\ box.quarantined <=> CrashLoop(told)

Memory == \A b \in DOMAIN boxes : Remembers(boxes[b], seen[b])

\* A loop is found when its last failure comes in.
LEMMA OneTellingMore ==
    ASSUME NEW told \in Seq(Telling), NEW e \in Event, NEW t \in Time,
           NEW more, more = Append(told, [at |-> t, event |-> e])
    PROVE  CrashLoop(more) <=> \/ CrashLoop(told)
                               \/ Genuine(e) /\ Cardinality(Repeats(more, Len(told) + 1)) >= Threshold
<1>1. /\ more \in Seq(Telling) /\ Len(more) = Len(told) + 1
      /\ more[Len(told) + 1] = [at |-> t, event |-> e] /\ \A i \in DOMAIN told : more[i] = told[i]
  BY ToldMore
<1>2. DOMAIN more = DOMAIN told \cup {Len(told) + 1}
  BY <1>1
<1>3. \A i \in DOMAIN told : 1..i \subseteq DOMAIN told
  OBVIOUS
<1>4. \A i \in DOMAIN told : Repeats(more, i) = Repeats(told, i)
  BY <1>1, <1>3 DEF Repeats
<1>5. more[Len(told) + 1].event = e
  BY <1>1
<1>6. QED
  BY <1>1, <1>2, <1>4, <1>5 DEF CrashLoop

\* Of a box with what it was told up to now.
LEMMA TellingFacts ==
    ASSUME TypeOK, NEW b \in DOMAIN boxes, NEW e \in Event
    PROVE  /\ With(b, e) \in Seq(Telling) /\ DOMAIN With(b, e) = DOMAIN seen[b] \cup {Heard(b) + 1}
           /\ DOMAIN seen[b] = 1..Heard(b) /\ Heard(b) \in Nat
           /\ Heard(b) + 1 \notin DOMAIN seen[b]
           /\ With(b, e)[Heard(b) + 1].at = now /\ With(b, e)[Heard(b) + 1].event = e
           /\ \A i \in DOMAIN seen[b] : With(b, e)[i] = seen[b][i] /\ seen[b][i] \in Telling
<1>1. seen[b] \in Seq(Telling) /\ now \in Time
  BY BoxFacts DEF TypeOK
<1>2. /\ With(b, e) \in Seq(Telling) /\ Len(With(b, e)) = Heard(b) + 1
      /\ With(b, e)[Heard(b) + 1] = [at |-> now, event |-> e]
      /\ \A i \in DOMAIN seen[b] : With(b, e)[i] = seen[b][i]
  BY <1>1, ToldMore DEF With, Heard
<1>3. DOMAIN seen[b] = 1..Heard(b) /\ Heard(b) \in Nat /\ \A i \in DOMAIN seen[b] : seen[b][i] \in Telling
  BY <1>1 DEF Heard
<1>4. Heard(b) + 1 \notin DOMAIN seen[b] /\ DOMAIN With(b, e) = DOMAIN seen[b] \cup {Heard(b) + 1}
  BY <1>2, <1>3
<1>5. With(b, e)[Heard(b) + 1].at = now /\ With(b, e)[Heard(b) + 1].event = e
  BY <1>2
<1>6. QED
  BY <1>2, <1>3, <1>4, <1>5

LEMMA RecentFacts ==
    ASSUME TypeOK, NEW b \in DOMAIN boxes, NEW e \in Event
    PROVE  /\ DOMAIN Recent(b, e) = {i \in DOMAIN boxes[b].recent : InWindow(boxes[b].recent[i])}
                                    \cup {Heard(b) + 1}
           /\ Recent(b, e)[Heard(b) + 1] = [at |-> now, signature |-> Signature(e)]
           /\ \A i \in DOMAIN Recent(b, e) \ {Heard(b) + 1} : Recent(b, e)[i] = boxes[b].recent[i]
BY DEF Recent, Heard

\* The list is trimmed and added to as the window asks.
LEMMA RecentRemembers ==
    ASSUME TypeOK, NEW b \in DOMAIN boxes, NEW e \in Event, Genuine(e),
           Remembers(boxes[b], seen[b]), NEW box, box.recent = Recent(b, e)
    PROVE  KeepsOnlyTold(box, With(b, e)) /\ KeepsTheWindow(box, With(b, e))
<1>1. KeepsOnlyTold(boxes[b], seen[b]) /\ KeepsTheWindow(boxes[b], seen[b])
  BY DEF Remembers
<1> DEFINE this == Heard(b) + 1
<1>3. /\ DOMAIN With(b, e) = DOMAIN seen[b] \cup {this} /\ this \notin DOMAIN seen[b]
      /\ With(b, e)[this].at = now /\ With(b, e)[this].event = e
      /\ \A i \in DOMAIN seen[b] : With(b, e)[i] = seen[b][i]
  BY TellingFacts
<1>4. /\ DOMAIN box.recent = {i \in DOMAIN boxes[b].recent : InWindow(boxes[b].recent[i])} \cup {this}
      /\ box.recent[this] = [at |-> now, signature |-> Signature(e)]
      /\ \A i \in DOMAIN box.recent \ {this} : box.recent[i] = boxes[b].recent[i]
  BY RecentFacts
<1> HIDE DEF this
<1>5. KeepsOnlyTold(box, With(b, e))
  <2>1. ASSUME NEW i \in DOMAIN box.recent
        PROVE  /\ i \in DOMAIN With(b, e) /\ Genuine(With(b, e)[i].event)
               /\ box.recent[i] = [at |-> With(b, e)[i].at, signature |-> Signature(With(b, e)[i].event)]
    <3>1. CASE i = this
      BY <3>1, <1>3, <1>4
    <3>2. CASE i # this
      <4>1. i \in DOMAIN boxes[b].recent /\ box.recent[i] = boxes[b].recent[i]
        BY <2>1, <3>2, <1>4
      <4>2. /\ i \in DOMAIN seen[b] /\ Genuine(seen[b][i].event)
            /\ boxes[b].recent[i] = [at |-> seen[b][i].at, signature |-> Signature(seen[b][i].event)]
        BY <4>1, <1>1 DEF KeepsOnlyTold
      <4>3. QED
        BY <4>1, <4>2, <1>3
    <3>3. QED
      BY <3>1, <3>2
  <2>2. QED
    BY <2>1 DEF KeepsOnlyTold
<1>6. KeepsTheWindow(box, With(b, e))
  <2>1. ASSUME NEW i \in DOMAIN With(b, e), Genuine(With(b, e)[i].event), InWindow(With(b, e)[i]), i # this
        PROVE  i \in DOMAIN box.recent
    <3>1. i \in DOMAIN seen[b] /\ Genuine(seen[b][i].event) /\ InWindow(seen[b][i])
      BY <2>1, <1>3
    <3>2. i \in DOMAIN boxes[b].recent
      BY <3>1, <1>1 DEF KeepsTheWindow
    <3>3. boxes[b].recent[i].at = seen[b][i].at
      <4>1. boxes[b].recent[i] = [at |-> seen[b][i].at, signature |-> Signature(seen[b][i].event)]
        BY <3>2, <1>1 DEF KeepsOnlyTold
      <4>2. QED
        BY <4>1
    <3>4. InWindow(boxes[b].recent[i])
      BY <3>1, <3>3 DEF InWindow
    <3>5. QED
      BY <3>2, <3>4, <1>4
  <2>2. QED
    BY <2>1, <1>4 DEF KeepsTheWindow
<1>7. QED
  BY <1>5, <1>6

\* The failures that are counted are those that repeat.
LEMMA CountsRepeats ==
    ASSUME TypeOK, NEW b \in DOMAIN boxes, NEW e \in Event, Genuine(e), Remembers(boxes[b], seen[b])
    PROVE  Count(Recent(b, e), Signature(e)) = Cardinality(Repeats(With(b, e), Heard(b) + 1))
<1>1. KeepsOnlyTold(boxes[b], seen[b]) /\ KeepsTheWindow(boxes[b], seen[b])
  BY DEF Remembers
<1> DEFINE this == Heard(b) + 1
<1>3. /\ 1..this = DOMAIN seen[b] \cup {this} /\ this \notin DOMAIN seen[b]
      /\ With(b, e)[this].at = now /\ With(b, e)[this].event = e
      /\ \A i \in DOMAIN seen[b] : With(b, e)[i] = seen[b][i]
  <2>1. DOMAIN seen[b] = 1..Heard(b) /\ Heard(b) \in Nat
    BY TellingFacts
  <2>2. 1..this = 1..Heard(b) \cup {this}
    BY <2>1
  <2>3. this \notin 1..Heard(b)
    BY <2>1
  <2>4. QED
    BY <2>1, <2>2, <2>3, TellingFacts
<1>4. /\ DOMAIN Recent(b, e) = {i \in DOMAIN boxes[b].recent : InWindow(boxes[b].recent[i])} \cup {this}
      /\ Recent(b, e)[this].signature = Signature(e)
      /\ \A i \in DOMAIN Recent(b, e) \ {this} : Recent(b, e)[i] = boxes[b].recent[i]
  <2>1. Recent(b, e)[this] = [at |-> now, signature |-> Signature(e)]
    BY RecentFacts
  <2>2. Recent(b, e)[this].signature = Signature(e)
    BY <2>1
  <2>3. QED
    BY <2>2, RecentFacts
<1> HIDE DEF this
<1>5. this \in Repeats(With(b, e), this)
  <2>1. now \in Nat /\ Window \in Nat
    BY CrashDetectorAssumption DEF TypeOK, Time
  <2>2. With(b, e)[this].at + Window >= With(b, e)[this].at
    BY <2>1, <1>3
  <2>3. this \in 1..this
    BY <1>3
  <2>4. QED
    BY <2>2, <2>3 DEF Repeats
<1>6. ASSUME NEW i, i # this
      PROVE  i \in DOMAIN Recent(b, e) /\ Recent(b, e)[i].signature = Signature(e)
             <=> i \in Repeats(With(b, e), this)
  <2>1. i \in Repeats(With(b, e), this) <=>
            i \in DOMAIN seen[b] /\ seen[b][i].event = e /\ InWindow(seen[b][i])
    BY <1>3, <1>6 DEF Repeats, InWindow
  <2>2. ASSUME i \in DOMAIN Recent(b, e), Recent(b, e)[i].signature = Signature(e)
        PROVE  i \in DOMAIN seen[b] /\ seen[b][i].event = e /\ InWindow(seen[b][i])
    <3>1. /\ i \in DOMAIN boxes[b].recent /\ InWindow(boxes[b].recent[i])
          /\ boxes[b].recent[i].signature = Signature(e)
      BY <2>2, <1>4, <1>6
    <3>2. /\ i \in DOMAIN seen[b] /\ Genuine(seen[b][i].event)
          /\ boxes[b].recent[i] = [at |-> seen[b][i].at, signature |-> Signature(seen[b][i].event)]
      BY <3>1, <1>1 DEF KeepsOnlyTold
    <3>3. Signature(seen[b][i].event) = Signature(e) /\ boxes[b].recent[i].at = seen[b][i].at
      BY <3>1, <3>2
    <3>4. seen[b][i].event \in Event
      BY <3>2, TellingFacts DEF Telling
    <3>5. seen[b][i].event = e
      BY <3>2, <3>3, <3>4, SignatureTells
    <3>6. InWindow(seen[b][i])
      BY <3>1, <3>3 DEF InWindow
    <3>7. QED
      BY <3>2, <3>5, <3>6
  <2>3. ASSUME i \in DOMAIN seen[b], seen[b][i].event = e, InWindow(seen[b][i])
        PROVE  i \in DOMAIN Recent(b, e) /\ Recent(b, e)[i].signature = Signature(e)
    <3>1. i \in DOMAIN boxes[b].recent
      BY <2>3, <1>1 DEF KeepsTheWindow
    <3>2. boxes[b].recent[i] = [at |-> seen[b][i].at, signature |-> Signature(e)]
      BY <3>1, <2>3, <1>1 DEF KeepsOnlyTold
    <3>3. InWindow(boxes[b].recent[i])
      BY <2>3, <3>2 DEF InWindow
    <3>4. QED
      BY <3>1, <3>2, <3>3, <1>4, <1>6
  <2>4. QED
    BY <2>1, <2>2, <2>3
<1>7. {i \in DOMAIN Recent(b, e) : Recent(b, e)[i].signature = Signature(e)} = Repeats(With(b, e), this)
  BY <1>4, <1>5, <1>6
<1>8. QED
  BY <1>7 DEF Count, this

-----------------------------------------------------------------------------
(* Each step keeps the memory. *)

LEMMA ChangedMemory ==
    ASSUME TypeOK, Memory, NEW b \in DOMAIN boxes, NEW box \in Box, NEW told \in Seq(Telling),
           Changes(b, box, told), Remembers(box, told)
    PROVE  Memory'
<1>1. /\ DOMAIN boxes' = DOMAIN boxes /\ boxes'[b] = box /\ seen'[b] = told
      /\ \A c \in DOMAIN boxes \ {b} : boxes'[c] = boxes[c] /\ seen'[c] = seen[c]
  BY ChangedBox
<1>2. now' = now
  BY DEF Changes
<1>3. Remembers(boxes'[b], seen'[b])
  BY <1>1
<1>4. \A c \in DOMAIN boxes \ {b} : Remembers(boxes'[c], seen'[c])
  BY <1>1 DEF Memory
<1>5. \A c \in DOMAIN boxes : Remembers(boxes'[c], seen'[c])
  BY <1>3, <1>4
<1>6. ASSUME NEW c \in DOMAIN boxes
      PROVE  Remembers(boxes[c], seen[c])'
  <2>1. Remembers(boxes'[c], seen'[c])
    BY <1>5
  <2>2. KeepsOnlyTold(boxes[c], seen[c])'
    BY <2>1 DEF Remembers, KeepsOnlyTold
  <2>3. KeepsTheWindow(boxes[c], seen[c])'
    BY <2>1, <1>2 DEF Remembers, KeepsTheWindow, InWindow
  <2>4. QueuesFailures(boxes[c])' /\ (boxes[c].quarantined <=> CrashLoop(seen[c]))'
    BY <2>1 DEF Remembers, QueuesFailures
  <2>5. QED
    BY <2>2, <2>3, <2>4 DEF Remembers
<1>7. QED
  BY <1>1, <1>6 DEF Memory

\* An event that is no failure changes nothing that is remembered.
LEMMA AsideRemembers ==
    ASSUME TypeOK, NEW b \in DOMAIN boxes, Remembers(boxes[b], seen[b]), NEW e \in Event, ~Genuine(e)
    PROVE  Remembers(boxes[b], With(b, e))
<1>1. KeepsOnlyTold(boxes[b], seen[b]) /\ KeepsTheWindow(boxes[b], seen[b]) /\ QueuesFailures(boxes[b])
  BY DEF Remembers
<1> DEFINE this == Heard(b) + 1
<1>0. /\ DOMAIN With(b, e) = DOMAIN seen[b] \cup {this} /\ With(b, e)[this].event = e
      /\ \A i \in DOMAIN seen[b] : With(b, e)[i] = seen[b][i]
  BY TellingFacts
<1> HIDE DEF this
<1>2. KeepsOnlyTold(boxes[b], With(b, e))
  BY <1>1, <1>0 DEF KeepsOnlyTold
<1>3. KeepsTheWindow(boxes[b], With(b, e))
  BY <1>1, <1>0 DEF KeepsTheWindow
<1>4. CrashLoop(With(b, e)) <=> CrashLoop(seen[b])
  <2>1. seen[b] \in Seq(Telling) /\ now \in Time
    BY BoxFacts DEF TypeOK
  <2>2. With(b, e) = Append(seen[b], [at |-> now, event |-> e])
    BY DEF With
  <2>3. QED
    BY <2>1, <2>2, OneTellingMore
<1>5. QED
  BY <1>1, <1>2, <1>3, <1>4 DEF Remembers

\* A failure that is looked at is remembered, and trips exactly when it closes a loop.
LEMMA FailureRemembers ==
    ASSUME TypeOK, NEW b \in DOMAIN boxes, Remembers(boxes[b], seen[b]), NEW e \in Event, Genuine(e),
           NEW box, box.recent = Recent(b, e), QueuesFailures(box),
           box.quarantined <=> boxes[b].quarantined \/ Trips(b, e)
    PROVE  Remembers(box, With(b, e))
<1>1. KeepsOnlyTold(box, With(b, e)) /\ KeepsTheWindow(box, With(b, e))
  BY RecentRemembers
<1>2. boxes[b].quarantined <=> CrashLoop(seen[b])
  BY DEF Remembers
<1>3. Trips(b, e) <=> /\ ~boxes[b].quarantined
                      /\ Cardinality(Repeats(With(b, e), Heard(b) + 1)) >= Threshold
  BY CountsRepeats DEF Trips
<1>4. CrashLoop(With(b, e)) <=>
          CrashLoop(seen[b]) \/ Cardinality(Repeats(With(b, e), Heard(b) + 1)) >= Threshold
  <2>1. seen[b] \in Seq(Telling) /\ now \in Time
    BY BoxFacts DEF TypeOK
  <2>2. With(b, e) = Append(seen[b], [at |-> now, event |-> e])
    BY DEF With
  <2>3. QED
    BY <2>1, <2>2, OneTellingMore DEF Heard
<1>5. box.quarantined <=> CrashLoop(With(b, e))
  BY <1>2, <1>3, <1>4
<1>6. QED
  BY <1>1, <1>5 DEF Remembers

LEMMA QueuedRemembers ==
    ASSUME TypeOK, NEW b \in DOMAIN boxes, Remembers(boxes[b], seen[b]), NEW e \in Event, Genuine(e)
    PROVE  Remembers(Queued(b, e), seen[b])
<1>1. /\ Queued(b, e).queue = Append(boxes[b].queue, e) /\ Queued(b, e).recent = boxes[b].recent
      /\ Queued(b, e).quarantined = boxes[b].quarantined
  BY QueuedFacts
<1>2. KeepsOnlyTold(Queued(b, e), seen[b])
  BY <1>1 DEF Remembers, KeepsOnlyTold
<1>3. KeepsTheWindow(Queued(b, e), seen[b])
  BY <1>1 DEF Remembers, KeepsTheWindow
<1>4. QueuesFailures(Queued(b, e))
  <2>1. boxes[b].queue \in Seq(Event)
    BY BoxFacts
  <2>2. \A i \in DOMAIN boxes[b].queue : Genuine(boxes[b].queue[i])
    BY DEF Remembers, QueuesFailures
  <2>3. \A i \in DOMAIN Append(boxes[b].queue, e) : Genuine(Append(boxes[b].queue, e)[i])
    BY <2>1, <2>2
  <2>4. QED
    BY <1>1, <2>3 DEF QueuesFailures
<1>5. QED
  BY <1>1, <1>2, <1>3, <1>4 DEF Remembers

LEMMA RecordedRemembers ==
    ASSUME TypeOK, NEW b \in DOMAIN boxes, Remembers(boxes[b], seen[b]), boxes[b].queue # <<>>,
           Next0(b) \in Event, Heard(b) < MaxFailures
    PROVE  Remembers(Recorded(b, Next0(b)), With(b, Next0(b)))
<1>1. /\ Recorded(b, Next0(b)).queue = Tail(boxes[b].queue)
      /\ Recorded(b, Next0(b)).recent = Recent(b, Next0(b))
      /\ Recorded(b, Next0(b)).quarantined <=> boxes[b].quarantined \/ Trips(b, Next0(b))
  BY RecordedFacts
<1>2. boxes[b].queue \in Seq(Event)
  BY BoxFacts
<1>3. \A i \in DOMAIN boxes[b].queue : Genuine(boxes[b].queue[i])
  BY DEF Remembers, QueuesFailures
<1>4. Genuine(Next0(b))
  BY <1>2, <1>3 DEF Next0
<1>5. \A i \in DOMAIN Tail(boxes[b].queue) : Genuine(Tail(boxes[b].queue)[i])
  BY <1>2, <1>3
<1>6. QueuesFailures(Recorded(b, Next0(b)))
  BY <1>1, <1>5 DEF QueuesFailures
<1>7. QED
  BY <1>1, <1>4, <1>6, FailureRemembers

LEMMA ObservedRemembers ==
    ASSUME TypeOK, NEW b \in DOMAIN boxes, Remembers(boxes[b], seen[b]),
           NEW e \in Event, e.type = "exit", Heard(b) < MaxFailures
    PROVE  Remembers(Observed(b, e), With(b, e))
<1>1. /\ Observed(b, e).queue = boxes[b].queue
      /\ Observed(b, e).recent = Recent(b, e)
      /\ Observed(b, e).quarantined <=> boxes[b].quarantined \/ Trips(b, e)
  BY ObservedFacts
<1>2. QueuesFailures(Observed(b, e))
  BY <1>1 DEF Remembers, QueuesFailures
<1>3. Genuine(e)
  BY DEF Genuine
<1>4. QED
  BY <1>1, <1>2, <1>3, FailureRemembers

\* A registration that was told nothing has nothing to remember.
LEMMA NothingToRemember ==
    ASSUME NEW box, box.recent = <<>>, box.quarantined = FALSE, QueuesFailures(box)
    PROVE  Remembers(box, <<>>)
<1>1. KeepsOnlyTold(box, <<>>) /\ KeepsTheWindow(box, <<>>)
  BY DEF KeepsOnlyTold, KeepsTheWindow
<1>2. ~CrashLoop(<<>>)
  BY DEF CrashLoop
<1>3. QED
  BY <1>1, <1>2 DEF Remembers

LEMMA RegisterMemory ==
    ASSUME TypeOK, Memory, Register
    PROVE  Memory'
<1>1. PICK n : n = Len(boxes) + 1
  OBVIOUS
<1>2. /\ DOMAIN boxes' = DOMAIN boxes \cup {n}
      /\ boxes'[n] = NewBox /\ seen'[n] = <<>>
      /\ \A b \in DOMAIN boxes : boxes'[b] = boxes[b] /\ seen'[b] = seen[b]
  BY <1>1, RegisterStep
<1>3. now' = now
  BY DEF Register
<1>4. Remembers(boxes'[n], seen'[n])
  <2>1. QueuesFailures(NewBox)
    BY EmptyBox DEF QueuesFailures
  <2>2. Remembers(NewBox, <<>>)
    BY <2>1, EmptyBox, NothingToRemember
  <2>3. QED
    BY <1>2, <2>2
<1>5. \A c \in DOMAIN boxes' : Remembers(boxes'[c], seen'[c])
  BY <1>2, <1>4 DEF Memory
<1>6. ASSUME NEW c \in DOMAIN boxes'
      PROVE  Remembers(boxes[c], seen[c])'
  <2>1. Remembers(boxes'[c], seen'[c])
    BY <1>5
  <2>2. KeepsOnlyTold(boxes[c], seen[c])'
    BY <2>1 DEF Remembers, KeepsOnlyTold
  <2>3. KeepsTheWindow(boxes[c], seen[c])'
    BY <2>1, <1>3 DEF Remembers, KeepsTheWindow, InWindow
  <2>4. QueuesFailures(boxes[c])' /\ (boxes[c].quarantined <=> CrashLoop(seen[c]))'
    BY <2>1 DEF Remembers, QueuesFailures
  <2>5. QED
    BY <2>2, <2>3, <2>4 DEF Remembers
<1>7. QED
  BY <1>6 DEF Memory

\* As time passes the window only leaves failures behind.
LEMMA TickMemory ==
    ASSUME TypeOK, Memory, Tick
    PROVE  Memory'
<1>1. UNCHANGED <<boxes, seen>> /\ now' = now + 1 /\ now \in Nat /\ Window \in Nat
  BY CrashDetectorAssumption DEF Tick, TypeOK, Time
<1>2. ASSUME NEW c \in DOMAIN boxes
      PROVE  Remembers(boxes[c], seen[c])'
  <2>1. Remembers(boxes[c], seen[c])
    BY DEF Memory
  <2>2. KeepsOnlyTold(boxes[c], seen[c])'
    BY <2>1, <1>1 DEF Remembers, KeepsOnlyTold
  <2>3. ASSUME NEW i \in DOMAIN seen[c], seen[c][i].at + Window >= now'
        PROVE  InWindow(seen[c][i])
    <3>1. seen[c] \in Seq(Telling)
      BY BoxFacts
    <3>2. seen[c][i].at \in Nat
      <4>1. seen[c][i] \in Telling
        BY <3>1, <2>3
      <4>2. QED
        BY <4>1, CrashDetectorAssumption DEF Telling, Time
    <3>3. QED
      BY <3>2, <2>3, <1>1 DEF InWindow
  <2>4. KeepsTheWindow(boxes[c], seen[c])'
    BY <2>1, <2>3, <1>1 DEF Remembers, KeepsTheWindow, InWindow
  <2>5. QueuesFailures(boxes[c])' /\ (boxes[c].quarantined <=> CrashLoop(seen[c]))'
    BY <2>1, <1>1 DEF Remembers, QueuesFailures
  <2>6. QED
    BY <2>2, <2>4, <2>5 DEF Remembers
<1>3. QED
  BY <1>1, <1>2 DEF Memory

LEMMA AsideMemory ==
    ASSUME Memory, UNCHANGED <<boxes, seen, now>>
    PROVE  Memory'
<1>1. ASSUME NEW c \in DOMAIN boxes
      PROVE  Remembers(boxes[c], seen[c])'
  <2>1. Remembers(boxes[c], seen[c])
    BY DEF Memory
  <2>2. KeepsOnlyTold(boxes[c], seen[c])'
    BY <2>1 DEF Remembers, KeepsOnlyTold
  <2>3. KeepsTheWindow(boxes[c], seen[c])'
    BY <2>1 DEF Remembers, KeepsTheWindow, InWindow
  <2>4. QueuesFailures(boxes[c])' /\ (boxes[c].quarantined <=> CrashLoop(seen[c]))'
    BY <2>1 DEF Remembers, QueuesFailures
  <2>5. QED
    BY <2>2, <2>3, <2>4 DEF Remembers
<1>2. QED
  BY <1>1 DEF Memory

LEMMA MemoryStep ==
    ASSUME TypeOK, Memory, [Next]_vars
    PROVE  Memory'
<1>1. CASE Register
  BY <1>1, RegisterMemory
<1>2. CASE Unregister
  BY <1>2, AsideMemory DEF Unregister
<1>3. CASE Clear
  <2>1. current \in DOMAIN boxes /\ Changes(current, Cleared(current), <<>>)
    BY <1>3, ClearStep
  <2>2. /\ Cleared(current) \in Box /\ Cleared(current).queue = boxes[current].queue
        /\ Cleared(current).recent = <<>> /\ Cleared(current).quarantined = FALSE
    BY <2>1, ClearedFacts
  <2>3. QueuesFailures(Cleared(current))
    BY <2>1, <2>2 DEF Memory, Remembers, QueuesFailures
  <2>4. Remembers(Cleared(current), <<>>)
    BY <2>2, <2>3, NothingToRemember
  <2>5. <<>> \in Seq(Telling)
    OBVIOUS
  <2>6. QED
    BY <2>1, <2>2, <2>4, <2>5, ChangedMemory
<1>4. CASE Tick
  BY <1>4, TickMemory
<1>5. ASSUME NEW e \in Event, HandleEvent(e) PROVE Memory'
  <2>1. current \in DOMAIN boxes
    BY <1>5, HandleEventStep
  <2>2. /\ boxes[current] \in Box /\ seen[current] \in Seq(Telling)
        /\ Remembers(boxes[current], seen[current])
    BY <2>1, BoxFacts DEF Memory
  <2>3. CASE Signature(e) = NoFailure /\ Changes(current, boxes[current], With(current, e))
    <3>1. ~Genuine(e)
      BY <2>3, GenuineHasSignature
    <3>2. Remembers(boxes[current], With(current, e)) /\ With(current, e) \in Seq(Telling)
      BY <2>1, <2>2, <3>1, AsideRemembers, WithFacts
    <3>3. QED
      BY <2>1, <2>2, <2>3, <3>2, ChangedMemory
  <2>4. CASE Signature(e) # NoFailure /\ Changes(current, Queued(current, e), seen[current])
    <3>1. Genuine(e)
      BY <2>4, GenuineHasSignature
    <3>2. Remembers(Queued(current, e), seen[current]) /\ Queued(current, e) \in Box
      BY <2>1, <2>2, <3>1, QueuedRemembers, QueuedFacts
    <3>3. QED
      BY <2>1, <2>2, <2>4, <3>2, ChangedMemory
  <2>5. QED
    BY <1>5, <2>3, <2>4, HandleEventStep
<1>6. ASSUME NEW e \in Event, ObserveExit(e) PROVE Memory'
  <2>1. /\ current \in DOMAIN boxes /\ Heard(current) < MaxFailures /\ e.type = "exit"
        /\ Changes(current, Observed(current, e), With(current, e))
    BY <1>6, ObserveExitStep
  <2>2. Remembers(boxes[current], seen[current])
    BY <2>1 DEF Memory
  <2>3. Observed(current, e) \in Box /\ With(current, e) \in Seq(Telling)
    BY <2>1, ObservedFacts, WithFacts
  <2>4. Remembers(Observed(current, e), With(current, e))
    BY <2>1, <2>2, ObservedRemembers
  <2>5. QED
    BY <2>1, <2>3, <2>4, ChangedMemory
<1>7. ASSUME NEW b \in DOMAIN boxes, Record(b) PROVE Memory'
  <2>1. /\ boxes[b].queue # <<>> /\ Next0(b) \in Event /\ Heard(b) < MaxFailures
        /\ Changes(b, Recorded(b, Next0(b)), With(b, Next0(b)))
    BY <1>7, RecordStep
  <2>2. Remembers(boxes[b], seen[b])
    BY DEF Memory
  <2>3. Recorded(b, Next0(b)) \in Box /\ With(b, Next0(b)) \in Seq(Telling)
    BY <2>1, RecordedFacts, WithFacts
  <2>4. Remembers(Recorded(b, Next0(b)), With(b, Next0(b)))
    BY <2>1, <2>2, RecordedRemembers
  <2>5. QED
    BY <2>1, <2>3, <2>4, ChangedMemory
<1>8. ASSUME NEW b \in DOMAIN boxes, QuarantineEnds(b) PROVE Memory'
  <2>1. Changes(b, Ended(b), seen[b])
    BY <1>8, QuarantineEndsStep
  <2>2. /\ Ended(b) \in Box /\ Ended(b).queue = boxes[b].queue /\ seen[b] \in Seq(Telling)
        /\ Ended(b).recent = boxes[b].recent /\ Ended(b).quarantined = boxes[b].quarantined
    BY ClearedFacts, BoxFacts
  <2>3. Remembers(Ended(b), seen[b])
    BY <2>2 DEF Memory, Remembers, KeepsOnlyTold, KeepsTheWindow, QueuesFailures
  <2>4. QED
    BY <2>1, <2>2, <2>3, ChangedMemory
<1>9. CASE UNCHANGED vars
  BY <1>9, AsideMemory DEF vars
<1>10. QED
  BY <1>1, <1>2, <1>3, <1>4, <1>5, <1>6, <1>7, <1>8, <1>9 DEF Next

LEMMA InitMemory == Init => Memory
<1> SUFFICES ASSUME Init PROVE Memory
  OBVIOUS
<1>1. DOMAIN boxes = {1} /\ boxes[1] = NewBox /\ seen[1] = <<>>
  BY DEF Init
<1>2. QueuesFailures(NewBox)
  BY EmptyBox DEF QueuesFailures
<1>3. Remembers(NewBox, <<>>)
  BY <1>2, EmptyBox, NothingToRemember
<1>4. QED
  BY <1>1, <1>3 DEF Memory

THEOREM MemoryInvariant == Spec => []Memory
<1>1. Init => Memory
  BY InitMemory
<1>2. TypeOK /\ Memory /\ [Next]_vars => Memory'
  BY MemoryStep
<1>3. Spec => []TypeOK
  BY TypeCorrect
<1>4. QED
  BY <1>1, <1>2, <1>3, PTL DEF Spec

\* A registration is quarantined exactly when what it was told has the same genuine failure
\* Threshold times within one window: the list that is trimmed as failures come in finds every such
\* loop, whatever waits in the queue and whatever goes past it (crash.ts).
THEOREM TripsTheorem == Spec => []TripsOnALoop
<1>1. Memory => TripsOnALoop
  BY DEF Memory, Remembers, TripsOnALoop
<1>2. QED
  BY <1>1, MemoryInvariant, PTL

===============================================================================
