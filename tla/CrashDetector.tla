----------------------------- MODULE CrashDetector -----------------------------
(***************************************************************************)
(* The crash detector for one service: governor/crash.ts, driven by the    *)
(* supervisor's onServiceEvent, finalizeExit, quarantine, unquarantine and *)
(* reload (wirePolicies, deregister).                                      *)
(*                                                                         *)
(* Every registration is a Tracked of its own, which its queue goes on     *)
(* using after it was replaced; `boxes` has all there were, `current` is   *)
(* the one in the map.                                                     *)
(***************************************************************************)
EXTENDS Naturals, FiniteSets, Sequences

CONSTANTS
    Threshold,  \* quarantine.same_failure_threshold
    Window,     \* quarantine.window_seconds
    Tools,      \* tools, whose failures are told apart; extensions and exits likewise
    Signals,    \* ways in which pi exits that are failures
    LastTime,   \* bound: the clock
    MaxFailures, \* bound: events and exits
    MaxBoxes    \* bound: registrations

ASSUME CrashDetectorAssumption ==
    /\ Threshold \in Nat \ {0} /\ Window \in Nat
    /\ LastTime \in Nat /\ MaxFailures \in Nat /\ MaxBoxes \in Nat \ {0}

VARIABLES
    now,        \* the clock
    boxes,      \* the Tracked records
    current,    \* the one that is registered, 0 for none
    happened,   \* events and exits so far
    seen        \* history: of each box, what it was told since it was last cleared, and when

vars == <<now, boxes, current, happened, seen>>

Time == 0..LastTime

\* What pi reports, as far as it is looked at: stop is the reason of the last assistant message.
Event ==
    [type : {"tool_execution_end"}, tool : Tools, isError : BOOLEAN]
    \cup [type : {"extension_error"}]
    \cup [type : {"agent_end"}, willRetry : BOOLEAN, stop : {"error", "aborted", "stop"}]
    \cup [type : {"exit"}, how : Signals]

NoFailure == <<"none">>

\* Mutant: pi's own retries are counted.
CountsRetries(e) ==
    CASE e.type = "tool_execution_end" -> IF e.isError THEN <<"tool", e.tool>> ELSE NoFailure
      [] e.type = "extension_error"    -> <<"ext">>
      [] e.type = "agent_end"          -> IF e.stop = "error" THEN <<"agent">> ELSE NoFailure
      [] e.type = "exit"               -> <<"proc", e.how>>

\* deriveSignature(), lastAssistantStopReason(); procExitSignature() of an exit.
Signature(e) ==
    CASE e.type = "tool_execution_end" -> IF e.isError THEN <<"tool", e.tool>> ELSE NoFailure
      [] e.type = "extension_error"    -> <<"ext">>
      [] e.type = "agent_end"          -> IF ~e.willRetry /\ e.stop = "error" THEN <<"agent">>
                                          ELSE NoFailure
      [] e.type = "exit"               -> <<"proc", e.how>>

Failure == [at : Time, signature : {Signature(e) : e \in Event}]

\* recent: the failures that are kept, each under the number it came with since the last clear();
\* queue: the events whose record() has not run; busy: the action of the last one,
\* actions.quarantine(), has not ended.
Box == [recent : UNION {[kept -> Failure] : kept \in SUBSET (1..MaxFailures)}, quarantined : BOOLEAN,
        queue : Seq(Event), busy : BOOLEAN]

Telling == [at : Time, event : Event]

NewBox == [recent |-> <<>>, quarantined |-> FALSE, queue |-> <<>>, busy |-> FALSE]

Happens ==
    /\ happened < MaxFailures
    /\ happened' = happened + 1

Told(b, e) == seen' = [seen EXCEPT ![b] = Append(@, [at |-> now, event |-> e])]

-----------------------------------------------------------------------------
\* register(), of a new definition or of a changed one.
Register ==
    /\ Len(boxes) < MaxBoxes
    /\ boxes' = Append(boxes, NewBox) /\ current' = Len(boxes) + 1
    /\ seen' = Append(seen, <<>>)
    /\ UNCHANGED <<now, happened>>

\* unregister()
Unregister ==
    /\ current # 0
    /\ current' = 0
    /\ UNCHANGED <<now, boxes, happened, seen>>

\* handleEvent(): a failure is queued, anything else is not looked at again.
HandleEvent(e) ==
    /\ current # 0 /\ e.type # "exit" /\ Happens
    /\ IF Signature(e) = NoFailure
       THEN Told(current, e) /\ UNCHANGED boxes
       ELSE boxes' = [boxes EXCEPT ![current].queue = Append(@, e)] /\ UNCHANGED seen
    /\ UNCHANGED <<now, current>>

InWindow(failure) == failure.at + Window >= now

\* Mutant: the list is not trimmed.
RecentUntrimmed(b, e) ==
    LET this == Len(seen[b]) + 1
    IN  [i \in DOMAIN boxes[b].recent \cup {this} |->
            IF i = this THEN [at |-> now, signature |-> Signature(e)] ELSE boxes[b].recent[i]]

\* The failures in the window, with this one.
Recent(b, e) ==
    LET this == Len(seen[b]) + 1
        kept == {i \in DOMAIN boxes[b].recent : InWindow(boxes[b].recent[i])}
    IN  [i \in kept \cup {this} |-> IF i = this THEN [at |-> now, signature |-> Signature(e)]
                                   ELSE boxes[b].recent[i]]

Count(recent, signature) ==
    Cardinality({i \in DOMAIN recent : recent[i].signature = signature})

Trips(b, e) ==
    ~boxes[b].quarantined /\ Count(Recent(b, e), Signature(e)) >= Threshold

\* record(): the next of the queue; what is behind it waits for the quarantine it asks for.
Record(b) ==
    LET e == Head(boxes[b].queue)
    IN  /\ boxes[b].queue # <<>> /\ ~boxes[b].busy
        /\ boxes' = [boxes EXCEPT ![b] = [recent |-> Recent(b, e),
                                          quarantined |-> @.quarantined \/ Trips(b, e),
                                          queue |-> Tail(@.queue), busy |-> Trips(b, e)]]
        /\ Told(b, e)
        /\ UNCHANGED <<now, current, happened>>

\* actions.quarantine() returned, or threw: both end the wait, and neither changes the Tracked.
QuarantineEnds(b) ==
    /\ boxes[b].busy
    /\ boxes' = [boxes EXCEPT ![b].busy = FALSE]
    /\ UNCHANGED <<now, current, happened, seen>>

\* observeExit(): recorded at once, past the queue.
ObserveExit(e) ==
    /\ current # 0 /\ e.type = "exit" /\ Happens
    /\ boxes' = [boxes EXCEPT ![current].recent = Recent(current, e),
                              ![current].quarantined = @ \/ Trips(current, e)]
    /\ Told(current, e)
    /\ UNCHANGED <<now, current>>

\* Mutant: the failures are kept.
ClearKeepsFailures ==
    /\ current # 0
    /\ boxes' = [boxes EXCEPT ![current].quarantined = FALSE]
    /\ seen' = [seen EXCEPT ![current] = <<>>]
    /\ UNCHANGED <<now, current, happened>>

\* clear(), of `pid unquarantine`: what is queued stays queued.
Clear ==
    /\ current # 0
    /\ boxes' = [boxes EXCEPT ![current].recent = <<>>, ![current].quarantined = FALSE]
    /\ seen' = [seen EXCEPT ![current] = <<>>]
    /\ UNCHANGED <<now, current, happened>>

Tick ==
    /\ now < LastTime /\ now' = now + 1
    /\ UNCHANGED <<boxes, current, happened, seen>>

Init ==
    /\ now = 0 /\ happened = 0
    /\ boxes = <<NewBox>> /\ current = 1 /\ seen = <<<<>>>>

Next ==
    \/ Register \/ Unregister \/ Clear \/ Tick
    \/ \E e \in Event : HandleEvent(e) \/ ObserveExit(e)
    \/ \E b \in DOMAIN boxes : Record(b) \/ QuarantineEnds(b)

Spec == Init /\ [][Next]_vars

-----------------------------------------------------------------------------
(* Safety. *)

\* Every variable has its type, and a registration was told, or will be, no more than what happened.
TypeOK ==
    /\ now \in Time /\ happened \in 0..MaxFailures
    /\ boxes \in Seq(Box) /\ Len(boxes) \in 1..MaxBoxes
    /\ current \in 0..Len(boxes)
    /\ seen \in Seq(Seq(Telling)) /\ Len(seen) = Len(boxes)
    /\ \A b \in DOMAIN boxes : Len(seen[b]) + Len(boxes[b].queue) <= happened

\* A failure that a human would count: not an intervention of pid's own, which aborts the turn,
\* nor an error that pi goes on to retry.
Genuine(e) ==
    \/ e.type = "tool_execution_end" /\ e.isError
    \/ e.type = "agent_end" /\ ~e.willRetry /\ e.stop \notin {"aborted", "stop"}
    \/ e.type \in {"extension_error", "exit"}

\* The failures like the i-th, up to it, of one window.
Repeats(told, i) ==
    {j \in 1..i : told[j].event = told[i].event /\ told[j].at + Window >= told[i].at}

CrashLoop(told) ==
    \E i \in DOMAIN told : Genuine(told[i].event) /\ Cardinality(Repeats(told, i)) >= Threshold

\* A service is quarantined if and only if, since it was registered or released, the same genuine
\* failure occurred Threshold times within one window: the sliding list of the detector, trimmed as
\* failures come in, from the queue and past it, finds every such loop and no other (crash.ts).
TripsOnALoop == \A b \in DOMAIN boxes : boxes[b].quarantined <=> CrashLoop(seen[b])
================================================================================
