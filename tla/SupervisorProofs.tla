--------------------------- MODULE SupervisorProofs ---------------------------
(***************************************************************************)
(* Theorems about Supervisor, for every number of calls and processes and  *)
(* every value of the policy constants.                                    *)
(***************************************************************************)
EXTENDS Supervisor, FiniteSetTheorems, TLAPS

-----------------------------------------------------------------------------
(* What the shared parts of the actions do to the types. *)

\* The variables a call's suspension, resumption or return assigns.
CallsTyped ==
    /\ op' \in [Calls -> Ops]
    /\ pc' \in [Calls -> PCs]
    /\ target' \in [Calls -> Children \cup {NoChild}]
    /\ reply' \in [Calls -> ServiceStates \cup {"none"}]

\* A call that suspends, goes on or returns keeps the call table well-typed.
LEMMA SuspendTyped ==
    ASSUME TypeOK, NEW k \in Calls, NEW o \in Ops, NEW p \in PCs,
           NEW c \in Children \cup {NoChild}, Suspend(k, o, p, c)
    PROVE  CallsTyped
BY DEF TypeOK, Suspend, CallsTyped

\* Going on within an operation keeps the call table well-typed.
LEMMA ReachTyped ==
    ASSUME TypeOK, NEW k \in Calls, NEW p \in PCs, Reach(k, p)
    PROVE  CallsTyped
BY DEF TypeOK, Reach, CallsTyped

\* Returning keeps the call table well-typed.
LEMMA ReturnTyped ==
    ASSUME TypeOK, NEW k \in Calls, Return(k)
    PROVE  CallsTyped
BY DEF TypeOK, Return, CallsTyped, Ops, PCs

\* Waking the calls that wait on an exit keeps the call table well-typed.
LEMMA WakeTyped ==
    ASSUME TypeOK, NEW c, NEW w, NEW s \in ServiceStates \cup {"none"}, Wake(c, w, s)
    PROVE  CallsTyped
BY DEF TypeOK, Wake, CallsTyped, PCs

\* The variables start() assigns up to its first await.
StartTyped ==
    /\ state' \in ServiceStates
    /\ jobMode' \in BOOLEAN
    /\ waiter' \in Calls \cup {NoCall}
    /\ daemon' \in {"up", "shuttingDown", "exited", "crashed"}
    /\ CallsTyped

\* A rejected start() leaves what start() assigns well-typed.
LEMMA StartThrowsTyped ==
    ASSUME TypeOK, NEW k \in Calls, NEW o, StartThrows(k, o), state' \in ServiceStates
    PROVE  StartTyped
<1>1. CallsTyped
  BY ReturnTyped DEF StartThrows
<1>2. QED
  BY <1>1 DEF TypeOK, StartThrows, StartTyped

\* start() up to its first await leaves what it assigns well-typed.
LEMMA EnterStartTyped ==
    ASSUME TypeOK, NEW k \in Calls, NEW o \in Ops, NEW from \in ServiceStates,
           EnterStart(k, o, from)
    PROVE  StartTyped
<1>1. CASE StartAccepted(from)
  <2>1. Suspend(k, o, "opening", NoChild)
    BY <1>1 DEF EnterStart
  <2>2. CallsTyped
    BY <2>1, SuspendTyped DEF PCs
  <2>3. QED
    BY <1>1, <2>2 DEF EnterStart, StartTyped, TypeOK, ServiceStates
<1>2. CASE ~StartAccepted(from)
  BY <1>2, StartThrowsTyped DEF EnterStart
<1>3. QED
  BY <1>1, <1>2

\* The variables stop() assigns up to its first await.
StopTyped ==
    /\ state' \in ServiceStates
    /\ proc' \in [Children -> ProcStates]
    /\ running' \in Children \cup {NoChild}
    /\ everStarted' \in BOOLEAN
    /\ started' \in BOOLEAN /\ consecutive' \in 0 .. MaxConsecutive /\ armed' \in BOOLEAN
    /\ govPaused' \in BOOLEAN
    /\ resumeArmed' \in BOOLEAN
    /\ CallsTyped

\* stop() up to its first await leaves what it assigns well-typed.
LEMMA BeginStopTyped ==
    ASSUME TypeOK, NEW k \in Calls, NEW o \in Ops, BeginStop(k, o)
    PROVE  StopTyped
<1>1. 0 \in 0 .. MaxConsecutive
  BY ConstantsAssumption
<1>2. CallsTyped
  <2>1. CASE running = NoChild
    BY <2>1, SuspendTyped DEF BeginStop, PCs
  <2>2. CASE running # NoChild
    BY <2>2, SuspendTyped DEF BeginStop, PCs, ExitWaits, TypeOK
  <2>3. QED
    BY <2>1, <2>2
<1>3. QED
  BY <1>1, <1>2 DEF BeginStop, TypeOK, StopTyped, ServiceStates, ProcStates

\* The variables finalizeExit() assigns before its policies.
ExitTyped ==
    /\ state' \in ServiceStates
    /\ running' \in Children \cup {NoChild}
    /\ proc' \in [Children -> ProcStates]
    /\ everStarted' \in BOOLEAN
    /\ jobMode' \in BOOLEAN
    /\ waiter' \in Calls \cup {NoCall}
    /\ charging' \in BOOLEAN /\ govPaused' \in BOOLEAN /\ resumeArmed' \in BOOLEAN
    /\ daemon' \in {"up", "shuttingDown", "exited", "crashed"}
    /\ CallsTyped

\* finalizeExit() leaves what it assigns, its policies apart, well-typed.
LEMMA FinalizeExitTyped ==
    ASSUME TypeOK, NEW c, NEW s \in ServiceStates, FinalizeExit(c, s)
    PROVE  ExitTyped
<1>1. CallsTyped
  BY WakeTyped DEF FinalizeExit
<1>2. QED
  BY <1>1 DEF FinalizeExit, ExitTyped, TypeOK, governor, ProcStates

\* The variables the relauncher and the crash detector own.
PoliciesTyped ==
    /\ started' \in BOOLEAN /\ consecutive' \in 0 .. MaxConsecutive /\ armed' \in BOOLEAN
    /\ failures' \in 0 .. Threshold /\ tripped' \in BOOLEAN /\ held' \in BOOLEAN

\* The counted failures stay within the threshold.
LEMMA CappedTyped ==
    ASSUME NEW n \in 1 .. (Threshold + 1)
    PROVE  Capped(n) \in 0 .. Threshold
BY ConstantsAssumption DEF Capped

\* The flap counter an exit decides on is within its cap.
LEMMA FlapsTyped ==
    ASSUME TypeOK, NEW outlived
    PROVE  Flaps(outlived) \in 0 .. MaxConsecutive
BY ConstantsAssumption DEF TypeOK, Flaps

\* The state an unexpected exit leaves is a service state.
LEMMA ExitStateTyped ==
    ASSUME NEW failed PROVE ExitState(failed) \in ServiceStates
BY DEF ExitState, ServiceStates

\* An exit the crash detector lets pass keeps its own variables well-typed.
LEMMA PassedExitTyped ==
    ASSUME TypeOK, NEW c, NEW failed \in BOOLEAN, PassedExit(c, failed)
    PROVE  /\ ExitTyped
           /\ failures' \in 0 .. Threshold /\ tripped' \in BOOLEAN /\ held' \in BOOLEAN
<1>1. ExitTyped
  BY ExitStateTyped, FinalizeExitTyped DEF PassedExit
<1>2. failures' \in 0 .. Threshold
  BY CappedTyped DEF PassedExit, TypeOK
<1>3. QED
  BY <1>1, <1>2 DEF PassedExit, TypeOK

\* An exit event leaves the types intact, whichever of its outcomes occurs.
LEMMA ChildExitsTyped ==
    ASSUME TypeOK, NEW c \in Children, ChildExits(c)
    PROVE  TypeOK'
<1>0. 0 \in 0 .. MaxConsecutive
  BY ConstantsAssumption
<1>1. SUFFICES ASSUME ExitTyped, PoliciesTyped PROVE TypeOK'
  <2>1. CASE StaleExit(c)
    <3>1. CallsTyped
      BY <2>1, WakeTyped DEF StaleExit
    <3>2. QED
      BY <2>1, <3>1 DEF StaleExit, ExitTyped, PoliciesTyped, TypeOK, ProcStates,
                        jobs, relauncher, crash, governor
  <2>2. CASE DeliberateExit(c)
    BY <1>0, <2>2, FinalizeExitTyped
       DEF DeliberateExit, CancelRelaunch, crash, PoliciesTyped, TypeOK, ServiceStates
  <2>3. CASE QuarantiningExit(c)
    BY <1>0, <2>3, FinalizeExitTyped, CappedTyped
       DEF QuarantiningExit, CancelRelaunch, PoliciesTyped, ServiceStates
  <2>4. ASSUME NEW failed \in BOOLEAN, IneligibleExit(c, failed)
        PROVE  ExitTyped /\ PoliciesTyped
    BY <2>4, FinalizeExitTyped, ExitStateTyped
       DEF IneligibleExit, relauncher, crash, PoliciesTyped, TypeOK
  <2>5. ASSUME NEW failed \in BOOLEAN, NEW outlived \in BOOLEAN, DeclinedExit(c, failed, outlived)
        PROVE  ExitTyped /\ PoliciesTyped
    BY <2>5, PassedExitTyped, FlapsTyped DEF DeclinedExit, PoliciesTyped, TypeOK
  <2>6. ASSUME NEW failed \in BOOLEAN, NEW outlived \in BOOLEAN, RelaunchedExit(c, failed, outlived)
        PROVE  ExitTyped /\ PoliciesTyped
    <3>1. Flaps(outlived) + 1 \in 0 .. MaxConsecutive
      BY <2>6, FlapsTyped, ConstantsAssumption DEF RelaunchedExit
    <3>2. QED
      BY <2>6, <3>1, PassedExitTyped DEF RelaunchedExit, PoliciesTyped, TypeOK
  <2>7. ASSUME NEW failed \in BOOLEAN, NEW outlived \in BOOLEAN, GivenUpExit(c, failed, outlived)
        PROVE  ExitTyped /\ PoliciesTyped
    BY <1>0, <2>7, PassedExitTyped DEF GivenUpExit, PoliciesTyped, TypeOK
  <2>8. QED
    BY <2>1, <2>2, <2>3, <2>4, <2>5, <2>6, <2>7 DEF ChildExits
<1>2. QED
  BY <1>1 DEF ExitTyped, PoliciesTyped, CallsTyped, TypeOK

-----------------------------------------------------------------------------
(* Type correctness. *)

\* One step preserves the types: start() and the actions that call it, stop() and
\* the actions that call it, then the actions that only touch a call.
LEMMA TypeOKStep == TypeOK /\ [Next]_vars => TypeOK'
<1> SUFFICES ASSUME TypeOK, [Next]_vars PROVE TypeOK'
  OBVIOUS
<1> USE DEF jobs, relauncher, crash, governor, calls, lifecycle
<1>a. ASSUME StartTyped,
             UNCHANGED <<running, proc, everStarted, relauncher, crash, charging>>,
             govPaused' \in BOOLEAN, resumeArmed' \in BOOLEAN
      PROVE  TypeOK'
  BY <1>a DEF TypeOK, StartTyped, CallsTyped
<1>b. ASSUME StopTyped, UNCHANGED <<jobs, held, daemon>>,
             failures' \in 0 .. Threshold, tripped' \in BOOLEAN, charging' \in BOOLEAN
      PROVE  TypeOK'
  BY <1>b DEF TypeOK, StopTyped, CallsTyped
<1>1. ASSUME NEW k \in Calls, Continuation(k) PROVE TypeOK'
  <2>1. CASE StopReturns(k)
    BY <2>1, ReturnTyped DEF StopReturns, TypeOK, CallsTyped
  <2>2. CASE RestartContinues(k)
    <3>1. StartTyped
      BY <2>2, EnterStartTyped DEF RestartContinues, TypeOK, Ops
    <3>2. QED
      BY <1>a, <2>2, <3>1 DEF RestartContinues, TypeOK
  <2>3. CASE PauseContinues(k)
    BY <2>3, ReturnTyped DEF PauseContinues, TypeOK, CallsTyped, ServiceStates
  <2>4. CASE QuarantineContinues(k)
    BY <2>4, ReturnTyped DEF QuarantineContinues, TypeOK, CallsTyped, ServiceStates
  <2>5. CASE ShutdownContinues(k)
    BY <2>5, ReturnTyped DEF ShutdownContinues, TypeOK, CallsTyped
  <2>6. QED
    BY <1>1, <2>1, <2>2, <2>3, <2>4, <2>5 DEF Continuation
<1>2. ASSUME NEW k \in Calls, IOCompletes(k) PROVE TypeOK'
  <2>1. CASE LogOpened(k)
    <3>1. PICK c \in Children : Suspend(k, op[k], "settling", c) /\ running' = c
                               /\ proc' = [proc EXCEPT ![c] = "live"]
      BY <2>1 DEF LogOpened
    <3>2. CallsTyped
      BY <3>1, SuspendTyped DEF TypeOK, PCs
    <3>3. QED
      BY <2>1, <3>1, <3>2 DEF LogOpened, TypeOK, CallsTyped, ProcStates
  <2>2. CASE LogOpenFails(k)
    <3>1. StartTyped
      BY <2>2, StartThrowsTyped DEF LogOpenFails, TypeOK
    <3>2. QED
      BY <1>a, <2>2, <3>1 DEF LogOpenFails, TypeOK
  <2>3. CASE ChargePersisted(k)
    <3>1. CASE BeginStop(k, "charge") /\ UNCHANGED <<jobs, crash, daemon>>
      <4>1. StopTyped
        BY <3>1, BeginStopTyped DEF Ops
      <4>2. QED
        BY <1>b, <2>3, <3>1, <4>1 DEF ChargePersisted, TypeOK
    <3>0. charging' \in BOOLEAN
      BY <2>3 DEF ChargePersisted
    <3>2. CASE UNCHANGED <<lifecycle, jobs, relauncher, crash, govPaused, resumeArmed, daemon, calls>>
      BY <3>0, <3>2 DEF TypeOK
    <3>3. QED
      BY <2>3, <3>1, <3>2 DEF ChargePersisted
  <2>4. CASE OverrideStored(k)
    <3>1. CASE running # NoChild
      <4>1. CallsTyped
        BY <2>4, <3>1, ReachTyped DEF OverrideStored, PCs
      <4>2. QED
        BY <2>4, <3>1, <4>1 DEF OverrideStored, TypeOK, CallsTyped
    <3>2. CASE running = NoChild
      <4>1. Resumed \in ServiceStates
        BY DEF Resumed, TypeOK, ServiceStates
      <4>2. StartTyped
        BY <2>4, <3>2, <4>1, EnterStartTyped DEF OverrideStored, Ops
      <4>3. QED
        BY <1>a, <2>4, <4>2 DEF OverrideStored, TypeOK
    <3>3. QED
      BY <3>1, <3>2
  <2>5. CASE OverrideResumed(k)
    <3>1. CASE Return(k) /\ UNCHANGED <<lifecycle, relauncher, govPaused, resumeArmed>>
      BY <2>5, <3>1, ReturnTyped DEF OverrideResumed, TypeOK, CallsTyped
    <3>2. CASE BeginStop(k, "override")
      <4>1. StopTyped
        BY <3>2, BeginStopTyped DEF Ops
      <4>2. QED
        BY <1>b, <2>5, <4>1 DEF OverrideResumed, TypeOK
    <3>3. QED
      BY <2>5, <3>1, <3>2 DEF OverrideResumed
  <2>6. QED
    BY <1>2, <2>1, <2>2, <2>3, <2>4, <2>5 DEF IOCompletes
<1>3. ASSUME NEW k \in Calls, TimerFires(k) PROVE TypeOK'
  <2>1. CASE SettledUp(k)
    <3>1. CallsTyped
      BY <2>1, ReachTyped, ReturnTyped DEF SettledUp, PCs
    <3>2. QED
      BY <2>1, <3>1 DEF SettledUp, TypeOK, CallsTyped, ServiceStates
  <2>2. CASE SettledDown(k)
    <3>1. StartTyped
      BY <2>2, StartThrowsTyped DEF SettledDown, TypeOK
    <3>2. QED
      BY <1>a, <2>2, <3>1 DEF SettledDown, TypeOK
  <2>3. CASE StopTimeout(k)
    <3>1. CallsTyped
      BY <2>3, ReachTyped DEF StopTimeout, PCs, ExitWaits
    <3>2. proc' \in [Children -> ProcStates]
      BY <2>3 DEF StopTimeout, TypeOK, ProcStates
    <3>3. UNCHANGED <<state, running, everStarted, jobs, relauncher, crash, governor, daemon>>
      BY <2>3 DEF StopTimeout
    <3>4. QED
      BY <3>1, <3>2, <3>3 DEF TypeOK, CallsTyped
  <2>4. CASE TerminateTimeout(k)
    <3>1. CallsTyped
      BY <2>4, ReachTyped DEF TerminateTimeout, PCs, ExitWaits
    <3>2. proc' \in [Children -> ProcStates]
      BY <2>4 DEF TerminateTimeout, TypeOK, ProcStates
    <3>3. UNCHANGED <<state, running, everStarted, jobs, relauncher, crash, governor, daemon>>
      BY <2>4 DEF TerminateTimeout
    <3>4. QED
      BY <3>1, <3>2, <3>3 DEF TypeOK, CallsTyped
  <2>5. CASE RelaunchFires(k)
    <3>1. StartTyped
      BY <2>5, EnterStartTyped DEF RelaunchFires, TypeOK, Ops
    <3>2. QED
      BY <2>5, <3>1 DEF RelaunchFires, TypeOK, StartTyped, CallsTyped
  <2>6. CASE ResumeFires(k)
    <3>1. CASE running = NoChild
      <4>1. Resumed \in ServiceStates
        BY DEF Resumed, TypeOK, ServiceStates
      <4>2. StartTyped
        BY <2>6, <3>1, <4>1, EnterStartTyped DEF ResumeFires, Ops
      <4>3. QED
        BY <1>a, <2>6, <4>2 DEF ResumeFires
    <3>2. CASE running # NoChild
      BY <2>6, <3>2 DEF ResumeFires, TypeOK
    <3>3. QED
      BY <3>1, <3>2
  <2>7. QED
    BY <1>3, <2>1, <2>2, <2>3, <2>4, <2>5, <2>6 DEF TimerFires
<1>4. ASSUME NEW k \in Calls, Request(k) PROVE TypeOK'
  <2>1. CASE Start(k)
    <3>1. StartTyped
      BY <2>1, EnterStartTyped DEF Start, TypeOK, Ops
    <3>2. QED
      BY <1>a, <2>1, <3>1 DEF Start, TypeOK
  <2>2. CASE Stop(k) \/ Restart(k) \/ Quarantine(k)
    <3>1. StopTyped
      BY <2>2, BeginStopTyped DEF Stop, Restart, Quarantine, Ops
    <3>2. QED
      BY <1>b, <2>2, <3>1 DEF Stop, Restart, Quarantine, TypeOK
  <2>3. CASE Override(k)
    <3>1. CallsTyped
      BY <2>3, SuspendTyped DEF Override, Ops, PCs
    <3>2. /\ resumeArmed' \in BOOLEAN
          /\ UNCHANGED <<lifecycle, jobs, relauncher, crash, charging, govPaused, daemon>>
      BY <2>3 DEF Override
    <3>3. QED
      BY <3>1, <3>2 DEF TypeOK, CallsTyped
  <2>4. ASSUME NEW o \in JobOps, LaunchJob(k, o) PROVE TypeOK'
    <3>1. CASE running # NoChild
      BY <2>4, <3>1 DEF LaunchJob, TypeOK
    <3>2. CASE running = NoChild
      <4>1. StartTyped
        BY <2>4, <3>2, EnterStartTyped DEF LaunchJob, TypeOK, Ops, JobOps
      <4>2. QED
        BY <1>a, <2>4, <4>1 DEF LaunchJob, TypeOK
    <3>3. QED
      BY <3>1, <3>2
  <2>5. CASE Shutdown(k)
    <3>1. CallsTyped
      BY <2>5, SuspendTyped DEF Shutdown, Ops, PCs, ExitWaits, TypeOK
    <3>2. QED
      BY <2>5, <3>1 DEF Shutdown, TypeOK, CallsTyped, ProcStates
  <2>6. QED
    BY <1>4, <2>1, <2>2, <2>3, <2>4, <2>5 DEF Request, JobOps
<1>5. ASSUME NEW k \in Calls, Event(k) PROVE TypeOK'
  <2>1. CASE JobTurnEnds(k)
    <3>1. StopTyped
      BY <2>1, BeginStopTyped DEF JobTurnEnds, Ops
    <3>2. QED
      BY <1>b, <2>1, <3>1 DEF JobTurnEnds, TypeOK
  <2>2. CASE FailureEvent(k)
    <3>1. failures' \in 0 .. Threshold
      BY <2>2, CappedTyped DEF FailureEvent
    <3>2. CASE tripped' = TRUE /\ BeginStop(k, "quarantine") /\ UNCHANGED <<jobs, held, charging, daemon>>
      <4>1. StopTyped
        BY <3>2, BeginStopTyped DEF Ops
      <4>2. QED
        BY <1>b, <3>1, <3>2, <4>1 DEF TypeOK
    <3>3. CASE UNCHANGED <<lifecycle, jobs, relauncher, tripped, held, governor, daemon, calls>>
      BY <3>1, <3>3 DEF TypeOK
    <3>4. QED
      BY <2>2, <3>2, <3>3 DEF FailureEvent
  <2>3. QED
    BY <1>5, <2>1, <2>2 DEF Event
<1>6. ASSUME NEW c \in Children, ChildExits(c) PROVE TypeOK'
  BY <1>6, ChildExitsTyped
<1>7. CASE Unquarantine
  <2>1. state' \in ServiceStates
    BY <1>7 DEF Unquarantine, TypeOK, ServiceStates
  <2>2. failures' \in 0 .. Threshold
    BY <1>7, ConstantsAssumption DEF Unquarantine
  <2>3. /\ tripped' \in BOOLEAN /\ held' \in BOOLEAN
        /\ UNCHANGED <<running, proc, everStarted, jobs, relauncher, governor, daemon, calls>>
    BY <1>7 DEF Unquarantine
  <2>4. QED
    BY <2>1, <2>2, <2>3 DEF TypeOK
<1>8. CASE UsageEvent
  BY <1>8 DEF UsageEvent, TypeOK
<1>9. CASE UNCHANGED vars
  BY <1>9 DEF vars, TypeOK
<1>10. QED
  BY <1>1, <1>2, <1>3, <1>4, <1>5, <1>6, <1>7, <1>8, <1>9 DEF Next

\* The initial states are well-typed.
LEMMA InitTyped == Init => TypeOK
<1> SUFFICES ASSUME Init PROVE TypeOK
  OBVIOUS
<1>1. held \in BOOLEAN /\ govPaused \in BOOLEAN /\ resumeArmed \in BOOLEAN
  BY DEF Init
<1>2. 0 \in 0 .. MaxConsecutive /\ 0 \in 0 .. Threshold
  BY ConstantsAssumption
<1>3. state \in ServiceStates
  BY DEF Init, ServiceStates
<1>4. /\ proc \in [Children -> ProcStates]
      /\ op \in [Calls -> Ops] /\ pc \in [Calls -> PCs]
      /\ target \in [Calls -> Children \cup {NoChild}]
      /\ reply \in [Calls -> ServiceStates \cup {"none"}]
  BY DEF Init, ProcStates, Ops, PCs
<1>5. QED
  BY <1>1, <1>2, <1>3, <1>4 DEF Init, TypeOK

\* Every reachable state of the supervisor is well-typed; in particular the flap
\* counter never exceeds restart.max_consecutive (Relauncher.onExit).
THEOREM TypeCorrect == Spec => []TypeOK
<1>1. Init => TypeOK
  BY InitTyped
<1>2. TypeOK /\ [Next]_vars => TypeOK'
  BY TypeOKStep
<1>3. QED
  BY <1>1, <1>2, PTL DEF Spec

-----------------------------------------------------------------------------
(* Quarantine. *)

\* start(), called with the record in a state it was in or in one that is not
\* quarantined, does not quarantine the service.
LEMMA EnterStartHolds ==
    ASSUME NEW k, NEW o, NEW from, EnterStart(k, o, from), from # "quarantined" \/ state = from
    PROVE  state' = "quarantined" => state = "quarantined"
BY DEF EnterStart

\* stop() never quarantines the service.
LEMMA BeginStopHolds ==
    ASSUME NEW k, NEW o, BeginStop(k, o)
    PROVE  state' = "quarantined" => state = "quarantined"
BY DEF BeginStop

\* A service that becomes quarantined is held by the same step, and one that is
\* released stops being quarantined by the same step.
LEMMA QuarantineHeldStep == QuarantineHeld /\ [Next]_vars => QuarantineHeld'
<1> SUFFICES ASSUME QuarantineHeld, [Next]_vars PROVE QuarantineHeld'
  OBVIOUS
<1> USE DEF QuarantineHeld, crash, lifecycle
<1>1. ASSUME NEW k \in Calls, Continuation(k) PROVE QuarantineHeld'
  BY <1>1, EnterStartHolds
     DEF Continuation, StopReturns, RestartContinues, PauseContinues,
         QuarantineContinues, ShutdownContinues
<1>2. ASSUME NEW k \in Calls, IOCompletes(k) PROVE QuarantineHeld'
  <2>1. CASE OverrideStored(k)
    BY <2>1, EnterStartHolds DEF OverrideStored, Resumed
  <2>2. CASE ChargePersisted(k)
    BY <2>2, BeginStopHolds DEF ChargePersisted
  <2>3. CASE LogOpened(k) \/ LogOpenFails(k) \/ OverrideResumed(k)
    BY <2>3, BeginStopHolds DEF LogOpened, LogOpenFails, OverrideResumed
  <2>4. QED
    BY <1>2, <2>1, <2>2, <2>3 DEF IOCompletes
<1>3. ASSUME NEW k \in Calls, TimerFires(k) PROVE QuarantineHeld'
  <2>1. CASE ResumeFires(k)
    BY <2>1, EnterStartHolds DEF ResumeFires, Resumed
  <2>2. CASE RelaunchFires(k)
    BY <2>2, EnterStartHolds DEF RelaunchFires
  <2>3. CASE SettledUp(k) \/ SettledDown(k) \/ StopTimeout(k) \/ TerminateTimeout(k)
    BY <2>3 DEF SettledUp, SettledDown, StopTimeout, TerminateTimeout
  <2>4. QED
    BY <1>3, <2>1, <2>2, <2>3 DEF TimerFires
<1>4. ASSUME NEW k \in Calls, Request(k) PROVE QuarantineHeld'
  <2>1. CASE Start(k)
    BY <2>1, EnterStartHolds DEF Start
  <2>2. CASE Stop(k) \/ Restart(k) \/ Quarantine(k)
    BY <2>2, BeginStopHolds DEF Stop, Restart, Quarantine
  <2>3. ASSUME NEW o, LaunchJob(k, o) PROVE QuarantineHeld'
    BY <2>3, EnterStartHolds DEF LaunchJob
  <2>4. CASE Override(k) \/ Shutdown(k)
    BY <2>4 DEF Override, Shutdown
  <2>5. QED
    BY <1>4, <2>1, <2>2, <2>3, <2>4 DEF Request
<1>5. ASSUME NEW k \in Calls, Event(k) PROVE QuarantineHeld'
  BY <1>5, BeginStopHolds DEF Event, JobTurnEnds, FailureEvent
<1>6. ASSUME NEW c \in Children, ChildExits(c) PROVE QuarantineHeld'
  BY <1>6 DEF ChildExits, StaleExit, DeliberateExit, QuarantiningExit, IneligibleExit,
              DeclinedExit, RelaunchedExit, GivenUpExit, PassedExit, FinalizeExit, ExitState
<1>7. CASE Unquarantine
  BY <1>7 DEF Unquarantine
<1>8. CASE UsageEvent
  BY <1>8 DEF UsageEvent
<1>9. CASE UNCHANGED vars
  BY <1>9 DEF vars
<1>10. QED
  BY <1>1, <1>2, <1>3, <1>4, <1>5, <1>6, <1>7, <1>8, <1>9 DEF Next

\* A service shown as quarantined is always in the persisted quarantined[] set, so
\* that a daemon restart holds it too (quarantine, finalizeExit, unquarantine).
THEOREM QuarantineIsHeld == Spec => []QuarantineHeld
<1>1. Init => QuarantineHeld
  BY DEF Init, QuarantineHeld
<1>2. QED
  BY <1>1, QuarantineHeldStep, PTL DEF Spec

-----------------------------------------------------------------------------
(* Processes. *)

ProcessInv == TypeOK /\ StateHasProcess /\ WaitsOnLiveProcess

\* What start() up to its first await, stop() up to its first await, a signal and a
\* bare suspension have in common: they free no process.
NoneFreed == \A c \in Children : proc[c] # "free" => proc'[c] # "free"

\* The step is a step of call k, which waits afterwards, if at all, on a live process.
StepOf(k) ==
    /\ \A j \in Calls \ {k} : pc'[j] = pc[j] /\ target'[j] = target[j]
    /\ pc'[k] \in ExitWaits => target'[k] \in Children /\ proc'[target'[k]] # "free"

\* A step of one call that frees no process loses no wake-up.
LEMMA StepKeepsWaits ==
    ASSUME WaitsOnLiveProcess, NEW k \in Calls, NoneFreed, StepOf(k)
    PROVE  WaitsOnLiveProcess'
BY DEF WaitsOnLiveProcess, NoneFreed, StepOf

\* A call that suspends short of an exit is a step of that call.
LEMMA SuspendStepOf ==
    ASSUME TypeOK, NEW k \in Calls, NEW o, NEW p, NEW c, p \notin ExitWaits, Suspend(k, o, p, c)
    PROVE  StepOf(k)
BY DEF TypeOK, Suspend, StepOf

\* A call that suspends until the exit of a live process is a step of that call.
LEMMA WaitStepOf ==
    ASSUME TypeOK, NEW k \in Calls, NEW o, NEW p, NEW c \in Children, proc'[c] # "free",
           Suspend(k, o, p, c)
    PROVE  StepOf(k)
BY DEF TypeOK, Suspend, StepOf

\* A call that returns is a step of that call.
LEMMA ReturnStepOf ==
    ASSUME TypeOK, NEW k \in Calls, Return(k)
    PROVE  StepOf(k)
BY DEF TypeOK, Return, StepOf, ExitWaits

\* A call that goes on short of an exit is a step of that call.
LEMMA ReachStepOf ==
    ASSUME TypeOK, NEW k \in Calls, NEW p, p \notin ExitWaits, Reach(k, p)
    PROVE  StepOf(k)
BY DEF TypeOK, Reach, StepOf

\* start() up to its first await: entered in the record's own state, or in one that
\* needs no process, it leaves a state that has its process.
LEMMA EnterStartProcess ==
    ASSUME ProcessInv, NEW k \in Calls, NEW o, NEW from, EnterStart(k, o, from),
           from = state \/ from = "stopped", UNCHANGED <<running, proc>>
    PROVE  StateHasProcess' /\ WaitsOnLiveProcess'
<1>1. StepOf(k)
  BY ReturnStepOf, SuspendStepOf DEF EnterStart, StartThrows, ProcessInv, ExitWaits
<1>2. QED
  BY <1>1, StepKeepsWaits DEF EnterStart, ProcessInv, StateHasProcess, NoneFreed

\* A rejected start() changes no process.
LEMMA StartThrowsProcess ==
    ASSUME ProcessInv, NEW k \in Calls, NEW o, StartThrows(k, o), UNCHANGED <<state, running, proc>>
    PROVE  StateHasProcess' /\ WaitsOnLiveProcess'
<1>1. StepOf(k)
  BY ReturnStepOf DEF StartThrows, ProcessInv
<1>2. QED
  BY <1>1, StepKeepsWaits DEF ProcessInv, StateHasProcess, NoneFreed

\* stop() up to its first await: it waits on the live managed child, or on nothing.
LEMMA BeginStopProcess ==
    ASSUME ProcessInv, NEW k \in Calls, NEW o, BeginStop(k, o)
    PROVE  StateHasProcess' /\ WaitsOnLiveProcess'
<1>1. CASE running = NoChild
  <2>1. StepOf(k)
    BY <1>1, SuspendStepOf DEF BeginStop, ProcessInv, ExitWaits
  <2>2. QED
    BY <1>1, <2>1, StepKeepsWaits DEF BeginStop, ProcessInv, StateHasProcess, NoneFreed
<1>2. CASE running # NoChild
  <2>1. running \in Children /\ proc[running] # "free"
    BY <1>2 DEF ProcessInv, TypeOK, StateHasProcess
  <2>2. /\ proc' = [proc EXCEPT ![running] = IF @ = "live" THEN "eof" ELSE @]
        /\ Suspend(k, o, "stopWait", running)
        /\ running' = running
    BY <1>2 DEF BeginStop
  <2>3. NoneFreed /\ proc'[running] # "free"
    BY <2>1, <2>2 DEF ProcessInv, TypeOK, NoneFreed
  <2>4. StepOf(k)
    BY <2>1, <2>2, <2>3, WaitStepOf DEF ProcessInv
  <2>5. QED
    BY <1>2, <2>2, <2>3, <2>4, StepKeepsWaits DEF ProcessInv, StateHasProcess
<1>3. QED
  BY <1>1, <1>2

\* The exit of a process: whoever waits on it is woken, and no state that needs the
\* process survives the exit of the managed child.
LEMMA ChildExitsProcess ==
    ASSUME ProcessInv, NEW c \in Children, ChildExits(c)
    PROVE  StateHasProcess' /\ WaitsOnLiveProcess'
<1>1. /\ proc' = [proc EXCEPT ![c] = "free"]
      /\ \/ running # c /\ UNCHANGED <<state, running>>
         \/ running' = NoChild /\ state' \notin {"running", "stopping"}
  BY DEF ChildExits, StaleExit, DeliberateExit, QuarantiningExit, IneligibleExit,
         DeclinedExit, RelaunchedExit, GivenUpExit, PassedExit, FinalizeExit, ExitState
<1>2. PICK w, s : Wake(c, w, s)
  BY DEF ChildExits, StaleExit, DeliberateExit, QuarantiningExit, IneligibleExit,
         DeclinedExit, RelaunchedExit, GivenUpExit, PassedExit, FinalizeExit
<1>3. StateHasProcess'
  BY <1>1 DEF ProcessInv, TypeOK, StateHasProcess
<1>4. \A k \in Calls : pc'[k] \in ExitWaits => pc[k] \in ExitWaits /\ target[k] # c
  BY <1>2 DEF Wake, ExitWaits
<1>5. WaitsOnLiveProcess'
  BY <1>1, <1>2, <1>4 DEF ProcessInv, TypeOK, WaitsOnLiveProcess, Wake
<1>6. QED
  BY <1>3, <1>5

\* One step preserves both process invariants.
LEMMA ProcessInvStep == ProcessInv /\ [Next]_vars => ProcessInv'
<1> SUFFICES ASSUME ProcessInv, [Next]_vars PROVE StateHasProcess' /\ WaitsOnLiveProcess'
  BY TypeOKStep DEF ProcessInv
<1> DEFINE Goal == StateHasProcess' /\ WaitsOnLiveProcess'
<1> USE DEF lifecycle, calls
<1>a. ASSUME NEW k \in Calls, StepOf(k), NoneFreed, UNCHANGED running,
             state' \in {"running", "stopping"} => running # NoChild
      PROVE  Goal
  BY <1>a, StepKeepsWaits DEF ProcessInv, TypeOK, StateHasProcess, NoneFreed
<1>b. ASSUME UNCHANGED <<state, running, proc, pc, target>>
      PROVE  Goal
  BY <1>b DEF ProcessInv, StateHasProcess, WaitsOnLiveProcess
<1>1. ASSUME NEW k \in Calls, Continuation(k) PROVE Goal
  <2>1. CASE RestartContinues(k)
    BY <2>1, EnterStartProcess DEF RestartContinues
  <2>2. CASE StopReturns(k) \/ PauseContinues(k) \/ QuarantineContinues(k) \/ ShutdownContinues(k)
    <3>1. Return(k) /\ UNCHANGED <<running, proc>>
      BY <2>2 DEF StopReturns, PauseContinues, QuarantineContinues, ShutdownContinues
    <3>2. state' = state \/ state' \notin {"running", "stopping"}
      BY <2>2 DEF StopReturns, PauseContinues, QuarantineContinues, ShutdownContinues
    <3>3. StepOf(k)
      BY <3>1, ReturnStepOf DEF ProcessInv
    <3>4. QED
      BY <1>a, <3>1, <3>2, <3>3 DEF ProcessInv, StateHasProcess, NoneFreed
  <2>3. QED
    BY <1>1, <2>1, <2>2 DEF Continuation
<1>2. ASSUME NEW k \in Calls, IOCompletes(k) PROVE Goal
  <2>1. CASE LogOpened(k)
    <3>1. PICK c \in Children : /\ proc' = [proc EXCEPT ![c] = "live"]
                                /\ running' = c
                                /\ Suspend(k, op[k], "settling", c)
                                /\ UNCHANGED state
      BY <2>1 DEF LogOpened
    <3>2. StepOf(k)
      BY <3>1, SuspendStepOf DEF ProcessInv, ExitWaits
    <3>3. NoneFreed /\ proc'[c] = "live"
      BY <3>1 DEF ProcessInv, TypeOK, NoneFreed
    <3>4. WaitsOnLiveProcess'
      BY <3>2, <3>3, StepKeepsWaits DEF ProcessInv
    <3>5. c # NoChild
      BY ConstantsAssumption
    <3>6. QED
      BY <3>1, <3>3, <3>4, <3>5 DEF StateHasProcess
  <2>2. CASE LogOpenFails(k)
    BY <2>2, StartThrowsProcess DEF LogOpenFails
  <2>3. CASE ChargePersisted(k)
    <3>1. CASE BeginStop(k, "charge")
      BY <3>1, BeginStopProcess
    <3>2. CASE UNCHANGED <<lifecycle, calls>>
      BY <1>b, <3>2
    <3>3. QED
      BY <2>3, <3>1, <3>2 DEF ChargePersisted
  <2>4. CASE OverrideStored(k)
    <3>1. CASE running # NoChild
      <4>1. StepOf(k)
        BY <2>4, <3>1, ReachStepOf DEF OverrideStored, ProcessInv, ExitWaits
      <4>2. QED
        BY <1>a, <2>4, <3>1, <4>1 DEF OverrideStored, NoneFreed
    <3>2. CASE running = NoChild
      BY <2>4, <3>2, EnterStartProcess DEF OverrideStored, Resumed
    <3>3. QED
      BY <3>1, <3>2
  <2>5. CASE OverrideResumed(k)
    <3>1. CASE Return(k) /\ UNCHANGED lifecycle
      <4>1. StepOf(k)
        BY <3>1, ReturnStepOf DEF ProcessInv
      <4>2. QED
        BY <1>a, <3>1, <4>1 DEF ProcessInv, StateHasProcess, NoneFreed
    <3>2. CASE BeginStop(k, "override")
      BY <3>2, BeginStopProcess
    <3>3. QED
      BY <2>5, <3>1, <3>2 DEF OverrideResumed
  <2>6. QED
    BY <1>2, <2>1, <2>2, <2>3, <2>4, <2>5 DEF IOCompletes
<1>3. ASSUME NEW k \in Calls, TimerFires(k) PROVE Goal
  <2>1. CASE SettledUp(k)
    <3>1. StepOf(k)
      BY <2>1, ReachStepOf, ReturnStepOf DEF SettledUp, ProcessInv, ExitWaits
    <3>2. QED
      BY <1>a, <2>1, <3>1 DEF SettledUp, NoneFreed
  <2>2. CASE SettledDown(k)
    BY <2>2, StartThrowsProcess DEF SettledDown
  <2>3. CASE StopTimeout(k) \/ TerminateTimeout(k)
    <3>1. target[k] \in Children /\ proc[target[k]] # "free"
      BY <2>3 DEF StopTimeout, TerminateTimeout, ProcessInv, WaitsOnLiveProcess, ExitWaits
    <3>2. /\ \/ proc' = [proc EXCEPT ![target[k]] = IF @ = "kill" THEN @ ELSE "term"]
             \/ proc' = [proc EXCEPT ![target[k]] = "kill"]
          /\ UNCHANGED <<state, running, target>>
          /\ \E p : Reach(k, p)
      BY <2>3 DEF StopTimeout, TerminateTimeout, Reach
    <3>3. NoneFreed /\ proc'[target[k]] # "free"
      BY <3>1, <3>2 DEF ProcessInv, TypeOK, NoneFreed
    <3>4. StepOf(k)
      BY <3>1, <3>2, <3>3 DEF Reach, StepOf, ProcessInv, TypeOK
    <3>5. QED
      BY <1>a, <3>2, <3>3, <3>4 DEF ProcessInv, StateHasProcess
  <2>4. CASE RelaunchFires(k)
    BY <2>4, EnterStartProcess DEF RelaunchFires
  <2>5. CASE ResumeFires(k)
    <3>1. CASE running # NoChild
      BY <1>b, <2>5, <3>1 DEF ResumeFires
    <3>2. CASE running = NoChild
      BY <2>5, <3>2, EnterStartProcess DEF ResumeFires, Resumed
    <3>3. QED
      BY <3>1, <3>2
  <2>6. QED
    BY <1>3, <2>1, <2>2, <2>3, <2>4, <2>5 DEF TimerFires
<1>4. ASSUME NEW k \in Calls, Request(k) PROVE Goal
  <2>1. CASE Start(k)
    BY <2>1, EnterStartProcess DEF Start
  <2>2. CASE Stop(k) \/ Restart(k) \/ Quarantine(k)
    BY <2>2, BeginStopProcess DEF Stop, Restart, Quarantine
  <2>3. ASSUME NEW o, LaunchJob(k, o) PROVE Goal
    <3>1. CASE running # NoChild
      BY <1>b, <2>3, <3>1 DEF LaunchJob
    <3>2. CASE running = NoChild
      BY <2>3, <3>2, EnterStartProcess DEF LaunchJob
    <3>3. QED
      BY <3>1, <3>2
  <2>4. CASE Override(k)
    <3>1. StepOf(k)
      BY <2>4, SuspendStepOf DEF Override, ProcessInv, ExitWaits
    <3>2. QED
      BY <1>a, <2>4, <3>1 DEF Override, ProcessInv, StateHasProcess, NoneFreed
  <2>5. CASE Shutdown(k)
    <3>1. CASE running = NoChild
      <4>1. StepOf(k)
        BY <2>5, <3>1, SuspendStepOf DEF Shutdown, ProcessInv, ExitWaits
      <4>2. QED
        BY <1>a, <2>5, <3>1, <4>1 DEF Shutdown, ProcessInv, StateHasProcess, NoneFreed
    <3>2. CASE running # NoChild
      <4>1. running \in Children
        BY <3>2 DEF ProcessInv, TypeOK
      <4>2. proc' = [proc EXCEPT ![running] = IF @ = "kill" THEN @ ELSE "term"]
        BY <2>5, <3>2 DEF Shutdown
      <4>3. NoneFreed /\ proc'[running] # "free"
        BY <4>1, <4>2 DEF ProcessInv, TypeOK, NoneFreed
      <4>4. StepOf(k)
        BY <2>5, <3>2, <4>1, <4>3, WaitStepOf DEF Shutdown, ProcessInv
      <4>5. QED
        BY <1>a, <2>5, <3>2, <4>3, <4>4 DEF Shutdown
    <3>3. QED
      BY <3>1, <3>2
  <2>6. QED
    BY <1>4, <2>1, <2>2, <2>3, <2>4, <2>5 DEF Request
<1>5. ASSUME NEW k \in Calls, Event(k) PROVE Goal
  <2>1. CASE \E o : BeginStop(k, o)
    BY <2>1, BeginStopProcess
  <2>2. CASE UNCHANGED <<lifecycle, calls>>
    BY <1>b, <2>2
  <2>3. QED
    BY <1>5, <2>1, <2>2 DEF Event, JobTurnEnds, FailureEvent
<1>6. ASSUME NEW c \in Children, ChildExits(c) PROVE Goal
  BY <1>6, ChildExitsProcess
<1>7. CASE Unquarantine
  BY <1>7 DEF Unquarantine, ProcessInv, StateHasProcess, WaitsOnLiveProcess
<1>8. CASE UsageEvent
  BY <1>b, <1>8 DEF UsageEvent
<1>9. CASE UNCHANGED vars
  BY <1>b, <1>9 DEF vars
<1>10. QED
  BY <1>1, <1>2, <1>3, <1>4, <1>5, <1>6, <1>7, <1>8, <1>9 DEF Next

\* The inductive process invariant.
LEMMA ProcessInvariant == Spec => []ProcessInv
<1>1. Init => ProcessInv
  <2> SUFFICES ASSUME Init PROVE ProcessInv
    OBVIOUS
  <2>1. TypeOK
    BY InitTyped
  <2>2. QED
    BY <2>1 DEF Init, ProcessInv, StateHasProcess, WaitsOnLiveProcess, ExitWaits
<1>2. QED
  BY <1>1, ProcessInvStep, PTL DEF Spec

\* A service shown as running or stopping has a live process in the sidecar map
\* (supervisor/index.ts start, stop, finalizeExit).
THEOREM StatesHaveProcesses == Spec => []StateHasProcess
BY ProcessInvariant, PTL DEF ProcessInv

\* No wake-up is lost: a call that waits for an exit waits for a process that can
\* still exit (waitForExit, terminate).
THEOREM WaitsAreOnLiveProcesses == Spec => []WaitsOnLiveProcess
BY ProcessInvariant, PTL DEF ProcessInv

-----------------------------------------------------------------------------
(* Exits: what the exit handler alone may do. *)

\* Only the exit of a process frees it: no call, timer or event does.
LEMMA OnlyExitsFree ==
    ASSUME TypeOK, [Next]_vars
    PROVE  NoneFreed \/ \E c \in Children : ChildExits(c)
<1> USE DEF TypeOK, NoneFreed, lifecycle
<1>1. ASSUME NEW k \in Calls, NEW o, BeginStop(k, o) PROVE NoneFreed
  BY <1>1 DEF BeginStop
<1>2. ASSUME NEW k \in Calls, Continuation(k) PROVE NoneFreed
  BY <1>2 DEF Continuation, StopReturns, RestartContinues, PauseContinues,
              QuarantineContinues, ShutdownContinues
<1>3. ASSUME NEW k \in Calls, IOCompletes(k) PROVE NoneFreed
  BY <1>1, <1>3 DEF IOCompletes, LogOpened, LogOpenFails, ChargePersisted,
                    OverrideStored, OverrideResumed
<1>4. ASSUME NEW k \in Calls, TimerFires(k) PROVE NoneFreed
  BY <1>4 DEF TimerFires, SettledUp, SettledDown, StopTimeout, TerminateTimeout,
              RelaunchFires, ResumeFires
<1>5. ASSUME NEW k \in Calls, Request(k) PROVE NoneFreed
  BY <1>1, <1>5 DEF Request, Start, Stop, Restart, Quarantine, Override, LaunchJob, Shutdown
<1>6. ASSUME NEW k \in Calls, Event(k) PROVE NoneFreed
  BY <1>1, <1>6 DEF Event, JobTurnEnds, FailureEvent
<1>7. Unquarantine \/ UsageEvent \/ UNCHANGED vars => NoneFreed
  BY DEF Unquarantine, UsageEvent, vars
<1>8. QED
  BY <1>2, <1>3, <1>4, <1>5, <1>6, <1>7 DEF Next

\* An exit event frees one process: the managed child, unless the event is stale.
LEMMA ExitFreesOne ==
    ASSUME TypeOK, NEW c \in Children, ChildExits(c)
    PROVE  /\ \A d \in Children : Exits(d) => d = c
           /\ Exits(c)
           /\ StaleExit(c) \/ running = c
BY DEF ChildExits, StaleExit, DeliberateExit, QuarantiningExit, IneligibleExit,
       DeclinedExit, RelaunchedExit, GivenUpExit, PassedExit, FinalizeExit, TypeOK, Exits

\* The exit of a process the sidecar map no longer points at changes nothing of the
\* service that replaced it (the identity guards of start and finalizeExit).
THEOREM StaleExitsAreIgnored == Spec => StaleExitIgnored
<1> DEFINE Ignored == \A c \in Children : Exits(c) /\ running # c =>
                          UNCHANGED <<state, running, everStarted, jobs, relauncher, crash>>
<1>1. TypeOK /\ [Next]_vars => [Ignored]_vars
  <2> SUFFICES ASSUME TypeOK, [Next]_vars, NEW c \in Children, Exits(c), running # c
               PROVE  UNCHANGED <<state, running, everStarted, jobs, relauncher, crash>>
    OBVIOUS
  <2>1. PICK d \in Children : ChildExits(d)
    BY OnlyExitsFree DEF NoneFreed, Exits
  <2>2. StaleExit(c)
    BY <2>1, ExitFreesOne
  <2>3. QED
    BY <2>2 DEF StaleExit
<1>2. QED
  BY <1>1, TypeCorrect, PTL DEF Spec, StaleExitIgnored

\* Only the outcome "relaunch" of an exit event arms the relauncher.
LEMMA OnlyRelaunchArms ==
    ASSUME [Next]_vars, ~armed, armed'
    PROVE  \E c \in Children, failed, outlived \in BOOLEAN : RelaunchedExit(c, failed, outlived)
<1> USE DEF relauncher
<1>1. ASSUME NEW k \in Calls, Continuation(k) PROVE UNCHANGED armed
  BY <1>1 DEF Continuation, StopReturns, RestartContinues, PauseContinues,
              QuarantineContinues, ShutdownContinues
<1>2. ASSUME NEW k \in Calls, IOCompletes(k) PROVE ~armed' \/ UNCHANGED armed
  BY <1>2 DEF IOCompletes, LogOpened, LogOpenFails, ChargePersisted, OverrideStored,
              OverrideResumed, BeginStop
<1>3. ASSUME NEW k \in Calls, TimerFires(k) PROVE ~armed' \/ UNCHANGED armed
  BY <1>3 DEF TimerFires, SettledUp, SettledDown, StopTimeout, TerminateTimeout,
              RelaunchFires, ResumeFires
<1>4. ASSUME NEW k \in Calls, Request(k) PROVE ~armed' \/ UNCHANGED armed
  BY <1>4 DEF Request, Start, Stop, Restart, Quarantine, Override, LaunchJob, Shutdown, BeginStop
<1>5. ASSUME NEW k \in Calls, Event(k) PROVE ~armed' \/ UNCHANGED armed
  BY <1>5 DEF Event, JobTurnEnds, FailureEvent, BeginStop
<1>6. ASSUME NEW c \in Children, ChildExits(c)
      PROVE  \/ ~armed' \/ UNCHANGED armed
             \/ \E failed, outlived \in BOOLEAN : RelaunchedExit(c, failed, outlived)
  BY <1>6 DEF ChildExits, StaleExit, DeliberateExit, QuarantiningExit, IneligibleExit,
              DeclinedExit, GivenUpExit, CancelRelaunch
<1>7. Unquarantine \/ UsageEvent \/ UNCHANGED vars => UNCHANGED armed
  BY DEF Unquarantine, UsageEvent, vars
<1>8. QED
  BY <1>1, <1>2, <1>3, <1>4, <1>5, <1>6, <1>7 DEF Next

\* A relaunch is armed only by the unexpected exit of the managed child of a
\* long-running service that has run (finalizeExit, Relauncher.onExit).
THEOREM RelaunchesAreWarranted == Spec => RelaunchOnlyAfterUnexpectedExit
<1> DEFINE Warranted == ~armed /\ armed' =>
                          /\ started /\ ~jobMode /\ state # "stopping" /\ daemon = "up"
                          /\ \E c \in Children : Exits(c) /\ running = c
<1>1. TypeOK /\ [Next]_vars => [Warranted]_vars
  <2> SUFFICES ASSUME TypeOK, [Next]_vars, ~armed, armed'
               PROVE  /\ started /\ ~jobMode /\ state # "stopping" /\ daemon = "up"
                      /\ \E c \in Children : Exits(c) /\ running = c
    OBVIOUS
  <2>1. PICK c \in Children, failed \in BOOLEAN, outlived \in BOOLEAN :
            RelaunchedExit(c, failed, outlived)
    BY OnlyRelaunchArms
  <2>2. Eligible /\ Quiet /\ running = c
    BY <2>1 DEF RelaunchedExit, PassedExit, FinalizeExit
  <2>3. Exits(c)
    BY <2>1 DEF RelaunchedExit, PassedExit, FinalizeExit, TypeOK, Exits
  <2>4. QED
    BY <2>2, <2>3 DEF Eligible, Deliberate, Quiet, Alive
<1>2. QED
  BY <1>1, TypeCorrect, PTL DEF Spec, RelaunchOnlyAfterUnexpectedExit

\* A job that ends, however it ends, arms no relaunch and counts towards no crash
\* loop (finalizeExit).
THEOREM JobsAreNeverKeptAlive == Spec => JobNeverKeptAlive
<1> DEFINE Left == \A c \in Children : Exits(c) /\ running = c /\ jobMode =>
                       (armed' => armed) /\ failures' = failures
<1>1. TypeOK /\ [Next]_vars => [Left]_vars
  <2> SUFFICES ASSUME TypeOK, [Next]_vars, NEW c \in Children, Exits(c), running = c, jobMode
               PROVE  (armed' => armed) /\ failures' = failures
    OBVIOUS
  <2>1. PICK d \in Children : ChildExits(d)
    BY OnlyExitsFree DEF NoneFreed, Exits
  <2>2. ~Eligible
    BY DEF Eligible
  <2>3. QED
    BY <2>1, <2>2 DEF ChildExits, StaleExit, DeliberateExit, QuarantiningExit, IneligibleExit,
         DeclinedExit, RelaunchedExit, GivenUpExit, PassedExit, CancelRelaunch, relauncher, crash
<1>2. QED
  BY <1>1, TypeCorrect, PTL DEF Spec, JobNeverKeptAlive

-----------------------------------------------------------------------------
(* Shutdown. *)

\* ShutdownSilencesRelaunch is not inductive alone: the last step of shutdown() must
\* know that shutdown() has begun.
ShutdownInv ==
    /\ ShutdownSilencesRelaunch
    /\ \A k \in Calls : op[k] = "shutdown" => daemon # "up"

\* No step but the first of shutdown() runs a call as "shutdown", and the daemon
\* never comes back up.
LEMMA ShutdownStarts ==
    ASSUME TypeOK, [Next]_vars
    PROVE  /\ daemon # "up" => daemon' # "up"
           /\ \A k \in Calls : op'[k] = "shutdown" => op[k] = "shutdown" \/ daemon' # "up"
           /\ daemon' \in {"shuttingDown", "exited"} =>
                daemon' = daemon \/ ~armed' \/ \E k \in Calls : ShutdownContinues(k)
<1> USE DEF calls, TypeOK
<1>1. ASSUME NEW k \in Calls, NEW o \in Ops \ {"shutdown"}, NEW from, EnterStart(k, o, from)
      PROVE  /\ daemon' = daemon \/ daemon' = "crashed"
             /\ \A j \in Calls : op'[j] = "shutdown" => op[j] = "shutdown"
  BY <1>1 DEF EnterStart, StartThrows, Suspend, Return
<1>2. ASSUME NEW k \in Calls, NEW o \in Ops \ {"shutdown"}, BeginStop(k, o)
      PROVE  \A j \in Calls : op'[j] = "shutdown" => op[j] = "shutdown"
  BY <1>2 DEF BeginStop, Suspend
<1>3. ASSUME NEW k \in Calls, Continuation(k)
      PROVE  /\ daemon' = daemon \/ daemon' = "crashed" \/ ShutdownContinues(k)
             /\ \A j \in Calls : op'[j] = "shutdown" => op[j] = "shutdown"
  BY <1>1, <1>3 DEF Continuation, StopReturns, RestartContinues, PauseContinues,
                    QuarantineContinues, ShutdownContinues, Return, Ops
<1>4. ASSUME NEW k \in Calls, IOCompletes(k)
      PROVE  /\ daemon' = daemon \/ daemon' = "crashed"
             /\ \A j \in Calls : op'[j] = "shutdown" => op[j] = "shutdown"
  BY <1>1, <1>2, <1>4 DEF IOCompletes, LogOpened, LogOpenFails, ChargePersisted,
                    OverrideStored, OverrideResumed, StartThrows, Suspend, Return, Reach, Ops
<1>5. ASSUME NEW k \in Calls, TimerFires(k)
      PROVE  /\ daemon' = daemon \/ daemon' = "crashed"
             /\ \A j \in Calls : op'[j] = "shutdown" => op[j] = "shutdown"
  BY <1>1, <1>5 DEF TimerFires, SettledUp, SettledDown, StopTimeout, TerminateTimeout,
                    RelaunchFires, ResumeFires, StartThrows, Return, Reach, Ops
<1>6. ASSUME NEW k \in Calls, Request(k)
      PROVE  \/ /\ daemon' = daemon \/ daemon' = "crashed"
                /\ \A j \in Calls : op'[j] = "shutdown" => op[j] = "shutdown"
             \/ daemon' = "shuttingDown" /\ ~armed'
  BY <1>1, <1>2, <1>6 DEF Request, Start, Stop, Restart, Quarantine, Override, LaunchJob,
                    Shutdown, Suspend, Ops
<1>7. ASSUME NEW k \in Calls, Event(k)
      PROVE  /\ daemon' = daemon
             /\ \A j \in Calls : op'[j] = "shutdown" => op[j] = "shutdown"
  BY <1>2, <1>7 DEF Event, JobTurnEnds, FailureEvent, Ops
<1>8. ASSUME NEW c \in Children, ChildExits(c)
      PROVE  daemon' = daemon /\ op' = op
  BY <1>8 DEF ChildExits, StaleExit, DeliberateExit, QuarantiningExit, IneligibleExit,
       DeclinedExit, RelaunchedExit, GivenUpExit, PassedExit, FinalizeExit, Wake
<1>9. Unquarantine \/ UsageEvent \/ UNCHANGED vars => daemon' = daemon /\ op' = op
  BY DEF Unquarantine, UsageEvent, vars
<1>10. \A k \in Calls : ShutdownContinues(k) => daemon' = "exited"
  BY DEF ShutdownContinues
<1>11. QED
  BY <1>3, <1>4, <1>5, <1>6, <1>7, <1>8, <1>9, <1>10 DEF Next

\* Once shutdown() has begun no relaunch is pending, and exits arm none (shutdown,
\* finalizeExit, Relauncher.dispose).
THEOREM ShutdownIsSilent == Spec => []ShutdownSilencesRelaunch
<1>1. Init => ShutdownInv
  BY DEF Init, ShutdownInv, ShutdownSilencesRelaunch
<1>2. TypeOK /\ ShutdownInv /\ [Next]_vars => ShutdownInv'
  <2> SUFFICES ASSUME TypeOK, ShutdownInv, [Next]_vars PROVE ShutdownInv'
    OBVIOUS
  <2>1. \A k \in Calls : op'[k] = "shutdown" => daemon' # "up"
    BY ShutdownStarts DEF ShutdownInv
  <2>2. ASSUME daemon' \in {"shuttingDown", "exited"} PROVE ~armed'
    <3>1. CASE daemon' = daemon
      <4>1. ASSUME armed' PROVE FALSE
        <5>1. ~armed
          BY <2>2, <3>1 DEF ShutdownInv, ShutdownSilencesRelaunch
        <5>2. PICK c \in Children, failed \in BOOLEAN, outlived \in BOOLEAN :
                  RelaunchedExit(c, failed, outlived)
          BY <4>1, <5>1, OnlyRelaunchArms
        <5>3. Alive /\ daemon # "shuttingDown"
          BY <5>2 DEF RelaunchedExit, PassedExit, FinalizeExit, Eligible, Deliberate, Quiet
        <5>4. QED
          BY <2>2, <3>1, <5>3 DEF Alive
      <4>2. QED
        BY <4>1
    <3>2. ASSUME NEW k \in Calls, ShutdownContinues(k) PROVE ~armed'
      BY <3>2 DEF ShutdownContinues, Alive, ShutdownInv, ShutdownSilencesRelaunch, relauncher
    <3>3. QED
      BY <2>2, <3>1, <3>2, ShutdownStarts
  <2>3. QED
    BY <2>1, <2>2 DEF ShutdownInv, ShutdownSilencesRelaunch
<1>3. ShutdownInv => ShutdownSilencesRelaunch
  BY DEF ShutdownInv
<1>4. QED
  BY <1>1, <1>2, <1>3, TypeCorrect, PTL DEF Spec

-----------------------------------------------------------------------------
(* Which calls a step moves. *)

\* The calls but k stay where they are.
Others(k) ==
    \A j \in Calls \ {k} :
        pc'[j] = pc[j] /\ op'[j] = op[j] /\ target'[j] = target[j] /\ reply'[j] = reply[j]

\* A call that suspends moves alone.
LEMMA SuspendMoves ==
    ASSUME TypeOK, NEW k \in Calls, NEW o, NEW p, NEW c, Suspend(k, o, p, c)
    PROVE  Others(k) /\ pc'[k] = p /\ op'[k] = o /\ target'[k] = c /\ reply'[k] = reply[k]
BY DEF TypeOK, Suspend, Others

\* So does one that goes on within its operation.
LEMMA ReachMoves ==
    ASSUME TypeOK, NEW k \in Calls, NEW p, Reach(k, p)
    PROVE  Others(k) /\ pc'[k] = p /\ op'[k] = op[k] /\ target'[k] = target[k] /\ reply'[k] = reply[k]
BY DEF TypeOK, Reach, Others

\* So does one that returns.
LEMMA ReturnMoves ==
    ASSUME TypeOK, NEW k \in Calls, Return(k)
    PROVE  Others(k) /\ pc'[k] = "idle" /\ op'[k] = "none" /\ reply'[k] = "none"
BY DEF TypeOK, Return, Others

\* start() up to its first await: it is opening the log, or rejected.
LEMMA EnterStartMoves ==
    ASSUME TypeOK, NEW k \in Calls, NEW o, NEW from, EnterStart(k, o, from)
    PROVE  /\ Others(k)
           /\ \/ /\ StartAccepted(from) /\ state' = "starting"
                 /\ pc'[k] = "opening" /\ op'[k] = o /\ reply'[k] = reply[k]
              \/ /\ ~StartAccepted(from) /\ state' = from
                 /\ pc'[k] = "idle" /\ op'[k] = "none" /\ reply'[k] = "none"
           /\ waiter' = IF o # "run" THEN waiter ELSE IF StartAccepted(from) THEN k ELSE NoCall
BY SuspendMoves, ReturnMoves DEF EnterStart, StartThrows

\* stop() up to its first await: it waits on the managed child, or is ready to go on.
LEMMA BeginStopMoves ==
    ASSUME TypeOK, NEW k \in Calls, NEW o, BeginStop(k, o)
    PROVE  /\ Others(k) /\ op'[k] = o /\ reply'[k] = reply[k] /\ ~armed' /\ running' = running
           /\ \/ /\ running = NoChild /\ proc' = proc /\ pc'[k] = "woken"
                 /\ state' = IF state = "paused" THEN "stopped" ELSE state
              \/ /\ running # NoChild /\ state' = "stopping"
                 /\ pc'[k] = "stopWait" /\ target'[k] = running
                 /\ proc' = [proc EXCEPT ![running] = IF @ = "live" THEN "eof" ELSE @]
BY SuspendMoves DEF BeginStop

\* An exit wakes who waits for it, and answers the job's caller.
LEMMA ChildExitsMoves ==
    ASSUME TypeOK, NEW c \in Children, ChildExits(c)
    PROVE  /\ UNCHANGED <<op, target>> /\ Quiet /\ proc[c] # "free" /\ proc' = [proc EXCEPT ![c] = "free"]
           /\ \A k \in Calls :
                 \/ pc'[k] = pc[k] /\ ~(pc[k] \in ExitWaits /\ target[k] = c)
                 \/ pc'[k] = "woken" /\ pc[k] \in ExitWaits /\ target[k] = c
                 \/ pc'[k] = "woken" /\ pc[k] = "jobWait"
           /\ \/ running # c /\ UNCHANGED <<state, running, waiter, reply, armed, held>>
              \/ /\ running = c /\ running' = NoChild /\ waiter' = NoCall
                 /\ state' \in {"stopped", "failed", "quarantined"}
                 /\ state' = "quarantined" => ~Deliberate /\ ~armed' /\ held'
                 /\ state' # "quarantined" => UNCHANGED held
                 /\ state' = "failed" => ~Deliberate
                 /\ Deliberate => ~armed'
                 /\ ~Deliberate /\ state' # "quarantined" => armed' \in BOOLEAN /\ (armed => armed')
                 /\ \A k \in Calls : reply'[k] = IF k = waiter THEN state' ELSE reply[k]
<1> USE DEF TypeOK
<1>1. CASE StaleExit(c)
  <2>1. Wake(c, NoCall, "none") /\ Quiet /\ proc[c] # "free" /\ proc' = [proc EXCEPT ![c] = "free"]
        /\ running # c /\ UNCHANGED <<state, running, jobs, relauncher, crash>>
    BY <1>1 DEF StaleExit
  <2>2. \A k \in Calls : k # NoCall
    BY ConstantsAssumption
  <2>3. reply' = reply
    BY <2>1, <2>2 DEF Wake
  <2>4. QED
    BY <2>1, <2>2, <2>3 DEF Wake, jobs, relauncher, crash
<1>2. ASSUME NEW s, FinalizeExit(c, s)
      PROVE  /\ UNCHANGED <<op, target>> /\ Quiet /\ proc[c] # "free" /\ proc' = [proc EXCEPT ![c] = "free"]
             /\ \A k \in Calls :
                   \/ pc'[k] = pc[k] /\ ~(pc[k] \in ExitWaits /\ target[k] = c)
                   \/ pc'[k] = "woken" /\ pc[k] \in ExitWaits /\ target[k] = c
                   \/ pc'[k] = "woken" /\ pc[k] = "jobWait"
             /\ running = c /\ running' = NoChild /\ waiter' = NoCall /\ state' = s
             /\ \A k \in Calls : reply'[k] = IF k = waiter THEN state' ELSE reply[k]
  BY <1>2 DEF FinalizeExit, Wake
<1>3. CASE DeliberateExit(c)
  BY <1>2, <1>3 DEF DeliberateExit, CancelRelaunch, crash
<1>4. CASE QuarantiningExit(c)
  BY <1>2, <1>4 DEF QuarantiningExit, CancelRelaunch, Eligible
<1>5. ASSUME NEW failed \in BOOLEAN, IneligibleExit(c, failed)
      PROVE  FinalizeExit(c, ExitState(failed)) /\ ~Deliberate /\ UNCHANGED <<armed, held>>
  BY <1>5 DEF IneligibleExit, relauncher, crash
<1>6. ASSUME NEW failed \in BOOLEAN, NEW outlived \in BOOLEAN,
             \/ DeclinedExit(c, failed, outlived) \/ RelaunchedExit(c, failed, outlived)
             \/ GivenUpExit(c, failed, outlived)
      PROVE  /\ FinalizeExit(c, ExitState(failed)) /\ ~Deliberate /\ UNCHANGED held
             /\ armed' \in BOOLEAN /\ (armed => armed')
  BY <1>6 DEF DeclinedExit, RelaunchedExit, GivenUpExit, PassedExit, Eligible
<1>7. ASSUME NEW failed \in BOOLEAN PROVE ExitState(failed) \in {"failed", "stopped"}
  BY DEF ExitState
<1>8. CASE \E failed \in BOOLEAN :
             /\ FinalizeExit(c, ExitState(failed)) /\ ~Deliberate /\ UNCHANGED held
             /\ armed' \in BOOLEAN /\ (armed => armed')
  BY <1>2, <1>7, <1>8
<1>9. QED
  BY <1>1, <1>3, <1>4, <1>5, <1>6, <1>8 DEF ChildExits

-----------------------------------------------------------------------------
(* A start in progress. *)

\* StartingIsInProgress is not inductive alone: what ends with the child gone must not have
\* been the start that the record speaks of.
StartingInv ==
    state = "starting" =>
        \/ \E k \in Calls : pc[k] = "opening"
        \/ running # NoChild /\ \E k \in Calls : pc[k] = "settling"

\* A call that was not starting the service moves.
LEMMA StartingKept ==
    ASSUME StartingInv, NEW k \in Calls, Others(k), pc[k] \notin {"opening", "settling"},
           UNCHANGED running, state' = "starting" => state = "starting"
    PROVE  StartingInv'
BY DEF StartingInv, Others

\* A start that ends leaves `starting` behind, and whatever cuts in writes another state.
LEMMA StartingStep ==
    ASSUME ~LogMayFail, TypeOK, StartingInv, [Next]_vars
    PROVE  StartingInv'
<1> USE DEF lifecycle, calls
<1>1. ASSUME NEW k \in Calls, NEW o, NEW from, EnterStart(k, o, from), UNCHANGED running,
             from = "starting" => state = "starting", pc[k] \notin {"opening", "settling"}
      PROVE  StartingInv'
  <2>1. CASE pc'[k] = "opening"
    BY <2>1 DEF StartingInv
  <2>2. CASE state' = from
    BY <1>1, <2>2, EnterStartMoves, StartingKept
  <2>3. QED
    BY <1>1, <2>1, <2>2, EnterStartMoves
<1>2. ASSUME NEW k \in Calls, NEW o, BeginStop(k, o), pc[k] \notin {"opening", "settling"}
      PROVE  StartingInv'
  BY <1>2, BeginStopMoves, StartingKept
<1>3. ASSUME UNCHANGED <<running, pc>>, state' = "starting" => state = "starting" PROVE StartingInv'
  BY <1>3 DEF StartingInv
<1>4. ASSUME NEW k \in Calls, Continuation(k) PROVE StartingInv'
  <2>1. pc[k] = "woken" /\ UNCHANGED running
    BY <1>4 DEF Continuation, StopReturns, RestartContinues, PauseContinues, QuarantineContinues,
       ShutdownContinues
  <2>2. CASE RestartContinues(k)
    BY <1>1, <2>1, <2>2 DEF RestartContinues
  <2>3. CASE StopReturns(k) \/ PauseContinues(k) \/ QuarantineContinues(k) \/ ShutdownContinues(k)
    <3>1. Return(k) /\ (state' = "starting" => state = "starting")
      BY <2>3 DEF StopReturns, PauseContinues, QuarantineContinues, ShutdownContinues
    <3>2. QED
      BY <2>1, <3>1, ReturnMoves, StartingKept
  <2>4. QED
    BY <1>4, <2>2, <2>3 DEF Continuation
<1>5. ASSUME NEW k \in Calls, IOCompletes(k) PROVE StartingInv'
  <2>1. CASE LogOpened(k)
    <3>1. running' # NoChild /\ pc'[k] = "settling"
      BY <2>1, SuspendMoves, ConstantsAssumption DEF LogOpened
    <3>2. QED
      BY <3>1 DEF StartingInv
  <2>2. CASE LogOpenFails(k)
    BY <2>2 DEF LogOpenFails
  <2>3. CASE ChargePersisted(k)
    BY <1>2, <1>3, <2>3 DEF ChargePersisted, MayBegin
  <2>4. CASE OverrideStored(k)
    <3>1. pc[k] = "storing" /\ UNCHANGED running
      BY <2>4 DEF OverrideStored
    <3>2. CASE Reach(k, "resumed") /\ UNCHANGED state
      BY <3>1, <3>2, ReachMoves, StartingKept
    <3>3. CASE EnterStart(k, "override", Resumed)
      BY <1>1, <3>1, <3>3 DEF Resumed
    <3>4. QED
      BY <2>4, <3>2, <3>3 DEF OverrideStored
  <2>5. CASE OverrideResumed(k)
    <3>1. pc[k] = "resumed"
      BY <2>5 DEF OverrideResumed
    <3>2. CASE Return(k) /\ UNCHANGED lifecycle
      BY <3>1, <3>2, ReturnMoves, StartingKept
    <3>3. CASE BeginStop(k, "override")
      BY <1>2, <3>1, <3>3
    <3>4. QED
      BY <2>5, <3>2, <3>3 DEF OverrideResumed
  <2>6. QED
    BY <1>5, <2>1, <2>2, <2>3, <2>4, <2>5 DEF IOCompletes
<1>6. ASSUME NEW k \in Calls, TimerFires(k) PROVE StartingInv'
  <2>1. CASE SettledUp(k)
    BY <2>1 DEF SettledUp, StartingInv
  <2>2. CASE SettledDown(k)
    <3>1. /\ running = NoChild /\ pc[k] = "settling" /\ UNCHANGED <<state, running>> /\ Others(k)
      BY <2>2, ReturnMoves DEF SettledDown, StartThrows
    <3>2. QED
      BY <3>1 DEF StartingInv, Others
  <2>3. CASE StopTimeout(k) \/ TerminateTimeout(k)
    <3>1. /\ pc[k] \in {"stopWait", "termWait"} /\ UNCHANGED <<state, running>>
          /\ Reach(k, "termWait") \/ Reach(k, "killWait")
      BY <2>3 DEF StopTimeout, TerminateTimeout
    <3>2. QED
      BY <3>1, ReachMoves, StartingKept
  <2>4. CASE RelaunchFires(k)
    BY <1>1, <2>4 DEF RelaunchFires, MayBegin
  <2>5. CASE ResumeFires(k)
    BY <1>1, <1>3, <2>5 DEF ResumeFires, MayBegin, Resumed
  <2>6. QED
    BY <1>6, <2>1, <2>2, <2>3, <2>4, <2>5 DEF TimerFires
<1>7. ASSUME NEW k \in Calls, Request(k) PROVE StartingInv'
  <2>1. CASE Start(k)
    BY <1>1, <2>1 DEF Start, MayBegin
  <2>2. CASE Stop(k) \/ Restart(k) \/ Quarantine(k)
    BY <1>2, <2>2 DEF Stop, Restart, Quarantine, MayBegin
  <2>3. ASSUME NEW o, LaunchJob(k, o) PROVE StartingInv'
    BY <1>1, <1>3, <2>3 DEF LaunchJob, MayBegin
  <2>4. CASE Override(k) \/ Shutdown(k)
    <3>1. /\ pc[k] = "idle" /\ UNCHANGED <<state, running>>
          /\ \E o, p, c : Suspend(k, o, p, c)
      BY <2>4 DEF Override, Shutdown, MayBegin
    <3>2. QED
      BY <3>1, SuspendMoves, StartingKept
  <2>5. QED
    BY <1>7, <2>1, <2>2, <2>3, <2>4 DEF Request
<1>8. ASSUME NEW k \in Calls, Event(k) PROVE StartingInv'
  <2>1. CASE JobTurnEnds(k)
    BY <1>2, <2>1 DEF JobTurnEnds, MayBegin
  <2>2. CASE FailureEvent(k)
    BY <1>2, <1>3, <2>2 DEF FailureEvent, MayBegin
  <2>3. QED
    BY <1>8, <2>1, <2>2 DEF Event
<1>9. ASSUME NEW c \in Children, ChildExits(c) PROVE StartingInv'
  <2>1. \A k \in Calls : pc[k] \in {"opening", "settling"} => pc'[k] = pc[k]
    BY <1>9, ChildExitsMoves DEF ExitWaits
  <2>2. state' # "starting" \/ UNCHANGED <<state, running>>
    BY <1>9, ChildExitsMoves
  <2>3. QED
    BY <2>1, <2>2 DEF StartingInv
<1>10. CASE Unquarantine \/ UsageEvent \/ UNCHANGED vars
  BY <1>3, <1>10 DEF Unquarantine, UsageEvent, vars
<1>11. QED
  BY <1>4, <1>5, <1>6, <1>7, <1>8, <1>9, <1>10 DEF Next

\* If the log can be opened, a service shown as starting is being started, however calls,
\* timers and exits interleave (start, stop, finalizeExit).
THEOREM StartsAreInProgress ==
    ASSUME ~LogMayFail
    PROVE  Spec => []StartingIsInProgress
<1>1. Init => StartingInv
  BY DEF Init, StartingInv
<1>2. TypeOK /\ StartingInv /\ [Next]_vars => StartingInv'
  BY StartingStep
<1>3. StartingInv => StartingIsInProgress
  BY DEF StartingInv, StartingIsInProgress
<1>4. QED
  BY <1>1, <1>2, <1>3, TypeCorrect, PTL DEF Spec

-----------------------------------------------------------------------------
(* The answer to a `pid run`. *)

\* RunCanBeAnswered is not inductive alone: there is one run at a time, and a call that is
\* not in progress is none.
RunInv ==
    /\ \A k \in Calls : pc[k] = "idle" => op[k] = "none"
    /\ \A k \in Calls : pc[k] = "jobWait" => op[k] = "run"
    /\ \A j, k \in Calls : op[j] = "run" /\ op[k] = "run" => j = k
    /\ RunCanBeAnswered

\* A call moves and leaves its caller's resolver where it is.
LEMMA RunKept ==
    ASSUME RunInv, NEW k \in Calls, Others(k), UNCHANGED waiter,
           pc'[k] = "idle" => op'[k] = "none", pc'[k] = "jobWait" => op'[k] = "run",
           op'[k] = "run" => op[k] = "run" /\ reply'[k] = reply[k]
    PROVE  RunInv'
BY DEF RunInv, RunCanBeAnswered, Others

\* Case by case: a call takes the waiter's place only as the one run there is, and whoever
\* takes the resolver out answers it or ends it.
LEMMA RunStep ==
    ASSUME "run" \notin Overlap, TypeOK, RunInv, [Next]_vars
    PROVE  RunInv'
<1> USE DEF lifecycle, calls, jobs
<1>1. ASSUME NEW k \in Calls, NEW o \in Ops \ {"none", "run"}, NEW from, EnterStart(k, o, from)
      PROVE  RunInv'
  BY <1>1, EnterStartMoves, RunKept
<1>2. ASSUME NEW k \in Calls, NEW o \in Ops \ {"none", "run"}, BeginStop(k, o), UNCHANGED jobs PROVE RunInv'
  BY <1>2, BeginStopMoves, RunKept
<1>3. ASSUME UNCHANGED <<op, pc, reply, waiter>> PROVE RunInv'
  BY <1>3 DEF RunInv, RunCanBeAnswered
<1>4. ASSUME NEW k \in Calls, Return(k), UNCHANGED waiter \/ (op[k] = "run" /\ waiter' = NoCall)
      PROVE  RunInv'
  <2>1. CASE UNCHANGED waiter
    BY <1>4, <2>1, ReturnMoves, RunKept
  <2>2. CASE op[k] = "run"
    <3>1. Others(k) /\ op'[k] = "none" /\ \A j \in Calls : op'[j] # "run"
      BY <1>4, <2>2, ReturnMoves DEF Others, RunInv
    <3>2. QED
      BY <1>4, <3>1, ReturnMoves DEF RunInv, RunCanBeAnswered, Others
  <2>3. QED
    BY <1>4, <2>1, <2>2
<1>5. ASSUME NEW k \in Calls, Continuation(k) PROVE RunInv'
  <2>1. CASE RestartContinues(k)
    BY <1>1, <2>1 DEF RestartContinues, Ops
  <2>2. CASE StopReturns(k) \/ PauseContinues(k) \/ QuarantineContinues(k) \/ ShutdownContinues(k)
    BY <1>4, <2>2 DEF StopReturns, PauseContinues, QuarantineContinues, ShutdownContinues
  <2>3. QED
    BY <1>5, <2>1, <2>2 DEF Continuation
<1>6. ASSUME NEW k \in Calls, IOCompletes(k) PROVE RunInv'
  <2>1. CASE LogOpened(k)
    <3>1. \E c : Suspend(k, op[k], "settling", c)
      BY <2>1 DEF LogOpened
    <3>2. UNCHANGED waiter
      BY <2>1 DEF LogOpened
    <3>3. QED
      BY <3>1, <3>2, SuspendMoves, RunKept
  <2>2. CASE LogOpenFails(k)
    BY <1>4, <2>2 DEF LogOpenFails, StartThrows
  <2>3. CASE ChargePersisted(k)
    BY <1>2, <1>3, <2>3 DEF ChargePersisted, Ops
  <2>4. CASE OverrideStored(k)
    <3>1. CASE Reach(k, "resumed") /\ UNCHANGED jobs
      BY <3>1, ReachMoves, RunKept
    <3>2. CASE EnterStart(k, "override", Resumed)
      BY <1>1, <3>2 DEF Ops
    <3>3. QED
      BY <2>4, <3>1, <3>2 DEF OverrideStored
  <2>5. CASE OverrideResumed(k)
    BY <1>2, <1>4, <2>5 DEF OverrideResumed, Ops
  <2>6. QED
    BY <1>6, <2>1, <2>2, <2>3, <2>4, <2>5 DEF IOCompletes
<1>7. ASSUME NEW k \in Calls, TimerFires(k) PROVE RunInv'
  <2>1. CASE SettledUp(k)
    <3>1. CASE Return(k)
      BY <1>4, <2>1, <3>1 DEF SettledUp
    <3>2. ASSUME NEW p \in {"resumed", "jobWait", "woken"}, Reach(k, p), p = "jobWait" => op[k] = "run"
          PROVE  RunInv'
      BY <2>1, <3>2, ReachMoves, RunKept DEF SettledUp
    <3>3. QED
      BY <2>1, <3>1, <3>2 DEF SettledUp
  <2>2. CASE SettledDown(k)
    BY <1>4, <2>2 DEF SettledDown, StartThrows
  <2>3. CASE StopTimeout(k) \/ TerminateTimeout(k)
    <3>1. (Reach(k, "termWait") \/ Reach(k, "killWait")) /\ UNCHANGED jobs
      BY <2>3 DEF StopTimeout, TerminateTimeout
    <3>2. QED
      BY <3>1, ReachMoves, RunKept
  <2>4. CASE RelaunchFires(k)
    BY <1>1, <2>4 DEF RelaunchFires, Ops
  <2>5. CASE ResumeFires(k)
    BY <1>1, <1>3, <2>5 DEF ResumeFires, Ops
  <2>6. QED
    BY <1>7, <2>1, <2>2, <2>3, <2>4, <2>5 DEF TimerFires
<1>8. ASSUME NEW k \in Calls, Request(k) PROVE RunInv'
  <2>1. CASE Start(k)
    BY <1>1, <2>1 DEF Start, Ops
  <2>2. CASE Stop(k) \/ Restart(k) \/ Quarantine(k)
    BY <1>2, <2>2 DEF Stop, Restart, Quarantine, Ops
  <2>3. CASE LaunchJob(k, "fire")
    BY <1>1, <1>3, <2>3 DEF LaunchJob, Ops
  <2>4. CASE LaunchJob(k, "run")
    <3>1. \A j \in Calls : op[j] = "none"
      BY <2>4 DEF LaunchJob, MayBegin, RunInv
    <3>2. CASE UNCHANGED calls
      BY <3>1, <3>2 DEF RunInv, RunCanBeAnswered
    <3>3. CASE EnterStart(k, "run", state)
      <4>1. /\ \A j \in Calls \ {k} : op'[j] = "none" /\ pc'[j] = pc[j]
            /\ \/ pc'[k] = "opening" /\ op'[k] = "run" /\ waiter' = k
               \/ pc'[k] = "idle" /\ op'[k] = "none"
        BY <3>1, <3>3, EnterStartMoves DEF Others
      <4>2. QED
        BY <3>1, <4>1 DEF RunInv, RunCanBeAnswered
    <3>4. QED
      BY <2>4, <3>2, <3>3 DEF LaunchJob
  <2>5. CASE Override(k) \/ Shutdown(k)
    <3>1. UNCHANGED waiter /\ \E o \in {"override", "shutdown"}, p \in {"storing", "woken", "termWait"} : \E c :
              Suspend(k, o, p, c)
      BY <2>5 DEF Override, Shutdown
    <3>2. QED
      BY <3>1, SuspendMoves, RunKept
  <2>6. QED
    BY <1>8, <2>1, <2>2, <2>3, <2>4, <2>5 DEF Request
<1>9. ASSUME NEW k \in Calls, Event(k) PROVE RunInv'
  BY <1>2, <1>3, <1>9 DEF Event, JobTurnEnds, FailureEvent, Ops
<1>10. ASSUME NEW c \in Children, ChildExits(c) PROVE RunInv'
  <2>1. /\ op' = op
        /\ \A k \in Calls : pc'[k] = pc[k] \/ pc'[k] = "woken"
        /\ \/ UNCHANGED <<waiter, reply>>
           \/ /\ state' \in {"stopped", "failed", "quarantined"}
              /\ \A k \in Calls : reply'[k] = IF k = waiter THEN state' ELSE reply[k]
    BY <1>10, ChildExitsMoves
  <2>2. \A k \in Calls : op'[k] = "run" /\ reply'[k] = "none" => UNCHANGED waiter /\ reply[k] = "none"
    BY <2>1 DEF RunInv, RunCanBeAnswered
  <2>3. QED
    BY <2>1, <2>2 DEF RunInv, RunCanBeAnswered
<1>11. CASE Unquarantine \/ UsageEvent \/ UNCHANGED vars
  BY <1>3, <1>11 DEF Unquarantine, UsageEvent, vars
<1>12. QED
  BY <1>5, <1>6, <1>7, <1>8, <1>9, <1>10, <1>11 DEF Next

\* The invariant behind the theorem that follows.
LEMMA RunInvariant ==
    ASSUME "run" \notin Overlap
    PROVE  Spec => []RunInv
<1>1. Init => RunInv
  BY DEF Init, RunInv, RunCanBeAnswered
<1>2. TypeOK /\ RunInv /\ [Next]_vars => RunInv'
  BY RunStep
<1>3. QED
  BY <1>1, <1>2, TypeCorrect, PTL DEF Spec

\* A `pid run` that waits can be answered, if runs of the service do not overlap: every exit,
\* refusal and failure in between leaves its resolver in jobWaiters or answers it (runJob).
THEOREM RunsCanBeAnswered ==
    ASSUME "run" \notin Overlap
    PROVE  Spec => []RunCanBeAnswered
<1>1. RunInv => RunCanBeAnswered
  BY DEF RunInv
<1>2. QED
  BY <1>1, RunInvariant, PTL

-----------------------------------------------------------------------------
(* Calls that do not overlap. *)

\* Call k is doing something: a job's caller that waits, or is being answered, is not.
Busy(k) == pc[k] \notin {"idle", "jobWait"} /\ ~(op[k] = "run" /\ pc[k] = "woken")

\* What the call in progress may rely on.
Fits(k) ==
    /\ pc[k] = "opening" => running = NoChild /\ state = "starting"
    /\ pc[k] = "settling" /\ running # NoChild => state = "starting"
    /\ pc[k] \in ExitWaits => (state = "stopping" \/ daemon # "up") /\ ~armed
    /\ pc[k] = "woken" /\ op[k] # "run" => running = NoChild /\ ~armed

OneBusy == \A j, k \in Calls : Busy(j) /\ Busy(k) => j = k

\* The sidecar map has every process that is alive.
Alone == \A c \in Children : proc[c] # "free" => running = c

UpStates == running # NoChild => state \in {"starting", "running", "stopping"}

SerialInv == OneBusy /\ Alone /\ UpStates /\ \A k \in Calls : Fits(k)

\* What begins, begins when nothing is in progress.
LEMMA MayBeginAlone ==
    ASSUME Overlap = {}, NEW k \in Calls, NEW o, MayBegin(k, o)
    PROVE  pc[k] = "idle" /\ \A j \in Calls : ~Busy(j)
BY DEF MayBegin, Busy

\* The call in progress, or the first of a new one, moves: only it has to fit.
LEMMA SerialKept ==
    ASSUME SerialInv, NEW k \in Calls, Others(k), Busy(k) \/ \A j \in Calls : ~Busy(j),
           Alone', UpStates', Fits(k)'
    PROVE  SerialInv'
<1>1. \A j \in Calls \ {k} : ~Busy(j) /\ ~Busy(j)' /\ Fits(j)'
  <2>1. \A j \in Calls \ {k} : ~Busy(j)
    BY DEF SerialInv, OneBusy
  <2>2. \A j \in Calls \ {k} : ~Busy(j)'
    BY <2>1 DEF Others, Busy
  <2>3. QED
    BY <2>1, <2>2 DEF Busy, Fits, ExitWaits
<1>2. OneBusy'
  BY <1>1 DEF OneBusy
<1>3. QED
  BY <1>1, <1>2 DEF SerialInv

\* No call moves but one that ends.
LEMMA SerialAside ==
    ASSUME SerialInv, UNCHANGED <<running, proc>>, armed' => armed, daemon # "up" => daemon' # "up",
           state' = state \/ (state = "quarantined" /\ state' = "stopped"),
           \/ UNCHANGED <<pc, op>>
           \/ \E k \in Calls : Others(k) /\ pc'[k] = "idle"
    PROVE  SerialInv'
<1>1. \A k \in Calls : (pc'[k] = pc[k] /\ op'[k] = op[k]) \/ pc'[k] = "idle"
  BY DEF Others
<1>2. OneBusy'
  BY <1>1 DEF SerialInv, OneBusy, Busy
<1>3. Alone' /\ UpStates'
  BY DEF SerialInv, Alone, UpStates
<1>4. \A k \in Calls : Fits(k)'
  BY <1>1 DEF SerialInv, Fits, ExitWaits
<1>5. QED
  BY <1>2, <1>3, <1>4 DEF SerialInv

\* A start goes on only with no process in the sidecar map.
LEMMA SerialStarts ==
    ASSUME TypeOK, SerialInv, NEW k \in Calls, NEW o, NEW from, EnterStart(k, o, from),
           Busy(k) \/ \A j \in Calls : ~Busy(j), UNCHANGED <<running, proc>>,
           from = state \/ running = NoChild
    PROVE  SerialInv'
<1>1. /\ Others(k) /\ \/ StartAccepted(from) /\ state' = "starting" /\ pc'[k] = "opening"
                      \/ state' = from /\ pc'[k] = "idle"
  BY EnterStartMoves
<1>2. Alone' /\ UpStates'
  BY <1>1 DEF SerialInv, Alone, UpStates, StartAccepted
<1>3. Fits(k)'
  BY <1>1 DEF Fits, StartAccepted, ExitWaits
<1>4. QED
  BY <1>1, <1>2, <1>3, SerialKept

\* A stop waits on the managed child, if there is one.
LEMMA SerialStops ==
    ASSUME TypeOK, SerialInv, StateHasProcess, NEW k \in Calls, NEW o, BeginStop(k, o),
           Busy(k) \/ \A j \in Calls : ~Busy(j)
    PROVE  SerialInv'
<1>1. Others(k) /\ ~armed' /\ running' = running
  BY BeginStopMoves
<1>2. \/ running = NoChild /\ proc' = proc /\ pc'[k] = "woken"
      \/ /\ running # NoChild /\ state' = "stopping" /\ pc'[k] = "stopWait"
         /\ proc' = [proc EXCEPT ![running] = IF @ = "live" THEN "eof" ELSE @]
  BY BeginStopMoves
<1>3. Alone' /\ UpStates'
  BY <1>1, <1>2 DEF SerialInv, Alone, UpStates, TypeOK
<1>4. Fits(k)'
  BY <1>1, <1>2 DEF Fits, ExitWaits
<1>5. QED
  BY <1>1, <1>3, <1>4, SerialKept

\* The exit of the managed child, which is the only one: whoever waits on it is woken, and the
\* relaunch that a stop has disarmed is not armed.
LEMMA SerialExits ==
    ASSUME ProcessInv, RunInv, SerialInv, NEW c \in Children, ChildExits(c)
    PROVE  SerialInv'
<1>1. TypeOK /\ WaitsOnLiveProcess
  BY DEF ProcessInv
<1>2. running = c /\ running' = NoChild /\ op' = op /\ Quiet /\ proc' = [proc EXCEPT ![c] = "free"]
  BY <1>1, ChildExitsMoves DEF SerialInv, Alone
<1>3. \A k \in Calls : pc[k] \in ExitWaits => target[k] = c /\ Deliberate
  <2>1. ASSUME NEW k \in Calls, pc[k] \in ExitWaits PROVE target[k] = c /\ Deliberate
    <3>1. target[k] = c
      BY <1>1, <1>2, <2>1 DEF WaitsOnLiveProcess, SerialInv, Alone
    <3>2. state = "stopping" \/ daemon # "up"
      BY <2>1 DEF SerialInv, Fits
    <3>3. QED
      BY <1>2, <3>1, <3>2 DEF Deliberate, Quiet, Alive
  <2>2. QED
    BY <2>1
<1>4. \A k \in Calls :
         \/ pc'[k] = pc[k] /\ pc[k] \notin ExitWaits /\ pc[k] # "woken"
         \/ pc'[k] = "woken" /\ pc[k] \in ExitWaits /\ ~armed'
         \/ pc'[k] = "woken" /\ pc[k] = "jobWait" /\ op[k] = "run"
  <2>1. Deliberate => ~armed'
    BY <1>1, <1>2, ChildExitsMoves
  <2>2. \A k \in Calls : pc[k] # "woken"
    BY <1>2 DEF Quiet
  <2>3. QED
    BY <1>1, <1>3, <2>1, <2>2, ChildExitsMoves DEF RunInv
<1>5. OneBusy'
  <2>1. \A k \in Calls : Busy(k)' => Busy(k)
    BY <1>2, <1>4 DEF Busy, ExitWaits
  <2>2. QED
    BY <2>1 DEF SerialInv, OneBusy
<1>6. Alone' /\ UpStates'
  BY <1>1, <1>2 DEF SerialInv, Alone, UpStates, TypeOK
<1>7. \A k \in Calls : Fits(k)'
  <2>1. \A k \in Calls : pc[k] # "opening"
    BY <1>2, ConstantsAssumption DEF SerialInv, Fits
  <2>2. QED
    BY <1>2, <1>4, <2>1 DEF Fits, ExitWaits
<1>8. QED
  BY <1>5, <1>6, <1>7 DEF SerialInv

\* Each step is the move of the one call in progress, the exit of the one process, or an aside.
LEMMA SerialStep ==
    ASSUME Overlap = {}, ProcessInv, RunInv, SerialInv, [Next]_vars
    PROVE  SerialInv'
<1> USE DEF lifecycle, calls, jobs, relauncher
<1>0. TypeOK /\ StateHasProcess /\ WaitsOnLiveProcess
  BY DEF ProcessInv
<1>1. ASSUME NEW k \in Calls, Continuation(k) PROVE SerialInv'
  <2>1. CASE StopReturns(k)
    BY <1>0, <2>1, ReturnMoves, SerialAside DEF StopReturns
  <2>2. CASE ~StopReturns(k)
    <3>1. /\ pc[k] = "woken" /\ op[k] \notin {"stop", "run"} /\ Busy(k)
          /\ UNCHANGED <<running, proc>>
      BY <1>1, <2>2 DEF Continuation, RestartContinues, PauseContinues, QuarantineContinues,
         ShutdownContinues, Busy
    <3>2. CASE RestartContinues(k)
      BY <1>0, <3>1, <3>2, SerialStarts DEF RestartContinues
    <3>3. CASE PauseContinues(k) \/ QuarantineContinues(k) \/ ShutdownContinues(k)
      <4>1. Return(k)
        BY <3>3 DEF PauseContinues, QuarantineContinues, ShutdownContinues
      <4>2. running = NoChild
        BY <3>1 DEF SerialInv, Fits
      <4>3. Alone' /\ UpStates'
        BY <3>1, <4>2 DEF SerialInv, Alone, UpStates
      <4>4. Others(k) /\ Fits(k)'
        BY <1>0, <4>1, ReturnMoves DEF Fits, ExitWaits
      <4>5. QED
        BY <3>1, <4>3, <4>4, SerialKept
    <3>4. QED
      BY <1>1, <2>2, <3>2, <3>3 DEF Continuation
  <2>3. QED
    BY <2>1, <2>2
<1>2. ASSUME NEW k \in Calls, IOCompletes(k) PROVE SerialInv'
  <2>1. CASE LogOpened(k)
    <3>1. PICK c \in Children :
             /\ pc[k] = "opening" /\ proc[c] = "free" /\ proc' = [proc EXCEPT ![c] = "live"]
             /\ running' = c /\ Suspend(k, op[k], "settling", c) /\ UNCHANGED state
      BY <2>1 DEF LogOpened
    <3>2. Busy(k) /\ running = NoChild /\ state = "starting"
      BY <3>1 DEF Busy, SerialInv, Fits
    <3>3. Others(k) /\ pc'[k] = "settling"
      BY <1>0, <3>1, SuspendMoves
    <3>4. Alone' /\ UpStates'
      BY <1>0, <3>1, <3>2, ConstantsAssumption DEF SerialInv, Alone, UpStates, TypeOK
    <3>5. Fits(k)'
      BY <3>1, <3>2, <3>3 DEF Fits, ExitWaits
    <3>6. QED
      BY <3>2, <3>3, <3>4, <3>5, SerialKept
  <2>2. CASE LogOpenFails(k)
    <3>1. /\ Others(k) /\ pc'[k] = "idle" /\ UNCHANGED <<state, running, proc, armed>>
          /\ daemon' \in {daemon, "crashed"}
      BY <1>0, <2>2, ReturnMoves DEF LogOpenFails, StartThrows
    <3>2. QED
      BY <3>1, SerialAside
  <2>3. CASE ChargePersisted(k)
    <3>1. CASE BeginStop(k, "charge")
      BY <1>0, <2>3, <3>1, MayBeginAlone, SerialStops DEF ChargePersisted
    <3>2. CASE UNCHANGED <<lifecycle, relauncher, daemon, calls>>
      BY <3>2, SerialAside
    <3>3. QED
      BY <2>3, <3>1, <3>2 DEF ChargePersisted
  <2>4. CASE OverrideStored(k)
    <3>1. Busy(k) /\ UNCHANGED <<running, proc>>
      BY <2>4 DEF OverrideStored, Busy
    <3>2. CASE Reach(k, "resumed") /\ UNCHANGED state
      <4>1. Others(k) /\ Fits(k)' /\ Alone' /\ UpStates'
        BY <1>0, <3>1, <3>2, ReachMoves DEF Fits, ExitWaits, SerialInv, Alone, UpStates
      <4>2. QED
        BY <3>1, <4>1, SerialKept
    <3>3. CASE running = NoChild /\ EnterStart(k, "override", Resumed)
      BY <1>0, <3>1, <3>3, SerialStarts
    <3>4. QED
      BY <2>4, <3>2, <3>3 DEF OverrideStored
  <2>5. CASE OverrideResumed(k)
    <3>1. CASE Return(k) /\ UNCHANGED <<lifecycle, relauncher>>
      <4>1. UNCHANGED daemon
        BY <2>5 DEF OverrideResumed
      <4>2. QED
        BY <1>0, <3>1, <4>1, ReturnMoves, SerialAside
    <3>2. CASE BeginStop(k, "override")
      <4>1. Busy(k)
        BY <2>5 DEF OverrideResumed, Busy
      <4>2. QED
        BY <1>0, <3>2, <4>1, SerialStops
    <3>3. QED
      BY <2>5, <3>1, <3>2 DEF OverrideResumed
  <2>6. QED
    BY <1>2, <2>1, <2>2, <2>3, <2>4, <2>5 DEF IOCompletes
<1>3. ASSUME NEW k \in Calls, TimerFires(k) PROVE SerialInv'
  <2>1. CASE SettledUp(k)
    <3>0. pc[k] = "settling" /\ state' = "running" /\ UNCHANGED <<running, proc>>
      BY <2>1 DEF SettledUp
    <3>1. /\ Busy(k)
          /\ \/ Reach(k, "resumed") \/ Reach(k, "jobWait") \/ Return(k)
             \/ op[k] = "run" /\ Reach(k, "woken")
      <4>1. Busy(k)
        BY <3>0 DEF Busy
      <4>2. \/ Reach(k, "resumed") \/ Reach(k, "jobWait") \/ Return(k)
            \/ op[k] = "run" /\ Reach(k, "woken")
        BY <2>1, ZenonT(30) DEF SettledUp
      <4>3. QED
        BY <4>1, <4>2
    <3>2. /\ Others(k)
          /\ pc'[k] \in {"resumed", "jobWait", "idle"} \/ (pc'[k] = "woken" /\ op'[k] = "run")
      BY <1>0, <3>1, ReachMoves, ReturnMoves
    <3>3. Fits(k)' /\ Alone' /\ UpStates'
      BY <3>0, <3>2 DEF Fits, ExitWaits, SerialInv, Alone, UpStates
    <3>4. QED
      BY <3>1, <3>2, <3>3, SerialKept
  <2>2. CASE SettledDown(k)
    <3>1. /\ Others(k) /\ pc'[k] = "idle" /\ UNCHANGED <<state, running, proc, armed>>
          /\ daemon' \in {daemon, "crashed"}
      BY <1>0, <2>2, ReturnMoves DEF SettledDown, StartThrows
    <3>2. QED
      BY <3>1, SerialAside
  <2>3. CASE StopTimeout(k) \/ TerminateTimeout(k)
    <3>1. /\ pc[k] \in {"stopWait", "termWait"} /\ UNCHANGED <<state, running, armed, daemon>>
          /\ Reach(k, "termWait") \/ Reach(k, "killWait")
      BY <2>3 DEF StopTimeout, TerminateTimeout
    <3>2. target[k] \in Children /\ proc[target[k]] # "free" /\ \E p : proc' = [proc EXCEPT ![target[k]] = p]
      BY <1>0, <2>3, <3>1 DEF StopTimeout, TerminateTimeout, WaitsOnLiveProcess, ExitWaits
    <3>3. Others(k) /\ Busy(k) /\ Fits(k)'
      BY <1>0, <3>1, ReachMoves DEF Busy, SerialInv, Fits, ExitWaits
    <3>4. Alone' /\ UpStates'
      BY <1>0, <3>1, <3>2 DEF SerialInv, Alone, UpStates, TypeOK
    <3>5. QED
      BY <3>3, <3>4, SerialKept
  <2>4. CASE RelaunchFires(k)
    BY <1>0, <2>4, MayBeginAlone, SerialStarts DEF RelaunchFires
  <2>5. CASE ResumeFires(k)
    <3>1. CASE running # NoChild
      BY <2>5, <3>1, SerialAside DEF ResumeFires
    <3>2. CASE running = NoChild
      BY <1>0, <2>5, <3>2, MayBeginAlone, SerialStarts DEF ResumeFires
    <3>3. QED
      BY <3>1, <3>2
  <2>6. QED
    BY <1>3, <2>1, <2>2, <2>3, <2>4, <2>5 DEF TimerFires
<1>4. ASSUME NEW k \in Calls, Request(k) PROVE SerialInv'
  <2>1. CASE Start(k)
    BY <1>0, <2>1, MayBeginAlone, SerialStarts DEF Start
  <2>2. CASE Stop(k) \/ Restart(k) \/ Quarantine(k)
    BY <1>0, <2>2, MayBeginAlone, SerialStops DEF Stop, Restart, Quarantine
  <2>3. ASSUME NEW o, LaunchJob(k, o) PROVE SerialInv'
    <3>1. CASE running # NoChild
      BY <2>3, <3>1, SerialAside DEF LaunchJob
    <3>2. CASE running = NoChild
      BY <1>0, <2>3, <3>2, MayBeginAlone, SerialStarts DEF LaunchJob
    <3>3. QED
      BY <3>1, <3>2
  <2>4. CASE Override(k)
    <3>1. Suspend(k, "override", "storing", NoChild) /\ UNCHANGED lifecycle /\ \A j \in Calls : ~Busy(j)
      BY <2>4, MayBeginAlone DEF Override
    <3>2. Others(k) /\ Fits(k)' /\ Alone' /\ UpStates'
      BY <1>0, <3>1, SuspendMoves DEF Fits, ExitWaits, SerialInv, Alone, UpStates
    <3>3. QED
      BY <3>1, <3>2, SerialKept
  <2>5. CASE Shutdown(k)
    <3>1. /\ \A j \in Calls : ~Busy(j)
          /\ ~armed' /\ daemon' = "shuttingDown" /\ UNCHANGED <<state, running>>
          /\ \/ running = NoChild /\ proc' = proc /\ Suspend(k, "shutdown", "woken", NoChild)
             \/ /\ running # NoChild /\ Suspend(k, "shutdown", "termWait", running)
                /\ proc' = [proc EXCEPT ![running] = IF @ = "kill" THEN @ ELSE "term"]
      BY <2>5, MayBeginAlone DEF Shutdown
    <3>2. Others(k) /\ Fits(k)'
      BY <1>0, <3>1, SuspendMoves DEF Fits, ExitWaits
    <3>3. Alone' /\ UpStates'
      BY <1>0, <3>1 DEF SerialInv, Alone, UpStates, TypeOK
    <3>4. QED
      BY <3>1, <3>2, <3>3, SerialKept
  <2>6. QED
    BY <1>4, <2>1, <2>2, <2>3, <2>4, <2>5 DEF Request
<1>5. ASSUME NEW k \in Calls, Event(k) PROVE SerialInv'
  <2>1. CASE JobTurnEnds(k)
    BY <1>0, <2>1, MayBeginAlone, SerialStops DEF JobTurnEnds
  <2>2. CASE FailureEvent(k)
    <3>1. CASE BeginStop(k, "quarantine")
      BY <1>0, <2>2, <3>1, MayBeginAlone, SerialStops DEF FailureEvent
    <3>2. CASE UNCHANGED <<lifecycle, relauncher, daemon, calls>>
      BY <3>2, SerialAside
    <3>3. QED
      BY <2>2, <3>1, <3>2 DEF FailureEvent
  <2>3. QED
    BY <1>5, <2>1, <2>2 DEF Event
<1>6. ASSUME NEW c \in Children, ChildExits(c) PROVE SerialInv'
  BY <1>6, SerialExits
<1>7. CASE Unquarantine \/ UsageEvent \/ UNCHANGED vars
  BY <1>7, SerialAside DEF Unquarantine, UsageEvent, vars
<1>8. QED
  BY <1>1, <1>2, <1>3, <1>4, <1>5, <1>6, <1>7 DEF Next

\* The invariant behind the theorem that follows.
LEMMA SerialInvariant ==
    ASSUME Overlap = {}
    PROVE  Spec => []SerialInv
<1>1. Init => SerialInv
  BY DEF Init, SerialInv, OneBusy, Busy, Alone, UpStates, Fits, ExitWaits
<1>2. ProcessInv /\ RunInv /\ SerialInv /\ [Next]_vars => SerialInv'
  BY SerialStep
<1>3. "run" \notin Overlap
  OBVIOUS
<1>4. Spec => []RunInv
  BY <1>3, RunInvariant
<1>5. QED
  BY <1>1, <1>2, <1>4, ProcessInvariant, PTL DEF Spec

\* At most one pi process of the service is alive, if calls do not overlap (start, launchJob).
THEOREM OneProcessTheorem ==
    ASSUME Overlap = {}
    PROVE  Spec => []OneProcess
<1>1. ASSUME SerialInv PROVE OneProcess
  <2>1. PICK up : up = {c \in Children : proc[c] # "free"}
    OBVIOUS
  <2>2. CASE up = {}
    BY <2>1, <2>2, FS_EmptySet DEF OneProcess
  <2>3. ASSUME NEW c \in up PROVE OneProcess
    <3>1. up = {c}
      BY <1>1, <2>1, <2>3 DEF SerialInv, Alone
    <3>2. Cardinality(up) = 1
      BY <3>1, FS_Singleton
    <3>3. QED
      BY <2>1, <3>2 DEF OneProcess
  <2>4. QED
    BY <2>2, <2>3
<1>2. QED
  BY <1>1, SerialInvariant, PTL

-----------------------------------------------------------------------------
(* The documented life cycle. *)

\* Nothing of a budget is under way.
NoBudget ==
    /\ state # "paused" /\ ~resumeArmed /\ ~charging
    /\ \A k \in Calls :
          op[k] \notin {"charge", "override", "resume"} /\ pc[k] \notin {"storing", "resumed"}

\* What the step from one documented state to another rests on.
LifecycleInv == TypeOK /\ StateHasProcess /\ SerialInv /\ NoBudget

\* The step a user of `pid status` sees.
Seen == [Abstract!Next]_(Abstract!vars)

\* Nothing a user sees changes.
LEMMA SeenAside ==
    ASSUME UNCHANGED <<state, running, armed, held>>
    PROVE  Seen
BY DEF Seen, Abstract!vars

\* A relaunch that was pending is not any more.
LEMMA SeenDisarmed ==
    ASSUME UNCHANGED <<state, running, held>>, armed' = FALSE
    PROVE  Seen
<1>1. Abstract!GoesDown
  BY DEF Abstract!GoesDown
<1>2. QED
  BY <1>1 DEF Seen, Abstract!Next

\* One call moves, to where no budget is concerned.
LEMMA BudgetlessKept ==
    ASSUME NoBudget, state' # "paused", UNCHANGED charging, resumeArmed' => resumeArmed,
           NEW k \in Calls, Others(k),
           op'[k] \notin {"charge", "override", "resume"}, pc'[k] \notin {"storing", "resumed"}
    PROVE  NoBudget'
BY DEF NoBudget, Others

\* No call moves.
LEMMA BudgetlessAside ==
    ASSUME NoBudget, state' # "paused", UNCHANGED <<charging, op, pc>>, resumeArmed' => resumeArmed
    PROVE  NoBudget'
BY DEF NoBudget

\* start() goes on to open the log, or is refused: each is a documented step, and so is the
\* relaunch dropped by a start that finds the service starting.
LEMMA StartSeen ==
    ASSUME LifecycleInv, NEW k \in Calls, NEW o \in Ops \ {"charge", "override", "resume"},
           EnterStart(k, o, state), UNCHANGED armed \/ armed' = FALSE,
           UNCHANGED <<running, held, resumeArmed, charging>>
    PROVE  Seen /\ NoBudget'
<1> USE DEF LifecycleInv
<1>1. /\ Others(k) /\ op'[k] \in {o, "none"} /\ pc'[k] \in {"opening", "idle"}
      /\ \/ StartAccepted(state) /\ state' = "starting"
         \/ state' = state
  BY EnterStartMoves
<1>2. NoBudget'
  BY <1>1, BudgetlessKept DEF NoBudget
<1>3. CASE state' = state
  BY <1>2, <1>3, SeenAside, SeenDisarmed
<1>4. CASE state' # state
  <2>1. running = NoChild /\ state \in {"stopped", "failed"} /\ state' = "starting"
    BY <1>1, <1>4 DEF StartAccepted, StateHasProcess, TypeOK, ServiceStates
  <2>2. armed' => armed
    OBVIOUS
  <2>3. Abstract!Launch
    BY <2>1, <2>2 DEF Abstract!Launch
  <2>4. QED
    BY <1>2, <2>3 DEF Seen, Abstract!Next
<1>5. QED
  BY <1>3, <1>4

\* stop() up to its first await.
LEMMA StopSeen ==
    ASSUME LifecycleInv, NEW k \in Calls, NEW o \in Ops \ {"charge", "override", "resume"},
           BeginStop(k, o), UNCHANGED <<held, charging>>
    PROVE  Seen /\ NoBudget'
<1> USE DEF LifecycleInv
<1>1. /\ Others(k) /\ op'[k] = o /\ pc'[k] \in {"woken", "stopWait"}
      /\ running' = running /\ state' = IF running # NoChild THEN "stopping" ELSE state
  BY BeginStopMoves DEF NoBudget
<1>2. armed' = FALSE /\ (resumeArmed' => resumeArmed)
  <2>1. armed' = FALSE
    BY DEF BeginStop
  <2>2. resumeArmed' => resumeArmed
    <3>1. CASE resumeArmed' = resumeArmed
      BY <3>1
    <3>2. CASE resumeArmed' <=> resumeArmed /\ state # "paused"
      BY <3>2
    <3>3. QED
      BY <3>1, <3>2, ZenonT(30) DEF BeginStop
  <2>3. QED
    BY <2>1, <2>2
<1>3. NoBudget'
  BY <1>1, <1>2, BudgetlessKept DEF NoBudget
<1>4. Abstract!StopRequested
  BY <1>1, <1>2 DEF Abstract!StopRequested
<1>5. QED
  BY <1>3, <1>4 DEF Seen, Abstract!Next

\* The exit of the managed child, which is the only one.
LEMMA ExitSeen ==
    ASSUME LifecycleInv, TypeOK', NEW c \in Children, ChildExits(c)
    PROVE  Seen /\ NoBudget'
<1> USE DEF LifecycleInv
<1>1. UNCHANGED <<op, resumeArmed, charging>>
  BY DEF ChildExits, StaleExit, DeliberateExit, QuarantiningExit, IneligibleExit, DeclinedExit,
     RelaunchedExit, GivenUpExit, PassedExit, FinalizeExit, Wake, governor
<1>2. running = c /\ running' = NoChild /\ c # NoChild /\ \A k \in Calls : pc'[k] \in {pc[k], "woken"}
  BY ChildExitsMoves, ConstantsAssumption DEF SerialInv, Alone
<1>3. /\ state' \in {"stopped", "failed", "quarantined"}
      /\ state' = "quarantined" => ~Deliberate /\ ~armed' /\ held'
      /\ state' # "quarantined" => UNCHANGED held
      /\ state' = "failed" => ~Deliberate
      /\ Deliberate => ~armed'
      /\ ~Deliberate /\ state' # "quarantined" => (armed => armed')
  BY <1>2, ChildExitsMoves
<1>4. NoBudget'
  BY <1>1, <1>2, <1>3 DEF NoBudget
<1>5. armed' \in BOOLEAN /\ held' \in BOOLEAN
  BY DEF TypeOK
<1>6. ~Deliberate => state \in {"starting", "running"}
  BY <1>2 DEF Deliberate, SerialInv, UpStates
<1>7. CASE state' = "quarantined"
  <2>1. armed' = FALSE /\ held' = TRUE
    BY <1>3, <1>5, <1>7
  <2>2. Abstract!Quarantined
    BY <1>2, <1>3, <1>6, <1>7, <2>1 DEF Abstract!Quarantined
  <2>3. QED
    BY <1>4, <2>2 DEF Seen, Abstract!Next
<1>8. CASE state' # "quarantined" /\ Deliberate
  <2>1. armed' = FALSE /\ state' = "stopped"
    BY <1>3, <1>5, <1>8
  <2>2. Abstract!WentDown
    BY <1>2, <1>3, <1>8, <2>1 DEF Abstract!WentDown
  <2>3. QED
    BY <1>4, <2>2 DEF Seen, Abstract!Next
<1>9. CASE state' # "quarantined" /\ ~Deliberate
  <2>1. Abstract!Died
    BY <1>2, <1>3, <1>5, <1>6, <1>9 DEF Abstract!Died
  <2>2. QED
    BY <1>4, <2>1 DEF Seen, Abstract!Next
<1>10. QED
  BY <1>7, <1>8, <1>9

\* Each step of the code is a step of the documented life cycle, or one nobody sees.
LEMMA LifecycleStep ==
    ASSUME Overlap = {}, Requests \cap {"override", "charge"} = {},
           LifecycleInv, TypeOK', [Next]_vars
    PROVE  Seen /\ NoBudget'
<1> USE DEF lifecycle, calls, jobs, relauncher, crash, governor, LifecycleInv
<1>1. ASSUME NEW k \in Calls, Continuation(k) PROVE Seen /\ NoBudget'
  <2>1. CASE StopReturns(k) \/ ShutdownContinues(k)
    <3>1. Return(k) /\ UNCHANGED <<lifecycle, relauncher, crash, governor>>
      BY <2>1 DEF StopReturns, ShutdownContinues
    <3>2. NoBudget'
      BY <3>1, ReturnMoves, BudgetlessKept DEF NoBudget
    <3>3. QED
      BY <3>1, <3>2, SeenAside
  <2>2. CASE RestartContinues(k)
    BY <2>2, StartSeen DEF RestartContinues, Ops
  <2>3. CASE QuarantineContinues(k)
    <3>1. /\ Return(k) /\ state' = "quarantined" /\ held' = TRUE
          /\ pc[k] = "woken" /\ op[k] = "quarantine" /\ UNCHANGED <<running, armed, governor>>
      BY <2>3 DEF QuarantineContinues
    <3>2. running = NoChild /\ ~armed
      BY <3>1 DEF SerialInv, Fits
    <3>3. NoBudget'
      BY <3>1, ReturnMoves, BudgetlessKept DEF NoBudget
    <3>4. armed' = FALSE
      BY <3>1, <3>2 DEF TypeOK
    <3>5. Abstract!Quarantined
      BY <3>1, <3>2, <3>4 DEF Abstract!Quarantined
    <3>6. QED
      BY <3>3, <3>5 DEF Seen, Abstract!Next
  <2>4. ~PauseContinues(k)
    BY DEF PauseContinues, NoBudget
  <2>5. QED
    BY <1>1, <2>1, <2>2, <2>3, <2>4 DEF Continuation
<1>2. ASSUME NEW k \in Calls, IOCompletes(k) PROVE Seen /\ NoBudget'
  <2>1. CASE LogOpened(k)
    <3>1. PICK c \in Children :
             /\ pc[k] = "opening" /\ running' = c /\ Suspend(k, op[k], "settling", c)
             /\ UNCHANGED <<state, relauncher, crash, governor>>
      BY <2>1 DEF LogOpened
    <3>2. running = NoChild /\ state = "starting" /\ c # NoChild
      BY <3>1, ConstantsAssumption DEF SerialInv, Fits
    <3>3. Others(k) /\ op'[k] = op[k] /\ pc'[k] = "settling"
      BY <3>1, SuspendMoves
    <3>4. NoBudget'
      BY <3>1, <3>3, BudgetlessKept DEF NoBudget
    <3>5. Abstract!Spawned
      BY <3>1, <3>2 DEF Abstract!Spawned
    <3>6. QED
      BY <3>4, <3>5 DEF Seen, Abstract!Next
  <2>2. CASE LogOpenFails(k)
    <3>1. Return(k) /\ UNCHANGED <<lifecycle, relauncher, crash, governor>>
      BY <2>2 DEF LogOpenFails, StartThrows
    <3>2. NoBudget'
      BY <3>1, ReturnMoves, BudgetlessKept DEF NoBudget
    <3>3. QED
      BY <3>1, <3>2, SeenAside
  <2>3. ~ChargePersisted(k) /\ ~OverrideStored(k) /\ ~OverrideResumed(k)
    BY DEF ChargePersisted, OverrideStored, OverrideResumed, NoBudget
  <2>4. QED
    BY <1>2, <2>1, <2>2, <2>3 DEF IOCompletes
<1>3. ASSUME NEW k \in Calls, TimerFires(k) PROVE Seen /\ NoBudget'
  <2>1. CASE SettledUp(k)
    <3>1. /\ pc[k] = "settling" /\ running # NoChild /\ state' = "running"
          /\ UNCHANGED <<running, armed, crash, governor>>
      BY <2>1 DEF SettledUp
    <3>2. Reach(k, "jobWait") \/ Reach(k, "woken") \/ Return(k)
      BY <2>1 DEF SettledUp, NoBudget
    <3>3. Others(k) /\ op'[k] \in {op[k], "none"} /\ pc'[k] \in {"jobWait", "woken", "idle"}
      BY <3>2, ReachMoves, ReturnMoves
    <3>4. NoBudget'
      BY <3>1, <3>3, BudgetlessKept DEF NoBudget
    <3>5. state = "starting"
      BY <3>1 DEF SerialInv, Fits
    <3>6. Abstract!CameUp
      BY <3>1, <3>5 DEF Abstract!CameUp
    <3>7. QED
      BY <3>4, <3>6 DEF Seen, Abstract!Next
  <2>2. CASE SettledDown(k)
    <3>1. Return(k) /\ UNCHANGED <<lifecycle, relauncher, crash, governor>>
      BY <2>2 DEF SettledDown, StartThrows
    <3>2. NoBudget'
      BY <3>1, ReturnMoves, BudgetlessKept DEF NoBudget
    <3>3. QED
      BY <3>1, <3>2, SeenAside
  <2>3. CASE StopTimeout(k) \/ TerminateTimeout(k)
    <3>1. /\ Reach(k, "termWait") \/ Reach(k, "killWait")
          /\ UNCHANGED <<state, running, relauncher, crash, governor>>
      BY <2>3 DEF StopTimeout, TerminateTimeout
    <3>2. Others(k) /\ op'[k] = op[k] /\ pc'[k] \in {"termWait", "killWait"}
      BY <3>1, ReachMoves
    <3>3. NoBudget'
      BY <3>1, <3>2, BudgetlessKept DEF NoBudget
    <3>4. QED
      BY <3>1, <3>3, SeenAside
  <2>4. CASE RelaunchFires(k)
    BY <2>4, StartSeen DEF RelaunchFires, Ops
  <2>5. ~ResumeFires(k)
    BY DEF ResumeFires, NoBudget
  <2>6. QED
    BY <1>3, <2>1, <2>2, <2>3, <2>4, <2>5 DEF TimerFires
<1>4. ASSUME NEW k \in Calls, Request(k) PROVE Seen /\ NoBudget'
  <2>1. CASE Start(k)
    BY <2>1, StartSeen DEF Start, Ops
  <2>2. CASE Stop(k) \/ Restart(k) \/ Quarantine(k)
    BY <2>2, StopSeen DEF Stop, Restart, Quarantine, Ops
  <2>3. ASSUME NEW o \in {"run", "fire"}, LaunchJob(k, o) PROVE Seen /\ NoBudget'
    <3>1. CASE running # NoChild
      <4>1. UNCHANGED <<state, running, relauncher, crash, governor, calls>>
        BY <2>3, <3>1 DEF LaunchJob
      <4>2. NoBudget'
        BY <4>1, BudgetlessAside DEF NoBudget
      <4>3. QED
        BY <4>1, <4>2, SeenAside
    <3>2. CASE running = NoChild
      BY <2>3, <3>2, StartSeen DEF LaunchJob, Ops
    <3>3. QED
      BY <3>1, <3>2
  <2>4. ~Override(k)
    BY DEF Override
  <2>5. CASE Shutdown(k)
    <3>1. /\ armed' = FALSE /\ resumeArmed' = FALSE /\ UNCHANGED <<state, running, crash, charging>>
          /\ Suspend(k, "shutdown", "woken", NoChild) \/ Suspend(k, "shutdown", "termWait", running)
      BY <2>5 DEF Shutdown
    <3>2. Others(k) /\ op'[k] = "shutdown" /\ pc'[k] \in {"woken", "termWait"}
      BY <3>1, SuspendMoves
    <3>3. NoBudget'
      BY <3>1, <3>2, BudgetlessKept DEF NoBudget
    <3>4. QED
      BY <3>1, <3>3, SeenDisarmed
  <2>6. QED
    BY <1>4, <2>1, <2>2, <2>3, <2>4, <2>5 DEF Request
<1>5. ASSUME NEW k \in Calls, Event(k) PROVE Seen /\ NoBudget'
  <2>1. CASE JobTurnEnds(k)
    BY <2>1, StopSeen DEF JobTurnEnds, Ops
  <2>2. CASE FailureEvent(k)
    <3>1. CASE BeginStop(k, "quarantine") /\ UNCHANGED <<held, charging>>
      BY <3>1, StopSeen DEF Ops
    <3>2. CASE UNCHANGED <<lifecycle, relauncher, held, governor, calls>>
      BY <3>2, SeenAside, BudgetlessAside DEF NoBudget
    <3>3. QED
      BY <2>2, <3>1, <3>2 DEF FailureEvent
  <2>3. QED
    BY <1>5, <2>1, <2>2 DEF Event
<1>6. ASSUME NEW c \in Children, ChildExits(c) PROVE Seen /\ NoBudget'
  BY <1>6, ExitSeen
<1>7. CASE Unquarantine
  <2>1. /\ state' = (IF state = "quarantined" THEN "stopped" ELSE state) /\ held' = FALSE
        /\ UNCHANGED <<running, relauncher, governor, calls>>
    BY <1>7 DEF Unquarantine
  <2>2. NoBudget'
    BY <2>1, BudgetlessAside DEF NoBudget
  <2>3. Abstract!Released
    BY <2>1 DEF Abstract!Released
  <2>4. QED
    BY <2>2, <2>3 DEF Seen, Abstract!Next
<1>8. ~UsageEvent
  BY DEF UsageEvent
<1>9. CASE UNCHANGED vars
  BY <1>9, SeenAside, BudgetlessAside DEF vars, NoBudget
<1>10. QED
  BY <1>1, <1>2, <1>3, <1>4, <1>5, <1>6, <1>7, <1>8, <1>9 DEF Next

\* The invariant behind the two theorems that follow.
LEMMA NoBudgetInvariant ==
    ASSUME Overlap = {}, Requests \cap {"override", "charge"} = {}
    PROVE  Spec => []NoBudget
<1>1. Init => NoBudget
  BY DEF Init, NoBudget
<1>2. TypeOK /\ TypeOK' /\ StateHasProcess /\ SerialInv /\ NoBudget /\ [Next]_vars => NoBudget'
  BY LifecycleStep DEF LifecycleInv
<1>3. QED
  BY <1>1, <1>2, TypeCorrect, StatesHaveProcesses, SerialInvariant, PTL DEF Spec

\* Every step of the supervisor is a step of the documented life cycle, if calls do not overlap
\* and the service has no budget (start, stop, finalizeExit, quarantine, unquarantine, shutdown).
THEOREM LifecycleRefinement ==
    ASSUME Overlap = {}, Requests \cap {"override", "charge"} = {}
    PROVE  Spec => ImplementsLifecycle
<1>1. Init => Abstract!Init
  BY DEF Init, Abstract!Init
<1>2. TypeOK /\ TypeOK' /\ StateHasProcess /\ SerialInv /\ NoBudget /\ [Next]_vars
      => [Abstract!Next]_(Abstract!vars)
  BY LifecycleStep DEF LifecycleInv, Seen
<1>3. QED
  BY <1>1, <1>2, TypeCorrect, StatesHaveProcesses, SerialInvariant, NoBudgetInvariant, PTL
     DEF Spec, ImplementsLifecycle, Abstract!Spec

\* Only `pid unquarantine` ends a quarantine, under the same conditions: of the documented steps
\* from `quarantined`, no other changes the state (quarantine, unquarantine, start, stop).
THEOREM QuarantinesAreTerminal ==
    ASSUME Overlap = {}, Requests \cap {"override", "charge"} = {}
    PROVE  Spec => QuarantineIsTerminal
<1>1. ASSUME TypeOK, TypeOK', StateHasProcess, SerialInv, NoBudget, [Next]_vars,
             state = "quarantined", state' # "quarantined"
      PROVE  ~held'
  <2>1. running = NoChild
    BY <1>1 DEF SerialInv, UpStates
  <2>2. Seen
    BY <1>1, LifecycleStep DEF LifecycleInv
  <2>3. QED
    BY <1>1, <2>1, <2>2 DEF Seen, Abstract!Next, Abstract!vars, Abstract!Launch, Abstract!Spawned,
       Abstract!CameUp, Abstract!StopRequested, Abstract!WentDown, Abstract!Died,
       Abstract!Quarantined, Abstract!Released, Abstract!RelaunchDropped, Abstract!GoesDown
<1>2. TypeOK /\ TypeOK' /\ StateHasProcess /\ SerialInv /\ NoBudget /\ [Next]_vars
      => [state = "quarantined" /\ state' # "quarantined" => ~held']_vars
  BY <1>1
<1>3. QED
  BY <1>2, TypeCorrect, StatesHaveProcesses, SerialInvariant, NoBudgetInvariant, PTL
     DEF Spec, QuarantineIsTerminal

===============================================================================
