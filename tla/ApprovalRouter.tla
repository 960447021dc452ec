---------------------------- MODULE ApprovalRouter ----------------------------
(***************************************************************************)
(* The approval router (src/approvals/router.ts) between ONE service's pi  *)
(* process and the people who answer its dialogs.  The inbox is keyed by   *)
(* pi's globally unique request ids, so services do not meet in it.        *)
(*                                                                         *)
(* pi itself is external.  It is modelled from what the code relies on     *)
(* (router.ts, "Correlation"): it runs tools concurrently but awaits each  *)
(* tool's hook, where the tool's dialogs are raised, before it emits the   *)
(* next tool's start; a dialog raised while no tool executes is free-      *)
(* standing; a dialog with a timeout is resolved by pi's own clock.  Its   *)
(* stdout is a FIFO the router reads one event at a time; what is unread   *)
(* when it exits is lost, because finalizeExit detaches the reader.        *)
(*                                                                         *)
(* Fire-and-forget requests change nothing and are left out.  What the     *)
(* matcher says of a tool and its command is a constant, Blessed.          *)
(***************************************************************************)
EXTENDS Naturals, Sequences, FiniteSets

CONSTANTS
    Tools,     \* tool calls; a toolCallId is never reused
    Dialogs,   \* extension_ui_requests that want a response; ids are UUIDs
    NoTool,    \* null value
    Blessed,   \* tool calls classify() approves
    Confirms,  \* dialogs with method "confirm"; the others need a value
    Timed,     \* dialogs that carry a timeout
    MaxRuns    \* bound: pi processes started one after the other

ASSUME RouterAssumption ==
    /\ NoTool \notin Tools
    /\ Blessed \subseteq Tools
    /\ Confirms \subseteq Dialogs
    /\ Timed \subseteq Dialogs
    /\ MaxRuns \in Nat \ {0}

VARIABLES
    alive, stdinOpen, runs, \* pi is in the sidecar map; its stdin is open; runs so far
    tool,        \* of each tool call, in pi: "new", "hook", "running" or "done"
    dialog,      \* of each dialog, in pi: "new", "open", its answer, or how it ended
    raisedBy,    \* the tool whose hook raised the dialog; NoTool: free-standing
    stdout,      \* events pi has emitted and the router has not read
    inFlight,    \* Tracked.inFlight
    inbox,       \* ids in the inbox
    timers,      \* ids with an expiry timer
    writes,      \* replies send() has accepted and not yet handed to the pipe
    stdin,       \* replies in the pipe that pi has not read
    trail,       \* pid_approval lines of each dialog
    daemon       \* "up", "shuttingDown" or "crashed"

piState == <<alive, stdinOpen, runs, tool, dialog, raisedBy>>
router  == <<inFlight, inbox, timers>>
pipes   == <<stdout, writes, stdin>>
vars == <<piState, router, pipes, trail, daemon>>

Answers == {"yes", "no"}

\* A reply, and who gave it: the policy or a person (the CLI).
Replies == [id : Dialogs, answer : Answers, by : {"policy", "cli"}]

Event(type, id) == [type |-> type, id |-> id]

Decisions == {"approve", "deny", "expired", "auto_approve"}

Live == daemon # "crashed"

Init ==
    /\ alive = FALSE /\ stdinOpen = FALSE /\ runs = 0
    /\ tool = [t \in Tools |-> "new"]
    /\ dialog = [d \in Dialogs |-> "new"]
    /\ raisedBy = [d \in Dialogs |-> NoTool]
    /\ stdout = <<>> /\ writes = {} /\ stdin = {}
    /\ inFlight = <<>> /\ inbox = {} /\ timers = {}
    /\ trail = [d \in Dialogs |-> <<>>]
    /\ daemon = "up"

-----------------------------------------------------------------------------
(* pi, external. *)

Executing == {t \in Tools : tool[t] \in {"hook", "running"}}

\* A hook waits for its own dialogs, one at a time.
Waiting(t) == \E d \in Dialogs : dialog[d] = "open" /\ raisedBy[d] = t

PiStartsTool(t) ==
    /\ Live /\ alive /\ tool[t] = "new"
    /\ \A u \in Tools : tool[u] # "hook"
    /\ tool' = [tool EXCEPT ![t] = "hook"]
    /\ stdout' = Append(stdout, Event("start", t))
    /\ UNCHANGED <<alive, stdinOpen, runs, dialog, raisedBy, router, writes, stdin, trail, daemon>>

PiLeavesHook(t) ==
    /\ Live /\ tool[t] = "hook" /\ ~Waiting(t)
    /\ tool' = [tool EXCEPT ![t] = "running"]
    /\ UNCHANGED <<alive, stdinOpen, runs, dialog, raisedBy, router, pipes, trail, daemon>>

PiEndsTool(t) ==
    /\ Live /\ tool[t] = "running"
    /\ tool' = [tool EXCEPT ![t] = "done"]
    /\ stdout' = Append(stdout, Event("end", t))
    /\ UNCHANGED <<alive, stdinOpen, runs, dialog, raisedBy, router, writes, stdin, trail, daemon>>

PiAsks(d, t) ==
    /\ Live /\ alive /\ dialog[d] = "new"
    /\ IF t = NoTool THEN Executing = {} ELSE tool[t] = "hook" /\ ~Waiting(t)
    /\ dialog' = [dialog EXCEPT ![d] = "open"]
    /\ raisedBy' = [raisedBy EXCEPT ![d] = t]
    /\ stdout' = Append(stdout, Event("ask", d))
    /\ UNCHANGED <<alive, stdinOpen, runs, tool, router, writes, stdin, trail, daemon>>

\* A reply to a dialog that is not open any more is ignored.
PiReads(r) ==
    /\ Live /\ alive /\ r \in stdin
    /\ stdin' = stdin \ {r}
    /\ dialog' = [dialog EXCEPT ![r.id] = IF @ = "open" THEN r.answer ELSE @]
    /\ UNCHANGED <<alive, stdinOpen, runs, tool, raisedBy, router, stdout, writes, trail, daemon>>

PiTimesOut(d) ==
    /\ Live /\ d \in Timed /\ dialog[d] = "open"
    /\ dialog' = [dialog EXCEPT ![d] = "timedOut"]
    /\ UNCHANGED <<alive, stdinOpen, runs, tool, raisedBy, router, pipes, trail, daemon>>

-----------------------------------------------------------------------------
(* The life of the process, as the router meets it. *)

\* Supervisor.start(): a new process.  The router is not told.
ServiceStarts ==
    /\ Live /\ ~alive /\ runs < MaxRuns
    /\ alive' = TRUE /\ stdinOpen' = TRUE /\ runs' = runs + 1
    /\ UNCHANGED <<tool, dialog, raisedBy, router, pipes, trail, daemon>>

\* Supervisor.stop() ends stdin; pi may still write for a while.
ServiceStopped ==
    /\ Live /\ alive /\ stdinOpen
    /\ stdinOpen' = FALSE
    /\ UNCHANGED <<alive, runs, tool, dialog, raisedBy, router, pipes, trail, daemon>>

\* The process exits, whatever the reason: writes in progress fail, unread output is
\* lost.  The failure of a policy's reply, sent with `void`, is an unhandled rejection.
ServiceExits ==
    /\ Live /\ alive
    /\ alive' = FALSE /\ stdinOpen' = FALSE
    /\ tool' = [t \in Tools |-> IF t \in Executing THEN "done" ELSE tool[t]]
    /\ dialog' = [d \in Dialogs |-> IF dialog[d] = "open" THEN "gone" ELSE dialog[d]]
    /\ stdout' = <<>> /\ writes' = {} /\ stdin' = {}
    /\ daemon' = IF \E r \in writes : r.by = "policy" THEN "crashed" ELSE daemon
    /\ UNCHANGED <<runs, raisedBy, router, trail>>

\* register(): the service adopts a changed definition (start, or a reload).
Register ==
    /\ Live /\ ~alive
    /\ inFlight' = <<>>
    /\ UNCHANGED <<piState, inbox, timers, pipes, trail, daemon>>

\* unregister(), and register() again if the definition comes back.
Unregister ==
    /\ Live /\ ~alive
    /\ inFlight' = <<>> /\ inbox' = {} /\ timers' = {}
    /\ UNCHANGED <<piState, pipes, trail, daemon>>

\* dispose(): the daemon is shutting down.
Dispose ==
    /\ daemon = "up"
    /\ daemon' = "shuttingDown"
    /\ timers' = {}
    /\ UNCHANGED <<piState, inFlight, inbox, pipes, trail>>

-----------------------------------------------------------------------------
(* handleEvent() *)

\* An event of type `type` is at the head of stdout and is read.
Reads(type) ==
    /\ Live /\ alive /\ stdout # <<>>
    /\ Head(stdout).type = type
    /\ stdout' = Tail(stdout)

ToolStarted ==
    /\ Reads("start")
    /\ inFlight' = Append(inFlight, Head(stdout).id)
    /\ UNCHANGED <<piState, inbox, timers, writes, stdin, trail, daemon>>

\* Mutant: tool ends are matched from the wrong end of the stack.
ToolEndedLast ==
    /\ Reads("end")
    /\ inFlight' = IF inFlight = <<>> THEN inFlight ELSE SubSeq(inFlight, 1, Len(inFlight) - 1)
    /\ UNCHANGED <<piState, inbox, timers, writes, stdin, trail, daemon>>

\* findIndex() and splice(): the first entry with the id leaves.
ToolEnded ==
    /\ Reads("end")
    /\ \/ /\ \A i \in DOMAIN inFlight : inFlight[i] # Head(stdout).id
          /\ UNCHANGED inFlight
       \/ \E i \in DOMAIN inFlight :
             /\ inFlight[i] = Head(stdout).id /\ \A j \in 1 .. (i - 1) : inFlight[j] # inFlight[i]
             /\ inFlight' = SubSeq(inFlight, 1, i - 1) \o SubSeq(inFlight, i + 1, Len(inFlight))
    /\ UNCHANGED <<piState, inbox, timers, writes, stdin, trail, daemon>>

\* Mutant: correlation with the tool that has been in flight longest.
CorrelatedFirst == IF inFlight = <<>> THEN NoTool ELSE Head(inFlight)

\* The tool a dialog is attributed to: the most recently started one in flight.
Correlated == IF inFlight = <<>> THEN NoTool ELSE inFlight[Len(inFlight)]

AutoApproved(d) == d \in Confirms /\ Correlated \in Blessed

\* send() rejects when the service is not running or its stdin cannot be written.
CanSend == alive /\ stdinOpen

Sends(d, answer, by) == writes' = writes \cup {[id |-> d, answer |-> answer, by |-> by]}

\* logApproval(): the line is dropped when the service is not running.
Log(d, line) == trail' = IF alive THEN [trail EXCEPT ![d] = Append(@, line)] ELSE trail

\* Mutant: the decision is logged and the reply forgotten.
RouteSilently ==
    /\ Reads("ask") /\ AutoApproved(Head(stdout).id)
    /\ Log(Head(stdout).id, "auto_approve")
    /\ UNCHANGED <<piState, router, writes, stdin, daemon>>

\* route(): the policy answers.  Its send() is not awaited.
RouteAutomatic ==
    /\ Reads("ask") /\ AutoApproved(Head(stdout).id)
    /\ \/ CanSend /\ Sends(Head(stdout).id, "yes", "policy") /\ UNCHANGED daemon
       \/ ~CanSend /\ daemon' = "crashed" /\ UNCHANGED writes
    /\ Log(Head(stdout).id, "auto_approve")
    /\ UNCHANGED <<piState, router, stdin>>

\* route() and enqueue(): a person is asked.
RouteToInbox ==
    /\ Reads("ask") /\ ~AutoApproved(Head(stdout).id)
    /\ inbox' = inbox \cup {Head(stdout).id}
    /\ timers' = timers \cup ({Head(stdout).id} \cap Timed)
    /\ Log(Head(stdout).id, "enqueue")
    /\ UNCHANGED <<piState, inFlight, writes, stdin, daemon>>

-----------------------------------------------------------------------------
(* Answers and expiry. *)

\* Mutant: the entry leaves the inbox only when the reply has been sent.
ClaimLate(d) ==
    /\ d \in inbox
    /\ UNCHANGED <<inbox, timers>>

\* Mutant: the timer of a claimed entry is left running.
ClaimKeepsTimer(d) ==
    /\ d \in inbox
    /\ inbox' = inbox \ {d}
    /\ UNCHANGED timers

Claim(d) ==
    /\ d \in inbox
    /\ inbox' = inbox \ {d}
    /\ timers' = timers \ {d}

\* Mutant: the entry is claimed before the value has been validated.
ApproveUnchecked(d, valueFits) ==
    /\ Live /\ Claim(d)
    /\ IF CanSend /\ (valueFits \/ d \in Confirms) THEN Sends(d, "yes", "cli") ELSE UNCHANGED writes
    /\ UNCHANGED <<piState, inFlight, stdout, stdin, trail, daemon>>

\* approve(): a value that is missing or not offered leaves the entry pending.
Approve(d, valueFits) ==
    /\ Live /\ (valueFits \/ d \in Confirms)
    /\ Claim(d)
    /\ IF CanSend THEN Sends(d, "yes", "cli") ELSE UNCHANGED writes
    /\ UNCHANGED <<piState, inFlight, stdout, stdin, trail, daemon>>

Deny(d) ==
    /\ Live
    /\ Claim(d)
    /\ IF CanSend THEN Sends(d, "no", "cli") ELSE UNCHANGED writes
    /\ UNCHANGED <<piState, inFlight, stdout, stdin, trail, daemon>>

\* The write callback: send() resolves, and approve() or deny() logs its decision.
ReplySent(r) ==
    /\ Live /\ r \in writes
    /\ writes' = writes \ {r}
    /\ stdin' = stdin \cup {r}
    /\ IF r.by = "cli" THEN Log(r.id, IF r.answer = "yes" THEN "approve" ELSE "deny")
                       ELSE UNCHANGED trail
    /\ UNCHANGED <<piState, router, stdout, daemon>>

\* Mutant: the expired entry stays in the inbox.
ExpireKeepsEntry(d) ==
    /\ Live /\ d \in timers
    /\ timers' = timers \ {d}
    /\ Log(d, "expired")
    /\ UNCHANGED <<piState, inFlight, inbox, pipes, daemon>>

Expire(d) ==
    /\ Live /\ d \in timers
    /\ timers' = timers \ {d}
    /\ inbox' = inbox \ {d}
    /\ IF d \in inbox THEN Log(d, "expired") ELSE UNCHANGED trail
    /\ UNCHANGED <<piState, inFlight, pipes, daemon>>

-----------------------------------------------------------------------------

Router ==
    \/ ToolStarted \/ ToolEnded \/ RouteAutomatic \/ RouteToInbox
    \/ \E r \in writes : ReplySent(r)

Pi ==
    \/ \E t \in Tools : PiStartsTool(t) \/ PiLeavesHook(t) \/ PiEndsTool(t)
    \/ \E d \in Dialogs, t \in Tools \cup {NoTool} : PiAsks(d, t)
    \/ \E d \in Dialogs : PiTimesOut(d)
    \/ \E r \in stdin : PiReads(r)

People == \E d \in Dialogs : Deny(d) \/ \E valueFits \in BOOLEAN : Approve(d, valueFits)

Service == ServiceStarts \/ ServiceStopped \/ ServiceExits \/ Register \/ Unregister \/ Dispose

Next == Router \/ Pi \/ People \/ Service \/ \E d \in Dialogs : Expire(d)

Spec == Init /\ [][Next]_vars

(***************************************************************************)
(* Fairness: the event loop delivers every event and every write callback, *)
(* and pi reads its stdin.  Nothing is assumed of people, of timers, or of *)
(* the tools pi runs.                                                      *)
(***************************************************************************)
FairSpec ==
    /\ Spec
    /\ WF_vars(Router)
    /\ WF_vars(\E r \in stdin : PiReads(r))

-----------------------------------------------------------------------------

\* Every variable of the router and of its view of pi has the values the code can
\* give it; a timer is that of an entry still in the inbox (clearTimer).
TypeOK ==
    /\ alive \in BOOLEAN /\ stdinOpen \in BOOLEAN /\ runs \in 0 .. MaxRuns
    /\ tool \in [Tools -> {"new", "hook", "running", "done"}]
    /\ dialog \in [Dialogs -> {"new", "open", "timedOut", "gone"} \cup Answers]
    /\ raisedBy \in [Dialogs -> Tools \cup {NoTool}]
    /\ stdout \in Seq([type : {"start", "end"}, id : Tools] \cup [type : {"ask"}, id : Dialogs])
    /\ inFlight \in Seq(Tools)
    /\ inbox \subseteq Dialogs
    /\ timers \subseteq inbox \cap Timed
    /\ writes \subseteq Replies
    /\ stdin \subseteq Replies
    /\ trail \in [Dialogs -> Seq(Decisions \cup {"enqueue"})]
    /\ daemon \in {"up", "shuttingDown", "crashed"}

\* The dialog's request is still unread in stdout.
Unread(d) == \E i \in DOMAIN stdout : stdout[i] = Event("ask", d)

\* A reply to the dialog is on its way to pi.
Replied(d) == \E r \in writes \cup stdin : r.id = d

\* No dialog is stranded: as long as pi can be written to, a dialog that pi waits on
\* and that no clock will end is unread, in the inbox, or has a reply under way
\* (route, approve's validation before the claim, claim, expire).
NoDialogStranded ==
    \A d \in Dialogs \ Timed :
        dialog[d] = "open" /\ CanSend /\ Live => Unread(d) \/ d \in inbox \/ Replied(d)

\* A dialog gets at most one reply, whatever approve, deny, expiry and policy do at
\* the same time, and one that has a reply can no longer be answered (claim).
AnsweredOnce ==
    /\ \A r, s \in writes \cup stdin : r.id = s.id => r = s
    /\ \A d \in Dialogs : Replied(d) => d \notin inbox

\* The chronicle tells each dialog's life in order: enqueued and then resolved at
\* most once, or approved by policy; one in the inbox has no resolution yet
\* (ADR 0004, decision 11).
TrailIsALife ==
    \A d \in Dialogs :
        /\ trail[d] \in {<<>>, <<"enqueue">>, <<"auto_approve">>}
                            \cup {<<"enqueue", x>> : x \in {"approve", "deny", "expired"}}
        /\ d \in inbox => trail[d] = <<"enqueue">>

\* A dialog a tool's hook raised is answered by policy only if that tool is one the
\* policy approves: however many tools run at once, and whatever earlier processes
\* left in inFlight, the dialog is judged by its own tool (route's correlation).
JudgedByItsTool ==
    \A r \in writes \cup stdin :
        r.by = "policy" /\ raisedBy[r.id] # NoTool => raisedBy[r.id] \in Blessed

\* pi's acceptance is somebody's: a dialog pi takes as confirmed is out of the inbox
\* and neither denied nor expired in the chronicle (claim, expire).
ConfirmedByOneSide ==
    \A d \in Dialogs :
        dialog[d] = "yes" =>
            d \notin inbox /\ trail[d] \notin {<<"enqueue", "deny">>, <<"enqueue", "expired">>}

\* A dialog the chronicle calls auto-approved does not keep pi waiting: pi gets the
\* answer, unless the process exits or the daemon dies first (route).
PolicyAnswers ==
    \A d \in Dialogs : trail[d] = <<"auto_approve">> ~> dialog[d] # "open" \/ ~Live

-----------------------------------------------------------------------------
(* What the repository says and the code does not do: see the README's findings. *)

\* A free-standing dialog is never answered by policy (router.ts header).
FreeStandingIsAsked ==
    \A d \in Dialogs : raisedBy[d] = NoTool => "auto_approve" \notin {trail[d][i] : i \in DOMAIN trail[d]}

===============================================================================
