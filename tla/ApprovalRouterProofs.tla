------------------------- MODULE ApprovalRouterProofs -------------------------
(***************************************************************************)
(* Theorems about ApprovalRouter, for every set of tools and dialogs, every*)
(* policy and every number of runs: each invariant its run checks.         *)
(*                                                                         *)
(* DialogsInv joins, for each dialog, what pi has, what the chronicle says *)
(* and the reply under way; Attributed looks at the events pi has emitted  *)
(* and the router has not read, to say which tool will be the last of      *)
(* inFlight when a dialog's request is read.                               *)
(***************************************************************************)
EXTENDS ApprovalRouter, SequenceTheorems, TLAPS

-----------------------------------------------------------------------------
(* The inductive invariants. *)

\* A process that is gone left nothing to read, and waits for nothing.
GoneIsSilent ==
    /\ stdinOpen => alive
    /\ ~alive => /\ stdout = <<>> /\ writes = {} /\ stdin = {}
                 /\ Executing = {}
                 /\ \A d \in Dialogs : dialog[d] # "open"

\* A request for a dialog is read once.
AskedOnce(d) ==
    \A i, j \in DOMAIN stdout :
        stdout[i] = Event("ask", d) /\ stdout[j] = Event("ask", d) => i = j

\* Where a dialog is tells what the chronicle says of it: nothing until it is read, "enqueue"
\* while it is in the inbox, an approval once pi has it.
Stage(d) ==
    /\ dialog[d] = "new" => ~Unread(d) /\ trail[d] = <<>>
    /\ AskedOnce(d)
    /\ Unread(d) => trail[d] = <<>>
    /\ d \in inbox => trail[d] = <<"enqueue">> /\ ~Replied(d)
    /\ trail[d] \in {<<>>, <<"enqueue">>, <<"auto_approve">>}
                       \cup {<<"enqueue", x>> : x \in {"approve", "deny", "expired"}}
    /\ dialog[d] = "yes" => trail[d] \in {<<"auto_approve">>, <<"enqueue", "approve">>}

Decision(r) == IF r.answer = "yes" THEN "approve" ELSE "deny"

\* What the chronicle says of a dialog whose reply is under way.
Told(r) ==
    IF r.by = "policy" THEN r.answer = "yes" /\ trail[r.id] = <<"auto_approve">>
    ELSE IF r \in writes THEN trail[r.id] = <<"enqueue">>
    ELSE trail[r.id] = <<"enqueue", Decision(r)>>

OneReply == \A r, s \in writes \cup stdin : r.id = s.id => r = s

DialogsInv ==
    /\ GoneIsSilent
    /\ \A d \in Dialogs : Stage(d)
    /\ OneReply
    /\ \A r \in writes \cup stdin : Told(r)
    /\ writes \cap stdin = {}

\* The tool that a dialog behind the first n events would be attributed to: the last to start.
Leads(t, n) ==
    /\ \A i \in 1 .. n : stdout[i] # Event("end", t)
    /\ \/ \E i \in 1 .. n : /\ stdout[i] = Event("start", t)
                            /\ \A j \in (i + 1) .. n : stdout[j].type # "start"
       \/ /\ inFlight # <<>> /\ inFlight[Len(inFlight)] = t
          /\ \A j \in 1 .. n : stdout[j].type # "start"

\* Dialogs that a tool raised are attributed to it, and those that its hook is yet to raise.
Attributed ==
    /\ \A t \in Tools, i \in DOMAIN stdout : stdout[i] = Event("end", t) => tool[t] = "done"
    /\ \A t \in Tools : tool[t] = "hook" => Leads(t, Len(stdout))
    /\ \A i \in DOMAIN stdout, d \in Dialogs :
          stdout[i] = Event("ask", d) /\ raisedBy[d] # NoTool => Leads(raisedBy[d], i - 1)

-----------------------------------------------------------------------------
(* The trails, and the events pi has emitted. *)

Events == [type : {"start", "end"}, id : Tools] \cup [type : {"ask"}, id : Dialogs]

Lines == Decisions \cup {"enqueue"}

\* What distinguishes the lives the chronicle can tell.
LEMMA Trails ==
    ASSUME NEW x \in Lines, NEW y \in Lines
    PROVE  /\ Append(<<>>, x) = <<x>> /\ Append(<<x>>, y) = <<x, y>>
           /\ <<x>> # <<>> /\ <<x, y>> # <<>> /\ \A z \in Lines : <<x, y>> # <<z>>
           /\ <<x>> = <<y>> => x = y
           /\ \A z \in Lines : <<z, x>> = <<z, y>> => x = y
           /\ <<>> \in Seq(Lines) /\ <<x>> \in Seq(Lines) /\ <<x, y>> \in Seq(Lines)
<1>1. Len(<<>>) = 0 /\ Len(<<x>>) = 1 /\ Len(<<x, y>>) = 2 /\ \A z \in Lines : Len(<<z>>) = 1
  OBVIOUS
<1>2. <<x>> # <<>> /\ <<x, y>> # <<>> /\ \A z \in Lines : <<x, y>> # <<z>>
  BY <1>1
<1>3. <<x>> = <<y>> => x = y
  OBVIOUS
<1>4. \A z \in Lines : <<z, x>> = <<z, y>> => x = y
  OBVIOUS
<1>5. Append(<<>>, x) = <<x>> /\ Append(<<x>>, y) = <<x, y>>
  <2>1. <<>> \in Seq(Lines) /\ <<x>> \in Seq(Lines) /\ <<x, y>> \in Seq(Lines)
    OBVIOUS
  <2>2. Append(<<>>, x) \in Seq(Lines) /\ Append(<<x>>, y) \in Seq(Lines)
    BY <2>1, AppendProperties
  <2>3. Append(<<>>, x) = <<x>>
    <3>1. Len(Append(<<>>, x)) = 1 /\ Append(<<>>, x)[1] = x
      BY <1>1, <2>1, AppendProperties
    <3>2. QED
      BY <1>1, <2>1, <2>2, <3>1, SeqEqual
  <2>4. Append(<<x>>, y) = <<x, y>>
    <3>1. /\ Len(Append(<<x>>, y)) = 2
          /\ Append(<<x>>, y)[1] = x /\ Append(<<x>>, y)[2] = y
      BY <1>1, <2>1, AppendProperties
    <3>2. \A i \in 1 .. 2 : Append(<<x>>, y)[i] = <<x, y>>[i]
      <4>1. \A i \in 1 .. 2 : i = 1 \/ i = 2
        OBVIOUS
      <4>2. QED
        BY <3>1, <4>1
    <3>3. QED
      BY <1>1, <2>1, <2>2, <3>1, <3>2, SeqEqual
  <2>5. QED
    BY <2>3, <2>4
<1>6. <<>> \in Seq(Lines) /\ <<x>> \in Seq(Lines) /\ <<x, y>> \in Seq(Lines)
  OBVIOUS
<1>7. QED
  BY <1>2, <1>3, <1>4, <1>5, <1>6

\* An event is read: the others move up.
LEMMA ReadMovesUp ==
    ASSUME TypeOK, NEW type \in {"start", "end", "ask"}, Reads(type)
    PROVE  /\ Len(stdout) \in Nat /\ Len(stdout) > 0 /\ DOMAIN stdout = 1 .. Len(stdout)
           /\ stdout[1] = Head(stdout) /\ stdout[1].type = type
           /\ stdout[1] = Event(type, Head(stdout).id)
           /\ type = "ask" => Head(stdout).id \in Dialogs
           /\ type # "ask" => Head(stdout).id \in Tools
           /\ Len(stdout') = Len(stdout) - 1 /\ stdout' \in Seq(Events)
           /\ DOMAIN stdout' = 1 .. (Len(stdout) - 1)
           /\ \A i \in 1 .. (Len(stdout) - 1) : stdout'[i] = stdout[i + 1]
<1>1. stdout \in Seq(Events) /\ stdout # <<>> /\ stdout' = Tail(stdout) /\ Head(stdout).type = type
  BY DEF TypeOK, Events, Reads
<1>2. /\ Len(stdout) \in Nat /\ Len(stdout) > 0 /\ DOMAIN stdout = 1 .. Len(stdout)
      /\ stdout[1] = Head(stdout) /\ stdout[1] \in Events
  BY <1>1
<1>3. /\ Len(stdout') = Len(stdout) - 1 /\ stdout' \in Seq(Events)
      /\ DOMAIN stdout' = 1 .. (Len(stdout) - 1)
      /\ \A i \in 1 .. (Len(stdout) - 1) : stdout'[i] = stdout[i + 1]
  BY <1>1, <1>2
<1>4. /\ stdout[1] = Event(type, Head(stdout).id)
      /\ type = "ask" => Head(stdout).id \in Dialogs
      /\ type # "ask" => Head(stdout).id \in Tools
  BY <1>1, <1>2 DEF Events, Event
<1>5. QED
  BY <1>1, <1>2, <1>3, <1>4

\* An event is emitted: it is the last.
LEMMA EmitsLast ==
    ASSUME TypeOK, NEW e \in Events, stdout' = Append(stdout, e)
    PROVE  /\ Len(stdout) \in Nat /\ DOMAIN stdout = 1 .. Len(stdout)
           /\ stdout' \in Seq(Events)
           /\ Len(stdout') = Len(stdout) + 1 /\ DOMAIN stdout' = 1 .. (Len(stdout) + 1)
           /\ \A i \in 1 .. Len(stdout) : stdout'[i] = stdout[i]
           /\ stdout'[Len(stdout) + 1] = e
BY DEF TypeOK, Events

LEMMA EventsTyped ==
    /\ \A t \in Tools : Event("start", t) \in Events /\ Event("end", t) \in Events
    /\ \A d \in Dialogs : Event("ask", d) \in Events
    /\ \A d, e \in Dialogs : Event("ask", d) = Event("ask", e) => d = e
    /\ \A d \in Dialogs, t \in Tools : Event("ask", d) \notin {Event("start", t), Event("end", t)}
BY DEF Event, Events

\* A line is appended to the trail of one dialog, or dropped.
LEMMA LogTyped ==
    ASSUME TypeOK, NEW d \in Dialogs, NEW line \in Lines, Log(d, line)
    PROVE  /\ trail' \in [Dialogs -> Seq(Lines)]
           /\ \A e \in Dialogs \ {d} : trail'[e] = trail[e]
           /\ trail'[d] = IF alive THEN Append(trail[d], line) ELSE trail[d]
BY DEF Log, TypeOK, Lines

-----------------------------------------------------------------------------
(* Types. *)

LEMMA PiTyped ==
    ASSUME TypeOK, Pi
    PROVE  TypeOK'
<1> USE EventsTyped DEF Events
<1>1. ASSUME NEW t \in Tools, PiStartsTool(t) \/ PiEndsTool(t) PROVE TypeOK'
  <2>1. stdout' \in Seq(Events)
    BY <1>1, EmitsLast DEF PiStartsTool, PiEndsTool
  <2>2. QED
    BY <1>1, <2>1 DEF PiStartsTool, PiEndsTool, TypeOK, router
<1>2. ASSUME NEW t \in Tools, PiLeavesHook(t) PROVE TypeOK'
  BY <1>2 DEF PiLeavesHook, TypeOK, router, pipes
<1>3. ASSUME NEW d \in Dialogs, NEW t \in Tools \cup {NoTool}, PiAsks(d, t) PROVE TypeOK'
  <2>1. stdout' \in Seq(Events)
    BY <1>3, EmitsLast DEF PiAsks
  <2>2. QED
    BY <1>3, <2>1 DEF PiAsks, TypeOK, router
<1>4. ASSUME NEW d \in Dialogs, PiTimesOut(d) PROVE TypeOK'
  BY <1>4 DEF PiTimesOut, TypeOK, router, pipes
<1>5. ASSUME NEW r \in stdin, PiReads(r) PROVE TypeOK'
  <2>1. r.answer \in Answers
    BY <1>5 DEF TypeOK, Replies
  <2>2. QED
    BY <1>5, <2>1 DEF PiReads, TypeOK, router
<1>6. QED
  BY <1>1, <1>2, <1>3, <1>4, <1>5 DEF Pi

LEMMA RouterTyped ==
    ASSUME TypeOK, Router
    PROVE  TypeOK'
<1> USE DEF Events, Lines, Decisions
<1>1. CASE ToolStarted
  <2>1. stdout' \in Seq(Events) /\ Head(stdout).id \in Tools
    BY <1>1, ReadMovesUp DEF ToolStarted
  <2>2. inFlight' \in Seq(Tools)
    BY <1>1, <2>1 DEF ToolStarted, TypeOK
  <2>3. QED
    BY <1>1, <2>1, <2>2 DEF ToolStarted, TypeOK, piState
<1>2. CASE ToolEnded
  <2>1. stdout' \in Seq(Events)
    BY <1>2, ReadMovesUp DEF ToolEnded
  <2>2. inFlight' \in Seq(Tools)
    <3>1. ASSUME NEW i \in DOMAIN inFlight,
                 inFlight' = SubSeq(inFlight, 1, i - 1) \o SubSeq(inFlight, i + 1, Len(inFlight))
          PROVE  inFlight' \in Seq(Tools)
      <4>1. inFlight \in Seq(Tools) /\ i \in 1 .. Len(inFlight) /\ Len(inFlight) \in Nat
        BY DEF TypeOK
      <4>2. SubSeq(inFlight, 1, i - 1) \in Seq(Tools)
        BY <4>1
      <4>3. SubSeq(inFlight, i + 1, Len(inFlight)) \in Seq(Tools)
        BY <4>1
      <4>4. QED
        BY <3>1, <4>2, <4>3
    <3>2. QED
      BY <1>2, <3>1 DEF ToolEnded, TypeOK
  <2>3. QED
    BY <1>2, <2>1, <2>2 DEF ToolEnded, TypeOK, piState
<1>3. CASE RouteAutomatic \/ RouteToInbox
  <2>1. stdout' \in Seq(Events) /\ Head(stdout).id \in Dialogs
    BY <1>3, ReadMovesUp DEF RouteAutomatic, RouteToInbox
  <2>2. trail' \in [Dialogs -> Seq(Lines)]
    BY <1>3, <2>1, LogTyped DEF RouteAutomatic, RouteToInbox
  <2>3. writes' \subseteq Replies
    BY <1>3, <2>1 DEF RouteAutomatic, RouteToInbox, Sends, TypeOK, Replies, Answers
  <2>4. QED
    BY <1>3, <2>1, <2>2, <2>3 DEF RouteAutomatic, RouteToInbox, TypeOK, piState, router
<1>4. ASSUME NEW r \in writes, ReplySent(r) PROVE TypeOK'
  <2>1. r \in Replies /\ r.id \in Dialogs
    BY DEF TypeOK, Replies
  <2>2. trail' \in [Dialogs -> Seq(Lines)]
    BY <1>4, <2>1, LogTyped DEF ReplySent, TypeOK
  <2>3. QED
    BY <1>4, <2>1, <2>2 DEF ReplySent, TypeOK, piState, router
<1>5. QED
  BY <1>1, <1>2, <1>3, <1>4 DEF Router

\* Every variable of the router and of its view of pi has the values the code can
\* give it; a timer is that of an entry still in the inbox (clearTimer).
THEOREM TypeCorrect == Spec => []TypeOK
<1>1. ASSUME Init PROVE TypeOK
  <2>1. /\ alive \in BOOLEAN /\ stdinOpen \in BOOLEAN /\ runs \in 0 .. MaxRuns
        /\ inbox \subseteq Dialogs /\ timers \subseteq inbox \cap Timed
        /\ writes \subseteq Replies /\ stdin \subseteq Replies /\ stdout = <<>> /\ inFlight = <<>>
    <3>1. 0 \in 0 .. MaxRuns
      BY RouterAssumption
    <3>2. QED
      BY <1>1, <3>1 DEF Init
  <2>2. stdout \in Seq(Events) /\ inFlight \in Seq(Tools)
    BY <2>1
  <2>3. trail \in [Dialogs -> Seq(Lines)]
    BY <1>1 DEF Init
  <2>4. QED
    BY <1>1, <2>1, <2>2, <2>3 DEF Init, TypeOK, Events, Lines
<1>2. ASSUME TypeOK, [Next]_vars PROVE TypeOK'
  <2>1. CASE UNCHANGED vars
    BY <1>2, <2>1 DEF TypeOK, vars, piState, router, pipes
  <2>2. CASE Service
    <3>1. CASE ServiceStarts \/ ServiceStopped
      <4>1. runs' \in 0 .. MaxRuns
        BY <1>2, <3>1, RouterAssumption DEF ServiceStarts, ServiceStopped, TypeOK
      <4>2. alive' \in BOOLEAN /\ stdinOpen' \in BOOLEAN
        BY <1>2, <3>1 DEF ServiceStarts, ServiceStopped, TypeOK
      <4>3. UNCHANGED <<tool, dialog, raisedBy, router, pipes, trail, daemon>>
        BY <3>1 DEF ServiceStarts, ServiceStopped
      <4>4. QED
        BY <1>2, <4>1, <4>2, <4>3 DEF TypeOK, router, pipes
    <3>2. CASE ServiceExits
      <4>1. tool' \in [Tools -> {"new", "hook", "running", "done"}]
        BY <1>2, <3>2 DEF ServiceExits, TypeOK
      <4>2. dialog' \in [Dialogs -> {"new", "open", "timedOut", "gone"} \cup Answers]
        BY <1>2, <3>2 DEF ServiceExits, TypeOK
      <4>3. stdout' \in Seq(Events) /\ daemon' \in {"up", "shuttingDown", "crashed"}
        BY <1>2, <3>2 DEF ServiceExits, TypeOK
      <4>4. QED
        BY <1>2, <3>2, <4>1, <4>2, <4>3 DEF ServiceExits, TypeOK, router, Events
    <3>3. CASE Register \/ Unregister \/ Dispose
      <4>1. inFlight' \in Seq(Tools)
        <5>1. inFlight' \in {inFlight, <<>>}
          BY <3>3 DEF Register, Unregister, Dispose
        <5>2. <<>> \in Seq(Tools) /\ inFlight \in Seq(Tools)
          BY <1>2 DEF TypeOK
        <5>3. QED
          BY <5>1, <5>2
      <4>2. QED
        BY <1>2, <3>3, <4>1 DEF Register, Unregister, Dispose, TypeOK, piState, pipes
    <3>4. QED
      BY <2>2, <3>1, <3>2, <3>3 DEF Service
  <2>3. ASSUME NEW d \in Dialogs, NEW fits \in BOOLEAN, Approve(d, fits) \/ Deny(d) PROVE TypeOK'
    <3>1. writes' \subseteq Replies
      BY <1>2, <2>3 DEF Approve, Deny, Sends, TypeOK, Replies, Answers
    <3>2. QED
      BY <1>2, <2>3, <3>1 DEF Approve, Deny, Claim, TypeOK, piState
  <2>4. ASSUME NEW d \in Dialogs, Expire(d) PROVE TypeOK'
    <3>1. trail' \in [Dialogs -> Seq(Lines)]
      BY <1>2, <2>4, LogTyped DEF Expire, Lines, Decisions, TypeOK
    <3>2. QED
      BY <1>2, <2>4, <3>1 DEF Expire, TypeOK, piState, pipes, Lines
  <2>5. QED
    BY <1>2, <2>1, <2>2, <2>3, <2>4, PiTyped, RouterTyped DEF Next, People
<1>3. QED
  BY <1>1, <1>2, PTL DEF Spec

-----------------------------------------------------------------------------
(* What becomes of a dialog. *)

\* An event is read, and with it the request of at most one dialog.
LEMMA AskRead ==
    ASSUME TypeOK, NEW type \in {"start", "end", "ask"}, Reads(type), NEW d \in Dialogs, AskedOnce(d)
    PROVE  /\ AskedOnce(d)' /\ (Unread(d)' => Unread(d))
           /\ Head(stdout) # Event("ask", d) => (Unread(d)' <=> Unread(d))
           /\ Head(stdout) = Event("ask", d) => Unread(d) /\ ~Unread(d)'
<1>1. /\ Len(stdout) \in Nat /\ Len(stdout) > 0 /\ DOMAIN stdout = 1 .. Len(stdout)
      /\ stdout[1] = Head(stdout) /\ DOMAIN stdout' = 1 .. (Len(stdout) - 1)
      /\ \A i \in 1 .. (Len(stdout) - 1) : stdout'[i] = stdout[i + 1]
  BY ReadMovesUp
<1>2. AskedOnce(d)'
  BY <1>1 DEF AskedOnce
<1>3. Unread(d)' => Unread(d)
  BY <1>1 DEF Unread
<1>4. ASSUME Head(stdout) # Event("ask", d), Unread(d) PROVE Unread(d)'
  <2>1. PICK i \in DOMAIN stdout : stdout[i] = Event("ask", d)
    BY <1>4 DEF Unread
  <2>2. i - 1 \in DOMAIN stdout' /\ stdout'[i - 1] = stdout[(i - 1) + 1] /\ (i - 1) + 1 = i
    BY <1>1, <1>4, <2>1
  <2>3. QED
    BY <2>1, <2>2 DEF Unread
<1>5. ASSUME Head(stdout) = Event("ask", d) PROVE Unread(d) /\ ~Unread(d)'
  <2>1. Unread(d)
    BY <1>1, <1>5 DEF Unread
  <2>2. ~Unread(d)'
    BY <1>1, <1>5 DEF Unread, AskedOnce
  <2>3. QED
    BY <2>1, <2>2
<1>6. QED
  BY <1>2, <1>3, <1>4, <1>5

\* An event is emitted: the request of a dialog, or of none.
LEMMA AskEmit ==
    ASSUME TypeOK, NEW e \in Events, stdout' = Append(stdout, e), NEW d \in Dialogs, AskedOnce(d)
    PROVE  /\ e # Event("ask", d) => AskedOnce(d)' /\ (Unread(d)' <=> Unread(d))
           /\ e = Event("ask", d) => Unread(d)' /\ (~Unread(d) => AskedOnce(d)')
<1>1. /\ Len(stdout) \in Nat /\ DOMAIN stdout = 1 .. Len(stdout)
      /\ DOMAIN stdout' = 1 .. (Len(stdout) + 1)
      /\ \A i \in 1 .. Len(stdout) : stdout'[i] = stdout[i]
      /\ stdout'[Len(stdout) + 1] = e
  BY EmitsLast
<1>2. \A i \in DOMAIN stdout' : i \in DOMAIN stdout \/ i = Len(stdout) + 1
  BY <1>1
<1>3. e # Event("ask", d) => AskedOnce(d)' /\ (Unread(d)' <=> Unread(d))
  BY <1>1, <1>2 DEF AskedOnce, Unread
<1>4. e = Event("ask", d) => Unread(d)' /\ (~Unread(d) => AskedOnce(d)')
  BY <1>1, <1>2 DEF AskedOnce, Unread
<1>5. QED
  BY <1>3, <1>4

\* A dialog that a step does not bring further.
LEMMA StageKept ==
    ASSUME NEW d \in Dialogs, Stage(d), trail'[d] = trail[d], d \in inbox' => d \in inbox,
           Replied(d)' => Replied(d), Unread(d)' => Unread(d), AskedOnce(d)',
           dialog'[d] \in {"new", "yes"} => dialog[d] = dialog'[d]
    PROVE  Stage(d)'
BY DEF Stage

\* The replies that are under way stay as they are.
LEMMA RepliesKept ==
    ASSUME OneReply, \A r \in writes \cup stdin : Told(r), writes \cap stdin = {},
           writes' \subseteq writes, stdin' \subseteq stdin,
           \A r \in writes \cup stdin : trail'[r.id] = trail[r.id]
    PROVE  OneReply' /\ (\A r \in writes' \cup stdin' : Told(r)') /\ writes' \cap stdin' = {}
<1>1. OneReply'
  BY DEF OneReply
<1>2. ASSUME NEW r \in writes' \cup stdin' PROVE Told(r)'
  <2>1. r \in writes' <=> r \in writes
    OBVIOUS
  <2>2. QED
    BY <2>1 DEF Told, Decision
<1>3. QED
  BY <1>1, <1>2

\* A dialog whose request has not been read, or that waits in the inbox, has no reply.
LEMMA Unreplied ==
    ASSUME TypeOK, DialogsInv, NEW d \in Dialogs, trail[d] = <<>> \/ d \in inbox
    PROVE  ~Replied(d)
<1>1. CASE d \in inbox
  BY <1>1 DEF DialogsInv, Stage
<1>2. CASE trail[d] = <<>>
  <2>1. \A r \in writes \cup stdin : trail[r.id] # <<>>
    <3>1. ASSUME NEW r \in writes \cup stdin PROVE trail[r.id] # <<>>
      <4>1. trail[r.id] \in {<<"auto_approve">>, <<"enqueue">>, <<"enqueue", Decision(r)>>}
        BY DEF DialogsInv, Told
      <4>2. Decision(r) \in Lines /\ "enqueue" \in Lines /\ "auto_approve" \in Lines
        BY DEF Decision, Lines, Decisions
      <4>3. QED
        BY <4>1, <4>2, Trails
    <3>2. QED
      BY <3>1
  <2>2. QED
    BY <1>2, <2>1 DEF Replied
<1>3. QED
  BY <1>1, <1>2

\* What neither moves a dialog nor a reply.
LEMMA DialogsAside ==
    ASSUME TypeOK, DialogsInv,
           \/ UNCHANGED vars
           \/ \E t \in Tools : PiStartsTool(t) \/ PiLeavesHook(t) \/ PiEndsTool(t)
           \/ \E d \in Dialogs : PiTimesOut(d)
           \/ ToolStarted \/ ToolEnded
           \/ ServiceStarts \/ ServiceStopped \/ Register \/ Unregister \/ Dispose
    PROVE  DialogsInv'
<1>1. UNCHANGED <<trail, writes, stdin>> /\ inbox' \subseteq inbox
  BY DEF vars, PiStartsTool, PiLeavesHook, PiEndsTool, PiTimesOut, ToolStarted, ToolEnded, ServiceStarts,
     ServiceStopped, Register, Unregister, Dispose, piState, router, pipes
<1>2. \A d \in Dialogs : dialog'[d] \in {"new", "yes"} => dialog[d] = dialog'[d]
  BY DEF vars, PiStartsTool, PiLeavesHook, PiEndsTool, PiTimesOut, ToolStarted, ToolEnded, ServiceStarts,
     ServiceStopped, Register, Unregister, Dispose, piState, TypeOK
<1>3. ASSUME NEW d \in Dialogs PROVE AskedOnce(d)' /\ (Unread(d)' => Unread(d))
  <2>0. AskedOnce(d)
    BY DEF DialogsInv, Stage
  <2>1. CASE stdout' = stdout
    BY <2>0, <2>1 DEF AskedOnce, Unread
  <2>2. CASE ToolStarted \/ ToolEnded
    BY <2>0, <2>2, AskRead DEF ToolStarted, ToolEnded
  <2>3. ASSUME NEW t \in Tools, PiStartsTool(t) \/ PiEndsTool(t)
        PROVE  AskedOnce(d)' /\ (Unread(d)' => Unread(d))
    <3>1. PICK e \in Events : stdout' = Append(stdout, e) /\ e # Event("ask", d)
      BY <2>3, EventsTyped DEF PiStartsTool, PiEndsTool
    <3>2. QED
      BY <2>0, <3>1, AskEmit
  <2>4. QED
    BY <2>1, <2>2, <2>3 DEF vars, PiLeavesHook, PiTimesOut, ServiceStarts, ServiceStopped, Register,
       Unregister, Dispose, pipes
<1>4. \A d \in Dialogs : Stage(d)'
  BY <1>1, <1>2, <1>3, StageKept DEF DialogsInv, Replied
<1>5. OneReply' /\ (\A r \in writes' \cup stdin' : Told(r)') /\ writes' \cap stdin' = {}
  BY <1>1, RepliesKept DEF DialogsInv
<1>6. GoneIsSilent'
  <2>1. CASE alive
    BY <2>1 DEF DialogsInv, GoneIsSilent, vars, PiStartsTool, PiLeavesHook, PiEndsTool, PiTimesOut,
       ToolStarted, ToolEnded, ServiceStarts, ServiceStopped, Register, Unregister, Dispose, piState
  <2>2. CASE ~alive
    <3>1. /\ stdout = <<>> /\ writes = {} /\ stdin = {} /\ Executing = {} /\ ~stdinOpen
          /\ \A d \in Dialogs : dialog[d] # "open"
      BY <2>2 DEF DialogsInv, GoneIsSilent
    <3>2. \/ UNCHANGED vars
          \/ ServiceStarts \/ Register \/ Unregister \/ Dispose
      BY <2>2, <3>1 DEF PiStartsTool, PiLeavesHook, PiEndsTool, PiTimesOut, ToolStarted, ToolEnded,
         Reads, ServiceStopped, Executing
    <3>3. \/ alive' \/ UNCHANGED <<alive, stdinOpen, stdout, writes, stdin, tool, dialog>>
      BY <3>2 DEF vars, ServiceStarts, Register, Unregister, Dispose, piState, pipes
    <3>4. QED
      BY <2>2, <3>1, <3>3 DEF GoneIsSilent, Executing
  <2>3. QED
    BY <2>1, <2>2
<1>7. QED
  BY <1>4, <1>5, <1>6 DEF DialogsInv


\* A dialog that is read gets its first line, and its reply or its place in the inbox.
LEMMA DialogsRouted ==
    ASSUME TypeOK, DialogsInv, RouteAutomatic \/ RouteToInbox
    PROVE  DialogsInv'
<1> DEFINE d == Head(stdout).id
<1>1. /\ Reads("ask") /\ alive /\ d \in Dialogs /\ Head(stdout) = Event("ask", d) /\ stdout # <<>>
      /\ DOMAIN stdout # {} /\ UNCHANGED <<piState, stdin, inFlight>>
  BY ReadMovesUp DEF RouteAutomatic, RouteToInbox, Reads, router
<1>2. PICK c \in Dialogs : c = d
  BY <1>1
<1>3. \A e \in Dialogs : /\ AskedOnce(e)' /\ (Unread(e)' => Unread(e))
                         /\ e = c => Unread(c) /\ ~Unread(c)'
  <2>1. \A e \in Dialogs : AskedOnce(e)
    BY DEF DialogsInv, Stage
  <2>2. QED
    BY <1>1, <1>2, <2>1, AskRead
<1>4. trail[c] = <<>> /\ ~Replied(c) /\ c \notin inbox /\ dialog[c] \notin {"new", "yes"}
  <2>1. Stage(c) /\ Unread(c)
    BY <1>3 DEF DialogsInv
  <2>2. trail[c] = <<>>
    BY <2>1 DEF Stage
  <2>3. <<"enqueue">> # <<>> /\ <<"auto_approve">> # <<>> /\ <<"enqueue", "approve">> # <<>>
    BY Trails DEF Lines, Decisions
  <2>4. QED
    BY <2>1, <2>2, <2>3, Unreplied DEF Stage
<1>5. \A r \in writes \cup stdin : r.id # c /\ r.id \in Dialogs
  BY <1>4 DEF Replied, TypeOK, Replies
<1>6. CASE RouteToInbox
  <2>1. /\ \A e \in Dialogs \ {c} : trail'[e] = trail[e]
        /\ trail'[c] = <<"enqueue">>
        /\ inbox' = inbox \cup {c} /\ UNCHANGED writes
    <3>1. Log(c, "enqueue") /\ inbox' = inbox \cup {c} /\ UNCHANGED writes
      BY <1>2, <1>6 DEF RouteToInbox
    <3>2. /\ \A e \in Dialogs \ {c} : trail'[e] = trail[e]
          /\ trail'[c] = Append(<<>>, "enqueue")
      BY <1>1, <1>4, <3>1, LogTyped DEF Lines
    <3>3. QED
      BY <3>1, <3>2, Trails DEF Lines
  <2>2. Stage(c)'
    <3>1. ~Replied(c)'
      BY <1>1, <1>4, <2>1 DEF Replied
    <3>2. dialog' = dialog
      BY <1>1 DEF piState
    <3>3. QED
      BY <1>3, <1>4, <2>1, <3>1, <3>2 DEF Stage
  <2>3. \A e \in Dialogs \ {c} : Stage(e)'
    <3>1. ASSUME NEW e \in Dialogs \ {c} PROVE Stage(e)'
      <4>1. Replied(e)' => Replied(e)
        BY <1>1, <2>1 DEF Replied
      <4>2. QED
        BY <1>1, <1>3, <2>1, <4>1, StageKept DEF DialogsInv, piState
    <3>2. QED
      BY <3>1
  <2>4. OneReply' /\ (\A r \in writes' \cup stdin' : Told(r)') /\ writes' \cap stdin' = {}
    BY <1>1, <1>5, <2>1, RepliesKept DEF DialogsInv
  <2>5. QED
    BY <1>1, <2>2, <2>3, <2>4 DEF DialogsInv, GoneIsSilent, piState
<1>7. CASE RouteAutomatic
  <2>1. /\ \A e \in Dialogs \ {c} : trail'[e] = trail[e]
        /\ trail'[c] = <<"auto_approve">> /\ UNCHANGED inbox
    <3>1. Log(c, "auto_approve") /\ UNCHANGED inbox
      BY <1>2, <1>7 DEF RouteAutomatic, router
    <3>2. /\ \A e \in Dialogs \ {c} : trail'[e] = trail[e]
          /\ trail'[c] = Append(<<>>, "auto_approve")
      BY <1>1, <1>4, <3>1, LogTyped DEF Lines, Decisions
    <3>3. QED
      BY <3>1, <3>2, Trails DEF Lines, Decisions
  <2>2. PICK p : p = [id |-> c, answer |-> "yes", by |-> "policy"]
    OBVIOUS
  <2>3. writes' \in {writes, writes \cup {p}}
    BY <1>2, <1>7, <2>2 DEF RouteAutomatic, Sends
  <2>4. p.id = c /\ p.answer = "yes" /\ p.by = "policy" /\ p \notin writes \cup stdin
    BY <1>5, <2>2
  <2>5. Stage(c)'
    BY <1>1, <1>3, <1>4, <2>1 DEF Stage, piState
  <2>6. \A e \in Dialogs \ {c} : Stage(e)'
    <3>1. ASSUME NEW e \in Dialogs \ {c} PROVE Stage(e)'
      <4>1. Replied(e)' => Replied(e)
        BY <1>1, <2>3, <2>4 DEF Replied
      <4>2. QED
        BY <1>1, <1>3, <2>1, <4>1, StageKept DEF DialogsInv, piState
    <3>2. QED
      BY <3>1
  <2>7. OneReply'
    BY <1>1, <1>5, <2>3, <2>4 DEF DialogsInv, OneReply
  <2>8. \A r \in writes' \cup stdin' : Told(r)'
    <3>1. ASSUME NEW r \in writes \cup stdin PROVE Told(r)'
      <4>1. Told(r) /\ trail'[r.id] = trail[r.id] /\ r # p
        BY <1>5, <2>1, <2>4 DEF DialogsInv
      <4>2. r \in writes' <=> r \in writes
        BY <2>3, <4>1
      <4>3. QED
        BY <4>1, <4>2 DEF Told, Decision
    <3>2. Told(p)'
      BY <2>1, <2>4 DEF Told
    <3>3. QED
      BY <1>1, <2>3, <3>1, <3>2
  <2>9. QED
    BY <1>1, <2>3, <2>4, <2>5, <2>6, <2>7, <2>8 DEF DialogsInv, GoneIsSilent, piState
<1>8. QED
  BY <1>6, <1>7

\* A person's answer, or none when it cannot be sent: the entry is claimed.
LEMMA DialogsClaimed ==
    ASSUME TypeOK, DialogsInv, NEW d \in Dialogs, NEW fits \in BOOLEAN, Approve(d, fits) \/ Deny(d)
    PROVE  DialogsInv'
<1>1. /\ d \in inbox /\ inbox' = inbox \ {d}
      /\ UNCHANGED <<piState, inFlight, stdout, stdin, trail, daemon>>
      /\ \/ UNCHANGED writes
         \/ CanSend /\ \E a \in Answers : Sends(d, a, "cli")
  BY DEF Approve, Deny, Claim, Answers
<1>2. trail[d] = <<"enqueue">> /\ ~Replied(d)
  BY <1>1 DEF DialogsInv, Stage
<1>3. \A e \in Dialogs : AskedOnce(e)' /\ (Unread(e)' <=> Unread(e))
  BY <1>1 DEF DialogsInv, Stage, AskedOnce, Unread
<1>4. CASE UNCHANGED writes
  <2>1. \A e \in Dialogs : Stage(e)'
    BY <1>1, <1>3, <1>4, StageKept DEF DialogsInv, Replied, piState
  <2>2. OneReply' /\ (\A r \in writes' \cup stdin' : Told(r)') /\ writes' \cap stdin' = {}
    BY <1>1, <1>4, RepliesKept DEF DialogsInv
  <2>3. QED
    BY <1>1, <1>4, <2>1, <2>2 DEF DialogsInv, GoneIsSilent, Executing, piState
<1>5. ASSUME CanSend, NEW a \in Answers, Sends(d, a, "cli") PROVE DialogsInv'
  <2>1. PICK p : p = [id |-> d, answer |-> a, by |-> "cli"]
    OBVIOUS
  <2>2. writes' = writes \cup {p} /\ p.id = d /\ p.by = "cli" /\ alive
    BY <1>5, <2>1 DEF Sends, CanSend
  <2>3. \A r \in writes \cup stdin : r.id # d
    BY <1>2 DEF Replied
  <2>4. Stage(d)'
    BY <1>1, <1>2, <1>3, <2>2 DEF DialogsInv, Stage, piState
  <2>5. \A e \in Dialogs \ {d} : Stage(e)'
    <3>1. ASSUME NEW e \in Dialogs \ {d} PROVE Stage(e)'
      <4>1. Replied(e)' => Replied(e)
        BY <1>1, <2>2 DEF Replied
      <4>2. QED
        BY <1>1, <1>3, <4>1, StageKept DEF DialogsInv, piState
    <3>2. QED
      BY <3>1
  <2>6. OneReply'
    BY <1>1, <2>2, <2>3 DEF DialogsInv, OneReply
  <2>7. \A r \in writes' \cup stdin' : Told(r)'
    <3>1. ASSUME NEW r \in writes \cup stdin PROVE Told(r)'
      <4>1. Told(r) /\ trail'[r.id] = trail[r.id] /\ (r \in writes' <=> r \in writes)
        BY <1>1, <2>2, <2>3 DEF DialogsInv
      <4>2. QED
        BY <4>1 DEF Told, Decision
    <3>2. Told(p)'
      BY <1>1, <1>2, <2>2 DEF Told
    <3>3. QED
      BY <1>1, <2>2, <3>1, <3>2
  <2>8. QED
    BY <1>1, <2>2, <2>3, <2>4, <2>5, <2>6, <2>7 DEF DialogsInv, GoneIsSilent, piState
<1>6. QED
  BY <1>1, <1>4, <1>5

\* The clock of a dialog runs out in the router: its entry is claimed for "expired".
LEMMA DialogsExpire ==
    ASSUME TypeOK, DialogsInv, NEW d \in Dialogs, Expire(d)
    PROVE  DialogsInv'
<1>1. /\ d \in inbox /\ inbox' = inbox \ {d} /\ Log(d, "expired")
      /\ UNCHANGED <<piState, inFlight, pipes, daemon>>
  BY DEF Expire, TypeOK
<1>2. trail[d] = <<"enqueue">> /\ ~Replied(d) /\ Stage(d)
  BY <1>1 DEF DialogsInv, Stage
<1>3. \A e \in Dialogs : /\ AskedOnce(e)' /\ (Unread(e)' <=> Unread(e))
                         /\ (Replied(e)' <=> Replied(e)) /\ Stage(e)
  BY <1>1 DEF DialogsInv, Stage, AskedOnce, Unread, Replied, pipes
<1>4. /\ \A e \in Dialogs \ {d} : trail'[e] = trail[e]
      /\ trail'[d] = IF alive THEN <<"enqueue", "expired">> ELSE <<"enqueue">>
  <2>1. Append(<<"enqueue">>, "expired") = <<"enqueue", "expired">>
    BY Trails DEF Lines, Decisions
  <2>2. QED
    BY <1>1, <1>2, <2>1, LogTyped DEF Lines, Decisions
<1>5. Stage(d)'
  <2>1. <<>> # <<"enqueue">> /\ <<"auto_approve">> # <<"enqueue">> /\ <<"enqueue", "approve">> # <<"enqueue">>
    BY Trails DEF Lines, Decisions
  <2>2. dialog[d] # "new" /\ dialog[d] # "yes" /\ ~Unread(d) /\ dialog' = dialog
    BY <1>1, <1>2, <2>1 DEF Stage, piState
  <2>3. d \notin inbox'
    BY <1>1
  <2>4. trail'[d] \in {<<"enqueue">>, <<"enqueue", "expired">>}
    BY <1>4
  <2>5. QED
    BY <1>3, <2>2, <2>3, <2>4 DEF Stage
<1>6. \A e \in Dialogs \ {d} : Stage(e)'
  BY <1>1, <1>3, <1>4, StageKept DEF piState
<1>7. OneReply' /\ (\A r \in writes' \cup stdin' : Told(r)') /\ writes' \cap stdin' = {}
  <2>1. \A r \in writes \cup stdin : trail'[r.id] = trail[r.id]
    BY <1>2, <1>4 DEF Replied, TypeOK, Replies
  <2>2. QED
    BY <1>1, <2>1, RepliesKept DEF DialogsInv, pipes
<1>8. GoneIsSilent'
  BY <1>1 DEF DialogsInv, GoneIsSilent, Executing, piState, pipes
<1>9. QED
  BY <1>5, <1>6, <1>7, <1>8 DEF DialogsInv

\* A reply reaches the pipe, and the decision of a person the chronicle.
LEMMA DialogsSent ==
    ASSUME TypeOK, DialogsInv, NEW r \in writes, ReplySent(r)
    PROVE  DialogsInv'
<1>1. /\ writes' = writes \ {r} /\ stdin' = stdin \cup {r} /\ r \notin stdin
      /\ UNCHANGED <<piState, router, stdout, daemon>>
  BY DEF ReplySent, DialogsInv
<1>2. alive /\ r \in Replies
  BY DEF DialogsInv, GoneIsSilent, TypeOK
<1>3. PICK d \in Dialogs : d = r.id
  BY <1>2 DEF Replies
<1>4. \A e \in Dialogs : /\ AskedOnce(e)' /\ (Unread(e)' <=> Unread(e))
                         /\ (Replied(e)' <=> Replied(e)) /\ Stage(e)
  <2>1. writes' \cup stdin' = writes \cup stdin
    BY <1>1
  <2>2. QED
    BY <1>1, <2>1 DEF DialogsInv, Stage, AskedOnce, Unread, Replied
<1>5. d \notin inbox /\ \A s \in writes \cup stdin : s.id = d => s = r
  BY <1>3, <1>4 DEF Stage, Replied, DialogsInv, OneReply
<1>6. /\ \A e \in Dialogs \ {d} : trail'[e] = trail[e]
      /\ r.by = "policy" => trail'[d] = trail[d]
      /\ r.by = "cli" => trail[d] = <<"enqueue">> /\ trail'[d] = <<"enqueue", Decision(r)>>
  <2>1. CASE r.by = "policy"
    BY <2>1 DEF ReplySent
  <2>2. CASE r.by = "cli"
    <3>1. Log(d, Decision(r)) /\ Decision(r) \in Lines
      BY <1>3, <2>2 DEF ReplySent, Decision, Lines, Decisions
    <3>2. trail[d] = <<"enqueue">>
      BY <1>3, <2>2 DEF DialogsInv, Told
    <3>3. Append(<<"enqueue">>, Decision(r)) = <<"enqueue", Decision(r)>>
      BY <3>1, Trails DEF Lines
    <3>4. QED
      BY <1>2, <2>2, <3>1, <3>2, <3>3, LogTyped
  <2>3. QED
    BY <1>2, <2>1, <2>2 DEF Replies
<1>7. Stage(d)'
  <2>1. CASE r.by = "policy"
    BY <1>1, <1>4, <1>5, <1>6, <2>1, StageKept DEF piState, router
  <2>2. CASE r.by = "cli"
    <3>1. <<>> # <<"enqueue">> /\ <<"auto_approve">> # <<"enqueue">> /\ <<"enqueue", "approve">> # <<"enqueue">>
      BY Trails DEF Lines, Decisions
    <3>2. dialog[d] # "new" /\ dialog[d] # "yes" /\ ~Unread(d) /\ dialog' = dialog
      BY <1>1, <1>4, <1>6, <2>2, <3>1 DEF Stage, piState
    <3>3. d \notin inbox'
      BY <1>1, <1>5 DEF router
    <3>4. trail'[d] \in {<<"enqueue", "approve">>, <<"enqueue", "deny">>}
      BY <1>6, <2>2 DEF Decision
    <3>5. QED
      BY <1>4, <3>2, <3>3, <3>4 DEF Stage
  <2>3. QED
    BY <1>2, <2>1, <2>2 DEF Replies
<1>8. \A e \in Dialogs \ {d} : Stage(e)'
  BY <1>1, <1>4, <1>6, StageKept DEF piState, router
<1>9. OneReply'
  BY <1>1 DEF DialogsInv, OneReply
<1>10. ASSUME NEW s \in writes' \cup stdin' PROVE Told(s)'
  <2>1. CASE s = r
    BY <1>1, <1>2, <1>3, <1>6, <2>1 DEF DialogsInv, Told, Decision, Replies
  <2>2. CASE s # r
    <3>1. s \in writes \cup stdin /\ (s \in writes' <=> s \in writes)
      BY <1>1, <2>2
    <3>2. s.id \in Dialogs \ {d} /\ Told(s)
      BY <1>5, <2>2, <3>1 DEF TypeOK, Replies, DialogsInv
    <3>3. trail'[s.id] = trail[s.id]
      BY <1>6, <3>2
    <3>4. QED
      BY <3>1, <3>2, <3>3 DEF Told, Decision
  <2>3. QED
    BY <2>1, <2>2
<1>11. GoneIsSilent' /\ writes' \cap stdin' = {}
  BY <1>1, <1>2 DEF DialogsInv, GoneIsSilent, piState
<1>12. QED
  BY <1>7, <1>8, <1>9, <1>10, <1>11 DEF DialogsInv

\* pi raises a dialog, and takes the answer to one.
LEMMA DialogsOfPi ==
    ASSUME TypeOK, DialogsInv,
           \/ \E d \in Dialogs, t \in Tools \cup {NoTool} : PiAsks(d, t)
           \/ \E r \in stdin : PiReads(r)
    PROVE  DialogsInv'
<1>1. ASSUME NEW d \in Dialogs, NEW t \in Tools \cup {NoTool}, PiAsks(d, t) PROVE DialogsInv'
  <2>1. /\ alive /\ dialog[d] = "new" /\ dialog' = [dialog EXCEPT ![d] = "open"]
        /\ stdout' = Append(stdout, Event("ask", d)) /\ Event("ask", d) \in Events
        /\ UNCHANGED <<alive, stdinOpen, tool, router, writes, stdin, trail>>
    BY <1>1, EventsTyped DEF PiAsks
  <2>2. Stage(d) /\ ~Unread(d) /\ trail[d] = <<>>
    BY <2>1 DEF DialogsInv, Stage
  <2>3. \A e \in Dialogs : AskedOnce(e)' /\ (e # d => (Unread(e)' <=> Unread(e)))
    BY <2>1, <2>2, AskEmit, EventsTyped DEF DialogsInv, Stage
  <2>4. Stage(d)'
    <3>1. dialog'[d] = "open"
      BY <2>1 DEF TypeOK
    <3>2. Replied(d)' <=> Replied(d)
      BY <2>1 DEF Replied
    <3>3. d \in inbox' <=> d \in inbox
      BY <2>1 DEF router
    <3>4. QED
      BY <2>1, <2>2, <2>3, <3>1, <3>2, <3>3 DEF Stage
  <2>5. \A e \in Dialogs \ {d} : Stage(e)'
    BY <2>1, <2>3, StageKept DEF DialogsInv, Replied, TypeOK, router
  <2>6. OneReply' /\ (\A r \in writes' \cup stdin' : Told(r)') /\ writes' \cap stdin' = {}
    BY <2>1, RepliesKept DEF DialogsInv
  <2>7. QED
    BY <2>1, <2>4, <2>5, <2>6 DEF DialogsInv, GoneIsSilent
<1>2. ASSUME NEW r \in stdin, PiReads(r) PROVE DialogsInv'
  <2>1. /\ alive /\ stdin' = stdin \ {r}
        /\ dialog' = [dialog EXCEPT ![r.id] = IF @ = "open" THEN r.answer ELSE @]
        /\ UNCHANGED <<alive, stdinOpen, tool, router, stdout, writes, trail>>
    BY <1>2 DEF PiReads
  <2>2. PICK d \in Dialogs : d = r.id
    BY DEF TypeOK, Replies
  <2>3. \A e \in Dialogs : /\ AskedOnce(e)' /\ (Unread(e)' <=> Unread(e))
                           /\ (Replied(e)' => Replied(e)) /\ Stage(e)
    BY <2>1 DEF DialogsInv, Stage, AskedOnce, Unread, Replied
  <2>4. Stage(d)'
    <3>1. CASE dialog'[d] \in {"new", "yes"} => dialog[d] = dialog'[d]
      BY <2>1, <2>3, <3>1, StageKept DEF router
    <3>2. CASE dialog[d] = "open" /\ dialog'[d] = r.answer /\ r.answer = "yes"
      <4>1. trail[d] \in {<<"auto_approve">>, <<"enqueue", "approve">>}
        BY <2>2, <3>2 DEF DialogsInv, Told, Decision
      <4>2. d \in inbox' <=> d \in inbox
        BY <2>1 DEF router
      <4>3. QED
        BY <2>1, <2>3, <3>2, <4>1, <4>2 DEF Stage
    <3>3. r.answer \in Answers
      BY DEF TypeOK, Replies
    <3>4. dialog'[d] = IF dialog[d] = "open" THEN r.answer ELSE dialog[d]
      BY <2>1, <2>2 DEF TypeOK
    <3>5. QED
      BY <3>1, <3>2, <3>3, <3>4 DEF Answers
  <2>5. \A e \in Dialogs \ {d} : Stage(e)'
    BY <2>1, <2>2, <2>3, StageKept DEF TypeOK, router
  <2>6. OneReply' /\ (\A s \in writes' \cup stdin' : Told(s)') /\ writes' \cap stdin' = {}
    BY <2>1, RepliesKept DEF DialogsInv
  <2>7. QED
    BY <2>1, <2>4, <2>5, <2>6 DEF DialogsInv, GoneIsSilent
<1>3. QED
  BY <1>1, <1>2

\* The process exits: what was under way is lost.
LEMMA DialogsLost ==
    ASSUME TypeOK, DialogsInv, ServiceExits
    PROVE  DialogsInv'
<1>1. /\ ~alive' /\ ~stdinOpen' /\ stdout' = <<>> /\ writes' = {} /\ stdin' = {}
      /\ UNCHANGED <<router, trail>>
      /\ tool' = [t \in Tools |-> IF t \in Executing THEN "done" ELSE tool[t]]
      /\ dialog' = [d \in Dialogs |-> IF dialog[d] = "open" THEN "gone" ELSE dialog[d]]
  BY DEF ServiceExits
<1>2. GoneIsSilent'
  BY <1>1 DEF GoneIsSilent, Executing
<1>3. \A d \in Dialogs : Stage(d)'
  <2>1. ASSUME NEW d \in Dialogs PROVE Stage(d)'
    <3>1. AskedOnce(d)' /\ ~Unread(d)' /\ ~Replied(d)'
      BY <1>1 DEF AskedOnce, Unread, Replied
    <3>2. QED
      BY <1>1, <3>1, StageKept DEF DialogsInv, router
  <2>2. QED
    BY <2>1
<1>4. QED
  BY <1>1, <1>2, <1>3 DEF DialogsInv, OneReply

\* The invariant behind the three theorems that follow: where each dialog is, what the
\* chronicle says of it and which reply is under way for it agree.
THEOREM DialogsInvariant == Spec => []DialogsInv
<1>1. ASSUME Init PROVE DialogsInv
  <2>1. GoneIsSilent
    BY <1>1 DEF Init, GoneIsSilent, Executing
  <2>2. \A d \in Dialogs : Stage(d)
    BY <1>1 DEF Init, Stage, AskedOnce, Unread, Replied
  <2>3. QED
    BY <1>1, <2>1, <2>2 DEF Init, DialogsInv, OneReply
<1>2. ASSUME TypeOK, DialogsInv, [Next]_vars PROVE DialogsInv'
  BY <1>2, DialogsAside, DialogsRouted, DialogsClaimed, DialogsExpire, DialogsSent, DialogsOfPi, DialogsLost
  DEF Next, Router, Pi, People, Service
<1>3. QED
  BY <1>1, <1>2, TypeCorrect, PTL DEF Spec

\* A dialog gets at most one reply, and one that has a reply can no longer be answered.
THEOREM AnsweredOnceTheorem == Spec => []AnsweredOnce
<1>1. ASSUME DialogsInv PROVE AnsweredOnce
  BY <1>1 DEF DialogsInv, OneReply, Stage, AnsweredOnce, Replied, TypeOK
<1>2. QED
  BY <1>1, DialogsInvariant, PTL

\* The chronicle tells each dialog's life in order.
THEOREM TrailTheorem == Spec => []TrailIsALife
<1>1. ASSUME DialogsInv PROVE TrailIsALife
  BY <1>1 DEF DialogsInv, Stage, TrailIsALife
<1>2. QED
  BY <1>1, DialogsInvariant, PTL

\* pi's acceptance is somebody's.
THEOREM ConfirmedTheorem == Spec => []ConfirmedByOneSide
<1>1. ASSUME DialogsInv PROVE ConfirmedByOneSide
  <2>1. ASSUME NEW d \in Dialogs, dialog[d] = "yes"
        PROVE  d \notin inbox /\ trail[d] \notin {<<"enqueue", "deny">>, <<"enqueue", "expired">>}
    <3>1. Stage(d) /\ trail[d] \in {<<"auto_approve">>, <<"enqueue", "approve">>}
      BY <1>1, <2>1 DEF DialogsInv, Stage
    <3>2. /\ <<"auto_approve">> # <<"enqueue">> /\ <<"enqueue", "approve">> # <<"enqueue">>
          /\ <<"enqueue", "approve">> # <<"enqueue", "deny">>
          /\ <<"enqueue", "approve">> # <<"enqueue", "expired">>
          /\ <<"enqueue", "deny">> # <<"auto_approve">> /\ <<"enqueue", "expired">> # <<"auto_approve">>
      BY Trails DEF Lines, Decisions
    <3>3. QED
      BY <3>1, <3>2 DEF Stage
  <2>2. QED
    BY <2>1 DEF ConfirmedByOneSide
<1>2. QED
  BY <1>1, DialogsInvariant, PTL

-----------------------------------------------------------------------------
(* No dialog is stranded. *)

LEMMA SentIsReplied ==
    ASSUME NEW d, NEW answer, NEW by, Sends(d, answer, by)
    PROVE  Replied(d)'
<1>1. PICK r : r = [id |-> d, answer |-> answer, by |-> by]
  OBVIOUS
<1>2. r \in writes' /\ r.id = d
  BY <1>1 DEF Sends
<1>3. QED
  BY <1>2 DEF Replied

\* Inductive beside DialogsInv: a step that takes the request from stdout, the entry from the
\* inbox or the reply from the pipe puts the next of them in its place.
THEOREM NoDialogStrandedTheorem == Spec => []NoDialogStranded
<1> DEFINE Held(d) == Unread(d) \/ d \in inbox \/ Replied(d)
<1>1. ASSUME Init PROVE NoDialogStranded
  BY <1>1 DEF Init, NoDialogStranded, CanSend
<1>2. ASSUME TypeOK, DialogsInv, NoDialogStranded, [Next]_vars PROVE NoDialogStranded'
  <2>1. ASSUME NEW d \in Dialogs \ Timed, dialog'[d] = "open", CanSend', Live' PROVE Held(d)'
    <3>0. AskedOnce(d)
      BY <1>2 DEF DialogsInv, Stage
    <3>1. CASE UNCHANGED vars
      BY <1>2, <2>1, <3>1 DEF vars, piState, router, pipes, NoDialogStranded, CanSend, Live, Unread, Replied
    <3>2. ASSUME NEW t \in Tools, PiStartsTool(t) \/ PiEndsTool(t) PROVE Held(d)'
      <4>1. PICK e \in Events : stdout' = Append(stdout, e) /\ e # Event("ask", d)
        BY <3>2, EventsTyped DEF PiStartsTool, PiEndsTool
      <4>2. Unread(d)' <=> Unread(d)
        BY <1>2, <3>0, <4>1, AskEmit
      <4>3. UNCHANGED <<dialog, alive, stdinOpen, router, writes, stdin, daemon>>
        BY <3>2 DEF PiStartsTool, PiEndsTool
      <4>4. QED
        BY <1>2, <2>1, <4>2, <4>3 DEF NoDialogStranded, CanSend, Live, Replied, router
    <3>3. ASSUME NEW t \in Tools, PiLeavesHook(t) PROVE Held(d)'
      BY <1>2, <2>1, <3>3 DEF PiLeavesHook, NoDialogStranded, CanSend, Live, Unread, Replied, router, pipes
    <3>4. ASSUME NEW c \in Dialogs, NEW t \in Tools \cup {NoTool}, PiAsks(c, t) PROVE Held(d)'
      <4>1. /\ stdout' = Append(stdout, Event("ask", c)) /\ Event("ask", c) \in Events
            /\ UNCHANGED <<alive, stdinOpen, router, writes, stdin, daemon>>
            /\ dialog' = [dialog EXCEPT ![c] = "open"]
        BY <3>4, EventsTyped DEF PiAsks
      <4>2. Unread(d)' \/ (c # d /\ (Unread(d)' <=> Unread(d)))
        BY <1>2, <3>0, <4>1, AskEmit, EventsTyped
      <4>3. c # d => dialog'[d] = dialog[d]
        BY <1>2, <4>1 DEF TypeOK
      <4>4. QED
        BY <1>2, <2>1, <4>1, <4>2, <4>3 DEF NoDialogStranded, CanSend, Live, Replied, router
    <3>5. ASSUME NEW c \in Dialogs, PiTimesOut(c) PROVE Held(d)'
      <4>1. dialog[d] = "open"
        BY <1>2, <2>1, <3>5 DEF PiTimesOut, TypeOK
      <4>2. QED
        BY <1>2, <2>1, <3>5, <4>1
        DEF PiTimesOut, NoDialogStranded, CanSend, Live, Unread, Replied, router, pipes
    <3>6. ASSUME NEW r \in stdin, PiReads(r) PROVE Held(d)'
      <4>1. r.answer \in Answers
        BY <1>2 DEF TypeOK, Replies
      <4>2. dialog[d] = "open" /\ r.id # d
        BY <1>2, <2>1, <3>6, <4>1 DEF PiReads, TypeOK, Answers
      <4>3. /\ UNCHANGED <<alive, stdinOpen, router, stdout, writes, daemon>>
            /\ stdin' = stdin \ {r}
        BY <3>6 DEF PiReads
      <4>4. QED
        BY <1>2, <2>1, <4>2, <4>3 DEF NoDialogStranded, CanSend, Live, Unread, Replied, router
    <3>7. CASE ToolStarted \/ ToolEnded
      <4>1. /\ UNCHANGED <<piState, inbox, writes, stdin, daemon>>
            /\ \E type \in {"start", "end"} : Reads(type)
        BY <3>7 DEF ToolStarted, ToolEnded
      <4>2. Head(stdout) # Event("ask", d)
        BY <4>1 DEF Reads, Event
      <4>3. Unread(d)' <=> Unread(d)
        BY <1>2, <3>0, <4>1, <4>2, AskRead
      <4>4. QED
        BY <1>2, <2>1, <4>1, <4>3 DEF NoDialogStranded, CanSend, Live, Replied, piState
    <3>8. CASE RouteAutomatic \/ RouteToInbox
      <4>1. Reads("ask") /\ UNCHANGED <<piState, stdin>> /\ inbox \subseteq inbox' /\ writes \subseteq writes'
        BY <3>8 DEF RouteAutomatic, RouteToInbox, router, Sends
      <4>2. dialog[d] = "open" /\ CanSend /\ Live
        BY <2>1, <4>1 DEF piState, CanSend, Reads
      <4>3. CASE Head(stdout) # Event("ask", d)
        <5>1. Unread(d)' <=> Unread(d)
          BY <1>2, <3>0, <4>1, <4>3, AskRead
        <5>2. QED
          BY <1>2, <2>1, <4>1, <4>2, <5>1 DEF NoDialogStranded, Replied
      <4>4. CASE Head(stdout) = Event("ask", d)
        <5>1. Head(stdout).id = d
          BY <4>4 DEF Event
        <5>2. CASE RouteToInbox
          BY <5>1, <5>2 DEF RouteToInbox
        <5>3. CASE RouteAutomatic
          <6>1. Sends(d, "yes", "policy")
            BY <4>2, <5>1, <5>3 DEF RouteAutomatic
          <6>2. QED
            BY <6>1, SentIsReplied
        <5>4. QED
          BY <3>8, <5>2, <5>3
      <4>5. QED
        BY <4>3, <4>4
    <3>9. ASSUME NEW c \in Dialogs, NEW fits \in BOOLEAN, Approve(c, fits) \/ Deny(c) PROVE Held(d)'
      <4>1. /\ UNCHANGED <<piState, stdout, stdin, daemon>> /\ inbox' = inbox \ {c} /\ writes \subseteq writes'
            /\ CanSend => \E a \in Answers : Sends(c, a, "cli")
        BY <3>9 DEF Approve, Deny, Claim, Sends, Answers
      <4>2. dialog[d] = "open" /\ CanSend /\ Live
        BY <2>1, <4>1 DEF piState, CanSend, Live
      <4>3. Replied(c)'
        BY <4>1, <4>2, SentIsReplied
      <4>4. QED
        BY <1>2, <2>1, <4>1, <4>2, <4>3 DEF NoDialogStranded, Replied, Unread
    <3>10. ASSUME NEW r \in writes, ReplySent(r) PROVE Held(d)'
      <4>1. /\ UNCHANGED <<piState, router, stdout, daemon>>
            /\ writes' = writes \ {r} /\ stdin' = stdin \cup {r}
        BY <3>10 DEF ReplySent
      <4>2. writes' \cup stdin' = writes \cup stdin
        BY <4>1
      <4>3. QED
        BY <1>2, <2>1, <4>1, <4>2 DEF NoDialogStranded, CanSend, Live, Replied, Unread, piState, router
    <3>11. ASSUME NEW c \in Dialogs, Expire(c) PROVE Held(d)'
      <4>1. c # d /\ UNCHANGED <<piState, pipes, daemon>> /\ inbox' = inbox \ {c}
        BY <1>2, <3>11 DEF Expire, TypeOK
      <4>2. QED
        BY <1>2, <2>1, <4>1 DEF NoDialogStranded, CanSend, Live, Replied, Unread, piState, pipes
    <3>12. CASE ServiceStarts \/ ServiceExits \/ Register \/ Unregister
      <4>1. \/ ~alive'
            \/ ~alive /\ dialog' = dialog
        BY <3>12 DEF ServiceStarts, ServiceExits, Register, Unregister, piState
      <4>2. QED
        BY <1>2, <2>1, <4>1 DEF CanSend, DialogsInv, GoneIsSilent
    <3>13. CASE ServiceStopped \/ Dispose
      <4>1. UNCHANGED <<alive, dialog, inbox, pipes>> /\ (stdinOpen' => stdinOpen) /\ Live
        BY <3>13 DEF ServiceStopped, Dispose, piState, router, Live
      <4>2. QED
        BY <1>2, <2>1, <4>1 DEF NoDialogStranded, CanSend, Replied, Unread, pipes, TypeOK
    <3>14. QED
      BY <1>2, <3>1, <3>2, <3>3, <3>4, <3>5, <3>6, <3>7, <3>8, <3>9, <3>10, <3>11, <3>12, <3>13
      DEF Next, Router, Pi, People, Service
  <2>2. QED
    BY <2>1 DEF NoDialogStranded
<1>3. QED
  BY <1>1, <1>2, TypeCorrect, DialogsInvariant, PTL DEF Spec

-----------------------------------------------------------------------------
(* The tool a dialog is judged by. *)

\* What leads behind n events still leads behind the n - 1 that are left once one is read.
LEMMA LeadsRead ==
    ASSUME TypeOK, NEW t \in Tools, NEW n \in 1 .. Len(stdout), Leads(t, n),
           ToolStarted \/ ToolEnded \/ RouteAutomatic \/ RouteToInbox
    PROVE  Leads(t, n - 1)'
<1>1. PICK type \in {"start", "end", "ask"} :
          /\ Reads(type)
          /\ type = "start" => inFlight' = Append(inFlight, Head(stdout).id)
          /\ type = "end" => ToolEnded
          /\ type = "ask" => UNCHANGED inFlight
  BY DEF ToolStarted, ToolEnded, RouteAutomatic, RouteToInbox, router
<1>2. /\ Len(stdout) \in Nat /\ stdout[1] = Event(type, Head(stdout).id) /\ stdout[1].type = type
      /\ type # "ask" => Head(stdout).id \in Tools
      /\ \A i \in 1 .. (Len(stdout) - 1) : stdout'[i] = stdout[i + 1]
  BY <1>1, ReadMovesUp
<1>3. inFlight \in Seq(Tools) /\ Len(inFlight) \in Nat
  BY DEF TypeOK
<1>4. \A i \in 1 .. (n - 1) : i + 1 \in 2 .. n /\ stdout'[i] = stdout[i + 1]
  BY <1>2
<1>5. \A i \in 1 .. (n - 1) : stdout'[i] # Event("end", t)
  BY <1>4 DEF Leads
<1>6. \A i \in 2 .. n : i - 1 \in 1 .. (n - 1) /\ stdout'[i - 1] = stdout[i]
  <2>1. \A i \in 2 .. n : i - 1 \in 1 .. (n - 1) /\ (i - 1) + 1 = i
    OBVIOUS
  <2>2. QED
    BY <1>4, <2>1
<1>7. ASSUME NEW i \in 2 .. n, stdout[i] = Event("start", t), \A j \in (i + 1) .. n : stdout[j].type # "start"
      PROVE  Leads(t, n - 1)'
  <2>1. i - 1 \in 1 .. (n - 1) /\ stdout'[i - 1] = Event("start", t)
    BY <1>6, <1>7
  <2>2. \A j \in i .. (n - 1) : j + 1 \in (i + 1) .. n /\ stdout'[j] = stdout[j + 1]
    BY <1>4
  <2>3. \A j \in ((i - 1) + 1) .. (n - 1) : stdout'[j].type # "start"
    BY <1>7, <2>2
  <2>4. QED
    BY <1>5, <2>1, <2>3 DEF Leads
<1>8. ASSUME inFlight' # <<>>, inFlight'[Len(inFlight')] = t,
             \A j \in 2 .. n : stdout[j].type # "start"
      PROVE  Leads(t, n - 1)'
  <2>1. \A j \in 1 .. (n - 1) : stdout'[j].type # "start"
    BY <1>4, <1>8
  <2>2. QED
    BY <1>5, <1>8, <2>1 DEF Leads
<1>9. CASE stdout[1] = Event("start", t) /\ \A j \in 2 .. n : stdout[j].type # "start"
  <2>1. type = "start" /\ Head(stdout).id = t
    BY <1>2, <1>9 DEF Event
  <2>2. inFlight' # <<>> /\ inFlight'[Len(inFlight')] = t
    BY <1>1, <1>3, <2>1
  <2>3. QED
    BY <1>8, <1>9, <2>2
<1>10. CASE /\ inFlight # <<>> /\ inFlight[Len(inFlight)] = t
            /\ \A j \in 1 .. n : stdout[j].type # "start"
  <2>1. type # "start"
    BY <1>2, <1>10
  <2>2. CASE type = "ask"
    BY <1>1, <1>8, <1>10, <2>2
  <2>3. CASE type = "end"
    <3>1. Head(stdout).id # t
      BY <1>2, <2>3 DEF Leads
    <3>2. CASE UNCHANGED inFlight
      BY <1>8, <1>10, <3>2
    <3>3. ASSUME NEW i \in DOMAIN inFlight, inFlight[i] = Head(stdout).id,
                 inFlight' = SubSeq(inFlight, 1, i - 1) \o SubSeq(inFlight, i + 1, Len(inFlight))
          PROVE  Leads(t, n - 1)'
      <4>1. i \in 1 .. Len(inFlight) /\ i # Len(inFlight)
        <5>1. inFlight[i] # inFlight[Len(inFlight)]
          BY <1>10, <3>1, <3>3
        <5>2. i \in 1 .. Len(inFlight)
          BY <1>3
        <5>3. QED
          BY <5>1, <5>2
      <4>2. PICK front \in Seq(Tools) : front = SubSeq(inFlight, 1, i - 1)
        <5>1. SubSeq(inFlight, 1, i - 1) \in Seq(Tools)
          BY <1>3, <4>1
        <5>2. QED
          BY <5>1
      <4>3. PICK rest \in Seq(Tools) : rest = SubSeq(inFlight, i + 1, Len(inFlight))
        <5>1. SubSeq(inFlight, i + 1, Len(inFlight)) \in Seq(Tools)
          BY <1>3, <4>1
        <5>2. QED
          BY <5>1
      <4>4. Len(front) \in Nat /\ Len(rest) \in Nat
        BY <4>2, <4>3
      <4>5. Len(rest) = Len(inFlight) - i
        BY <1>3, <4>1, <4>3
      <4>6. Len(rest) > 0 /\ rest[Len(rest)] = t
        <5>1. rest[Len(inFlight) - i] = inFlight[(i + 1) + (Len(inFlight) - i) - 1]
          <6>1. Len(inFlight) - i \in 1 .. (Len(inFlight) - (i + 1) + 1) /\ i + 1 \in Nat
            BY <1>3, <4>1
          <6>2. \A k \in (i + 1) .. Len(inFlight) : inFlight[k] \in Tools
            BY <1>3, <4>1
          <6>3. PICK m \in Int, l \in Int : m = i + 1 /\ l = Len(inFlight)
            BY <1>3, <4>1
          <6>4. /\ \A k \in m .. l : inFlight[k] \in Tools
                /\ l - i \in 1 .. l - m + 1 /\ m + (l - i) - 1 = (i + 1) + (Len(inFlight) - i) - 1
            BY <1>3, <4>1, <6>2, <6>3
          <6>5. SubSeq(inFlight, m, l)[l - i] = inFlight[m + (l - i) - 1]
            <7>1. \A k \in 1 .. l - m + 1 : SubSeq(inFlight, m, l)[k] = inFlight[m + k - 1]
              BY ONLY <6>4, SubSeqProperties
            <7>2. QED
              BY <6>4, <7>1
          <6>6. QED
            BY <4>3, <6>3, <6>4, <6>5
        <5>2. (i + 1) + (Len(inFlight) - i) - 1 = Len(inFlight)
          BY <1>3, <4>1
        <5>3. QED
          BY <1>3, <1>10, <4>1, <4>5, <5>1, <5>2
      <4>7. inFlight' = front \o rest
        BY <3>3, <4>2, <4>3
      <4>8. Len(inFlight') = Len(front) + Len(rest) /\ inFlight'[Len(front) + Len(rest)] = rest[Len(rest)]
        <5>1. /\ Len(front \o rest) = Len(front) + Len(rest)
              /\ \A k \in 1 .. (Len(front) + Len(rest)) :
                    (front \o rest)[k] = IF k <= Len(front) THEN front[k] ELSE rest[k - Len(front)]
          BY <4>2, <4>3, ConcatProperties
        <5>2. Len(front) + Len(rest) \in 1 .. (Len(front) + Len(rest))
          BY <4>4, <4>6
        <5>3. ~ (Len(front) + Len(rest) <= Len(front)) /\ (Len(front) + Len(rest)) - Len(front) = Len(rest)
          BY <4>4, <4>6
        <5>4. QED
          BY <4>7, <5>1, <5>2, <5>3
      <4>9. inFlight' # <<>> /\ inFlight'[Len(inFlight')] = t
        BY <4>4, <4>6, <4>8
      <4>10. QED
        BY <1>8, <1>10, <4>9
    <3>4. QED
      BY <1>1, <2>3, <3>2, <3>3 DEF ToolEnded
  <2>4. QED
    BY <2>1, <2>2, <2>3
<1>11. QED
  <2>1. CASE \E i \in 1 .. n : /\ stdout[i] = Event("start", t)
                               /\ \A j \in (i + 1) .. n : stdout[j].type # "start"
    <3>1. PICK i \in 1 .. n : /\ stdout[i] = Event("start", t)
                              /\ \A j \in (i + 1) .. n : stdout[j].type # "start"
      BY <2>1
    <3>2. i = 1 \/ i \in 2 .. n
      OBVIOUS
    <3>3. QED
      BY <1>7, <1>9, <3>1, <3>2
  <2>2. QED
    BY <1>10, <2>1 DEF Leads

\* What leads behind n events does so whatever is emitted after them.
LEMMA LeadsKept ==
    ASSUME TypeOK, NEW t \in Tools, NEW n \in 0 .. Len(stdout), Leads(t, n), UNCHANGED inFlight,
           NEW e \in Events, stdout' = Append(stdout, e)
    PROVE  /\ Leads(t, n)'
           /\ n = Len(stdout) /\ e.type # "start" /\ e # Event("end", t) => Leads(t, n + 1)'
<1>1. /\ Len(stdout) \in Nat /\ stdout'[Len(stdout) + 1] = e
      /\ \A i \in 1 .. Len(stdout) : stdout'[i] = stdout[i]
  BY EmitsLast
<1>2. \A i \in 1 .. n : stdout'[i] = stdout[i]
  BY <1>1
<1>3. Leads(t, n)'
  BY <1>1, <1>2 DEF Leads
<1>4. ASSUME n = Len(stdout), e.type # "start", e # Event("end", t) PROVE Leads(t, n + 1)'
  <2>1. \A i \in 1 .. (n + 1) : i \in 1 .. n \/ (i = n + 1 /\ stdout'[i] = e)
    BY <1>1, <1>4
  <2>2. \A i \in 1 .. (n + 1) : stdout'[i] # Event("end", t)
    BY <1>2, <1>4, <2>1 DEF Leads
  <2>3. CASE \E i \in 1 .. n : /\ stdout[i] = Event("start", t)
                               /\ \A j \in (i + 1) .. n : stdout[j].type # "start"
    <3>1. PICK i \in 1 .. n : /\ stdout[i] = Event("start", t)
                              /\ \A j \in (i + 1) .. n : stdout[j].type # "start"
      BY <2>3
    <3>2. i \in 1 .. (n + 1) /\ stdout'[i] = Event("start", t)
      BY <1>2, <3>1
    <3>3. \A j \in (i + 1) .. (n + 1) : j \in (i + 1) .. n \/ stdout'[j] = e
      BY <1>1, <1>4
    <3>4. \A j \in (i + 1) .. (n + 1) : stdout'[j].type # "start"
      BY <1>2, <1>4, <3>1, <3>3
    <3>5. QED
      BY <2>2, <3>2, <3>4 DEF Leads
  <2>4. CASE /\ inFlight # <<>> /\ inFlight[Len(inFlight)] = t
             /\ \A j \in 1 .. n : stdout[j].type # "start"
    <3>1. \A j \in 1 .. (n + 1) : stdout'[j].type # "start"
      BY <1>2, <1>4, <2>1, <2>4
    <3>2. QED
      BY <2>2, <2>4, <3>1 DEF Leads
  <2>5. QED
    BY <2>3, <2>4 DEF Leads
<1>5. QED
  BY <1>3, <1>4

\* The attribution holds when pi emits an event that is due.
LEMMA AttributedEmit ==
    ASSUME TypeOK, Attributed, NEW e \in Events, stdout' = Append(stdout, e), UNCHANGED inFlight,
           \A t \in Tools : tool[t] = "done" \/ e = Event("end", t) => tool'[t] = "done",
           \A t \in Tools : tool'[t] = "hook" =>
               \/ e = Event("start", t) /\ tool[t] # "done"
               \/ tool[t] = "hook" /\ e.type # "start" /\ e # Event("end", t),
           raisedBy' \in [Dialogs -> Tools \cup {NoTool}],
           \A d \in Dialogs : Unread(d) => raisedBy'[d] = raisedBy[d],
           \A d \in Dialogs : e = Event("ask", d) /\ raisedBy'[d] # NoTool => tool[raisedBy'[d]] = "hook"
    PROVE  Attributed'
<1>1. /\ Len(stdout) \in Nat /\ DOMAIN stdout = 1 .. Len(stdout)
      /\ Len(stdout') = Len(stdout) + 1 /\ DOMAIN stdout' = 1 .. (Len(stdout) + 1)
      /\ \A i \in 1 .. Len(stdout) : stdout'[i] = stdout[i]
      /\ stdout'[Len(stdout) + 1] = e
  BY EmitsLast
<1>2. PICK n \in Nat : n = Len(stdout)
  BY <1>1
<1>3. \A i \in 1 .. (n + 1) : (i \in 1 .. n /\ stdout'[i] = stdout[i]) \/ (i = n + 1 /\ stdout'[i] = e)
  BY <1>1, <1>2
<1>4. \A t \in Tools, i \in DOMAIN stdout' : stdout'[i] = Event("end", t) => tool'[t] = "done"
  BY <1>1, <1>2, <1>3 DEF Attributed
<1>5. ASSUME NEW t \in Tools, tool'[t] = "hook" PROVE Leads(t, Len(stdout))'
  <2>1. Leads(t, n + 1)'
    <3>1. CASE e = Event("start", t) /\ tool[t] # "done"
      <4>1. \A i \in 1 .. n : stdout[i] # Event("end", t)
        BY <1>1, <1>2, <3>1 DEF Attributed
      <4>2. \A i \in 1 .. (n + 1) : stdout'[i] # Event("end", t)
        <5>1. e # Event("end", t)
          BY <3>1 DEF Event
        <5>2. QED
          BY <1>3, <4>1, <5>1
      <4>3. stdout'[n + 1] = Event("start", t) /\ n + 1 \in 1 .. (n + 1) /\ ((n + 1) + 1) .. (n + 1) = {}
        BY <1>1, <1>2, <3>1
      <4>4. QED
        BY <4>2, <4>3 DEF Leads
    <3>2. CASE tool[t] = "hook" /\ e.type # "start" /\ e # Event("end", t)
      <4>1. Leads(t, Len(stdout))
        BY <3>2 DEF Attributed
      <4>2. Leads(t, n) /\ n \in 0 .. Len(stdout)
        BY <1>2, <4>1
      <4>3. QED
        BY <1>2, <3>2, <4>2, LeadsKept
    <3>3. QED
      BY <1>5, <3>1, <3>2
  <2>2. QED
    BY <1>1, <1>2, <2>1 DEF Leads
<1>6. ASSUME NEW i \in DOMAIN stdout', NEW d \in Dialogs, stdout'[i] = Event("ask", d), raisedBy'[d] # NoTool
      PROVE  Leads(raisedBy[d], i - 1)'
  <2>1. PICK u \in Tools : u = raisedBy'[d]
    BY <1>6
  <2>2. Leads(u, i - 1) /\ i - 1 \in 0 .. Len(stdout)
    <3>1. CASE i \in 1 .. n /\ stdout'[i] = stdout[i]
      <4>1. Unread(d)
        BY <1>1, <1>2, <1>6, <3>1 DEF Unread
      <4>2. QED
        BY <1>1, <1>2, <1>6, <2>1, <3>1, <4>1 DEF Attributed
    <3>2. CASE i = n + 1 /\ stdout'[i] = e
      <4>1. tool[u] = "hook" /\ i - 1 = Len(stdout) /\ i - 1 \in 0 .. Len(stdout)
        BY <1>1, <1>2, <1>6, <2>1, <3>2
      <4>2. Leads(u, Len(stdout))
        BY <4>1 DEF Attributed
      <4>3. QED
        BY <4>1, <4>2
    <3>3. QED
      BY <1>1, <1>2, <1>3, <3>1, <3>2
  <2>3. Leads(u, i - 1)'
    BY <2>2, LeadsKept
  <2>4. QED
    BY <2>1, <2>3 DEF Leads
<1>7. QED
  BY <1>4, <1>5, <1>6 DEF Attributed

LEMMA AttributedKept ==
    ASSUME Attributed, UNCHANGED <<stdout, inFlight, raisedBy>>,
           \A t \in Tools : /\ tool[t] = "done" => tool'[t] = "done"
                            /\ tool'[t] = "hook" => tool[t] = "hook"
    PROVE  Attributed'
<1>1. \A t \in Tools, i \in DOMAIN stdout' : stdout'[i] = Event("end", t) => tool'[t] = "done"
  BY DEF Attributed
<1>2. ASSUME NEW t \in Tools, tool'[t] = "hook" PROVE Leads(t, Len(stdout))'
  <2>1. Leads(t, Len(stdout))
    BY <1>2 DEF Attributed
  <2>2. QED
    BY <2>1 DEF Leads
<1>3. ASSUME NEW i \in DOMAIN stdout', NEW d \in Dialogs, stdout'[i] = Event("ask", d), raisedBy'[d] # NoTool
      PROVE  Leads(raisedBy[d], i - 1)'
  <2>1. Leads(raisedBy[d], i - 1)
    BY <1>3 DEF Attributed
  <2>2. QED
    BY <2>1 DEF Leads
<1>4. QED
  BY <1>1, <1>2, <1>3 DEF Attributed

LEMMA AttributedByPi ==
    ASSUME TypeOK, DialogsInv, Attributed, Pi
    PROVE  Attributed'
<1>1. ASSUME NEW t \in Tools, PiStartsTool(t) \/ PiEndsTool(t) PROVE Attributed'
  <2>1. PICK e \in Events :
           /\ stdout' = Append(stdout, e)
           /\ \/ /\ e = Event("start", t) /\ tool' = [tool EXCEPT ![t] = "hook"]
                 /\ tool[t] = "new" /\ \A u \in Tools : tool[u] # "hook"
              \/ /\ e = Event("end", t) /\ tool' = [tool EXCEPT ![t] = "done"]
                 /\ tool[t] = "running"
    BY <1>1, EventsTyped DEF PiStartsTool, PiEndsTool
  <2>2. UNCHANGED <<raisedBy, inFlight>>
    BY <1>1 DEF PiStartsTool, PiEndsTool, router
  <2>3. \A u \in Tools : tool[u] = "done" \/ e = Event("end", u) => tool'[u] = "done"
    BY <2>1 DEF TypeOK, Event
  <2>4. \A u \in Tools : tool'[u] = "hook" =>
            \/ e = Event("start", u) /\ tool[u] # "done"
            \/ tool[u] = "hook" /\ e.type # "start" /\ e # Event("end", u)
    BY <2>1 DEF TypeOK, Event
  <2>5. \A d \in Dialogs : e # Event("ask", d)
    BY <2>1, EventsTyped
  <2>6. QED
    BY <2>1, <2>2, <2>3, <2>4, <2>5, AttributedEmit DEF TypeOK
<1>2. ASSUME NEW d \in Dialogs, NEW t \in Tools \cup {NoTool}, PiAsks(d, t) PROVE Attributed'
  <2>1. /\ stdout' = Append(stdout, Event("ask", d)) /\ Event("ask", d) \in Events
        /\ dialog[d] = "new" /\ raisedBy' = [raisedBy EXCEPT ![d] = t]
        /\ t # NoTool => tool[t] = "hook"
        /\ UNCHANGED <<tool, inFlight>>
    BY <1>2, EventsTyped DEF PiAsks, router
  <2>2. ~Unread(d)
    BY <2>1 DEF DialogsInv, Stage
  <2>3. /\ raisedBy' \in [Dialogs -> Tools \cup {NoTool}]
        /\ \A c \in Dialogs : c # d => raisedBy'[c] = raisedBy[c]
        /\ raisedBy'[d] = t
    BY <2>1 DEF TypeOK
  <2>4. \A c \in Dialogs : Event("ask", d) = Event("ask", c) => c = d
    BY EventsTyped
  <2>5. Event("ask", d).type # "start" /\ \A u \in Tools : Event("ask", d) # Event("end", u)
    BY DEF Event
  <2>6. QED
    BY <2>1, <2>2, <2>3, <2>4, <2>5, AttributedEmit
<1>3. CASE \/ \E t \in Tools : PiLeavesHook(t)
           \/ \E d \in Dialogs : PiTimesOut(d)
           \/ \E r \in stdin : PiReads(r)
  <2>1. UNCHANGED <<stdout, inFlight, raisedBy>>
    BY <1>3 DEF PiLeavesHook, PiTimesOut, PiReads, router, pipes
  <2>2. \A t \in Tools : /\ tool[t] = "done" => tool'[t] = "done"
                         /\ tool'[t] = "hook" => tool[t] = "hook"
    BY <1>3 DEF PiLeavesHook, PiTimesOut, PiReads, TypeOK
  <2>3. QED
    BY <2>1, <2>2, AttributedKept
<1>4. QED
  BY <1>1, <1>2, <1>3 DEF Pi

\* The router reads an event, and the attribution moves up with the others.
LEMMA AttributedRead ==
    ASSUME TypeOK, Attributed, ToolStarted \/ ToolEnded \/ RouteAutomatic \/ RouteToInbox
    PROVE  Attributed'
<1>1. PICK type \in {"start", "end", "ask"} : Reads(type)
  BY DEF ToolStarted, ToolEnded, RouteAutomatic, RouteToInbox
<1>2. UNCHANGED <<tool, raisedBy>>
  BY DEF ToolStarted, ToolEnded, RouteAutomatic, RouteToInbox, piState
<1>3. /\ Len(stdout) \in Nat \ {0} /\ DOMAIN stdout = 1 .. Len(stdout)
      /\ Len(stdout') = Len(stdout) - 1 /\ DOMAIN stdout' = 1 .. (Len(stdout) - 1)
      /\ \A i \in 1 .. (Len(stdout) - 1) : stdout'[i] = stdout[i + 1]
  BY <1>1, ReadMovesUp
<1>4. PICK n \in Nat \ {0} : n = Len(stdout)
  BY <1>3
<1>5. \A i \in DOMAIN stdout' : i + 1 \in DOMAIN stdout /\ stdout'[i] = stdout[i + 1] /\ i \in 1 .. Len(stdout)
  BY <1>3
<1>6. \A t \in Tools, i \in DOMAIN stdout' : stdout'[i] = Event("end", t) => tool'[t] = "done"
  BY <1>2, <1>5 DEF Attributed
<1>7. ASSUME NEW t \in Tools, tool'[t] = "hook" PROVE Leads(t, Len(stdout))'
  <2>1. Leads(t, n)
    BY <1>2, <1>4, <1>7 DEF Attributed
  <2>2. Leads(t, n - 1)'
    BY <1>3, <1>4, <2>1, LeadsRead
  <2>3. QED
    BY <1>3, <1>4, <2>2 DEF Leads
<1>8. ASSUME NEW i \in DOMAIN stdout', NEW d \in Dialogs, stdout'[i] = Event("ask", d), raisedBy'[d] # NoTool
      PROVE  Leads(raisedBy[d], i - 1)'
  <2>1. PICK u \in Tools : u = raisedBy[d] /\ u = raisedBy'[d]
    BY <1>2, <1>8 DEF TypeOK
  <2>2. Leads(u, (i + 1) - 1) /\ (i + 1) - 1 = i /\ i \in 1 .. Len(stdout)
    <3>1. i + 1 \in DOMAIN stdout /\ stdout[i + 1] = Event("ask", d) /\ raisedBy[d] # NoTool
      BY <1>2, <1>5, <1>8
    <3>2. Leads(u, (i + 1) - 1)
      BY <2>1, <3>1 DEF Attributed
    <3>3. (i + 1) - 1 = i /\ i \in 1 .. Len(stdout)
      BY <1>3, <1>5
    <3>4. QED
      BY <3>2, <3>3
  <2>3. Leads(u, i)
    BY <2>2
  <2>4. Leads(u, i - 1)'
    BY <2>2, <2>3, LeadsRead
  <2>5. QED
    BY <2>1, <2>4 DEF Leads
<1>9. QED
  BY <1>6, <1>7, <1>8 DEF Attributed

THEOREM AttributedInvariant == Spec => []Attributed
<1>1. ASSUME Init PROVE Attributed
  BY <1>1 DEF Init, Attributed
<1>2. ASSUME TypeOK, DialogsInv, Attributed, [Next]_vars PROVE Attributed'
  <2>1. CASE Service
    <3>1. CASE ServiceExits
      <4>1. stdout' = <<>> /\ \A t \in Tools : tool'[t] # "hook"
        BY <3>1 DEF ServiceExits, Executing
      <4>2. QED
        BY <4>1 DEF Attributed
    <3>2. CASE Register \/ Unregister
      <4>1. stdout' = <<>> /\ \A t \in Tools : tool'[t] # "hook"
        BY <1>2, <3>2 DEF Register, Unregister, piState, pipes, DialogsInv, GoneIsSilent, Executing
      <4>2. QED
        BY <4>1 DEF Attributed
    <3>3. CASE ServiceStarts \/ ServiceStopped \/ Dispose
      <4>1. UNCHANGED <<stdout, inFlight, raisedBy, tool>>
        BY <3>3 DEF ServiceStarts, ServiceStopped, Dispose, piState, router, pipes
      <4>2. QED
        BY <1>2, <4>1, AttributedKept
    <3>4. QED
      BY <2>1, <3>1, <3>2, <3>3 DEF Service
  <2>2. CASE \/ UNCHANGED vars \/ People
             \/ \E r \in writes : ReplySent(r)
             \/ \E d \in Dialogs : Expire(d)
    <3>1. UNCHANGED <<stdout, inFlight, raisedBy, tool>>
      BY <2>2 DEF vars, People, Approve, Deny, ReplySent, Expire, piState, router, pipes
    <3>2. QED
      BY <1>2, <3>1, AttributedKept
  <2>3. QED
    BY <1>2, <2>1, <2>2, AttributedByPi, AttributedRead DEF Next, Router
<1>3. QED
  BY <1>1, <1>2, TypeCorrect, DialogsInvariant, PTL DEF Spec

\* A dialog a tool's hook raised is answered by policy only if that tool is one the policy
\* approves: when the router reads the request, that tool is the last of inFlight.
THEOREM JudgedTheorem == Spec => []JudgedByItsTool
<1>1. ASSUME Init PROVE JudgedByItsTool
  BY <1>1 DEF Init, JudgedByItsTool
<1>2. ASSUME TypeOK, DialogsInv, Attributed, JudgedByItsTool, [Next]_vars PROVE JudgedByItsTool'
  <2>1. ASSUME NEW r \in writes' \cup stdin', r.by = "policy", raisedBy'[r.id] # NoTool
        PROVE  raisedBy'[r.id] \in Blessed
    <3>1. CASE r \in writes \cup stdin
      <4>1. r.id \in Dialogs /\ Replied(r.id)
        BY <1>2, <3>1 DEF TypeOK, Replies, Replied
      <4>2. trail[r.id] # <<>>
        <5>1. Told(r) /\ "auto_approve" \in Lines
          BY <1>2, <3>1 DEF DialogsInv, Lines, Decisions
        <5>2. QED
          BY <2>1, <5>1, Trails DEF Told
      <4>3. dialog[r.id] # "new"
        BY <1>2, <4>1, <4>2 DEF DialogsInv, Stage
      <4>4. raisedBy'[r.id] = raisedBy[r.id]
        <5>1. UNCHANGED raisedBy \/ \E d \in Dialogs, t \in Tools \cup {NoTool} : PiAsks(d, t)
          BY <1>2 DEF Next, vars, Router, Pi, People, Service, ToolStarted, ToolEnded, RouteAutomatic,
             RouteToInbox, ReplySent, PiStartsTool, PiLeavesHook, PiEndsTool, PiTimesOut, PiReads, Approve,
             Deny, ServiceStarts, ServiceStopped, ServiceExits, Register, Unregister, Dispose, Expire, piState
        <5>2. QED
          BY <1>2, <4>1, <4>3, <5>1 DEF PiAsks, TypeOK
      <4>5. QED
        BY <1>2, <2>1, <3>1, <4>4 DEF JudgedByItsTool
    <3>2. CASE r \notin writes \cup stdin
      <4>1. RouteAutomatic
        <5>1. \/ RouteAutomatic \/ writes' \cup stdin' \subseteq writes \cup stdin
              \/ \E d \in Dialogs : Deny(d) \/ \E fits \in BOOLEAN : Approve(d, fits)
          BY <1>2 DEF Next, vars, Router, Pi, People, Service, ToolStarted, ToolEnded,
             RouteToInbox, ReplySent, PiStartsTool, PiLeavesHook, PiEndsTool, PiAsks, PiTimesOut, PiReads,
             ServiceStarts, ServiceStopped, ServiceExits, Register, Unregister, Dispose, Expire, pipes
        <5>2. ASSUME NEW d \in Dialogs, NEW fits \in BOOLEAN, Approve(d, fits) \/ Deny(d) PROVE FALSE
          <6>1. UNCHANGED stdin /\ (UNCHANGED writes \/ \E a \in Answers : Sends(d, a, "cli"))
            BY <5>2 DEF Approve, Deny, Answers
          <6>2. QED
            BY <2>1, <3>2, <6>1 DEF Sends
        <5>3. QED
          BY <2>1, <3>2, <5>1, <5>2
      <4>2. /\ Reads("ask") /\ AutoApproved(Head(stdout).id) /\ UNCHANGED <<raisedBy, stdin>>
            /\ UNCHANGED writes \/ Sends(Head(stdout).id, "yes", "policy")
        BY <4>1 DEF RouteAutomatic, piState
      <4>3. PICK d \in Dialogs : d = Head(stdout).id
        BY <1>2, <4>2, ReadMovesUp
      <4>4. r.id = d
        BY <2>1, <3>2, <4>2, <4>3 DEF Sends
      <4>5. 1 \in DOMAIN stdout /\ stdout[1] = Event("ask", d)
        <5>1. /\ Len(stdout) \in Nat /\ Len(stdout) > 0 /\ DOMAIN stdout = 1 .. Len(stdout)
              /\ stdout[1] = Event("ask", Head(stdout).id)
          BY <1>2, <4>2, ReadMovesUp
        <5>2. QED
          BY <4>3, <5>1
      <4>6. Leads(raisedBy[d], 1 - 1)
        BY <1>2, <2>1, <4>2, <4>4, <4>5 DEF Attributed
      <4>7. inFlight # <<>> /\ inFlight[Len(inFlight)] = raisedBy[d]
        BY <4>6 DEF Leads
      <4>8. QED
        BY <4>2, <4>3, <4>4, <4>7 DEF AutoApproved, Correlated
    <3>3. QED
      BY <3>1, <3>2
  <2>2. QED
    BY <2>1 DEF JudgedByItsTool
<1>3. QED
  BY <1>1, <1>2, TypeCorrect, DialogsInvariant, AttributedInvariant, PTL DEF Spec
===============================================================================
