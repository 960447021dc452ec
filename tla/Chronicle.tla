------------------------------- MODULE Chronicle -------------------------------
(***************************************************************************)
(* The chronicle of one service: log/writer.ts (RotatingLogWriter), which  *)
(* the supervisor opens at a start and ends at an exit, log/reader.ts and  *)
(* log/tail.ts, which `pid logs`, `pid logs -f` and `pid tail` (cli.ts)    *)
(* run in processes of their own on the same directory.                    *)
(*                                                                         *)
(* A line is its number in the order of the calls of write(); every line   *)
(* has one unit of size, so that no read ends within a line.  A file is    *)
(* its inode, the position in `files`: a stream goes on writing to the     *)
(* inode it opened whatever its name becomes.  Days and times are those    *)
(* of the local calendar, and the clock does not go back.                  *)
(***************************************************************************)
EXTENDS Integers, FiniteSets, SequencesExt

CONSTANTS
    Cap,        \* sizeCapBytes, in lines
    Retention,  \* retentionDays
    Commands,   \* the commands this instance exercises
    Live, Gone, \* the names of the live file, and of a file that was removed
    SuffixOrder, \* where the suffix `-n` of an archive's name is in the order of strings
    None,       \* null value
    LastDay, LastTime, \* bounds: the clock, days from 1, times of a day from 1
    MaxLines,   \* bound: lines written
    MaxRuns     \* bound: runs of the service, each with a writer

ASSUME ChronicleAssumption ==
    /\ Cap \in Nat \ {0} /\ Retention \in Nat
    /\ Commands \subseteq {"logs", "follow", "tail"}
    /\ Live # Gone
    /\ LastDay \in Nat \ {0} /\ LastTime \in Nat \ {0} /\ MaxLines \in Nat /\ MaxRuns \in Nat

VARIABLES
    now,        \* the clock
    accepted,   \* the day on which each line was given to write()
    files,      \* every file there was: its name, its lines, the day of its mtime
    writer,     \* the RotatingLogWriter in use, or None; with its stream's buffer
    runs,       \* runs of the service so far
    ended,      \* streams that ended with lines to flush: their files and buffers
    pruning,    \* the cutoff days of the prunes in progress
    viewer,     \* the command that reads the chronicle
    printed,    \* what it printed
    lost,       \* history: lines that were in the daemon's memory when it crashed
    misplaced,  \* history: files that are listed before some that were archived earlier
    listed,     \* history: lines of the segments being read, as they were listed, but for those
                \* that were moved to an archive since
    base,       \* history: lines the live file, if it is still the one, had when the tailer started
    outgrown    \* history: whether a live file was found as large as the one it replaced

daemonVars == <<writer, runs, ended, pruning>>
viewVars == <<viewer, printed, base, outgrown>>
vars == <<now, accepted, files, daemonVars, viewVars, lost, misplaced, listed>>

Line == 1..MaxLines
Day == 1..LastDay
Clock == [day : Day, time : 1..LastTime]

\* The name of an archive: the plain one of a day has time 0; n is the suffix.
Archive == [day : Day, time : 0..LastTime, n : 0..MaxLines]

File == [name : Archive \cup {Live, Gone}, lines : Seq(Line), at : Day]

\* Strings that differ have an order, which is that of the numbers while they have one digit.
ASSUME SuffixAssumption ==
    /\ SuffixOrder \in [0..MaxLines -> Nat] /\ IsInjective(SuffixOrder)
    /\ \A m, n \in 0..MaxLines : m < n /\ n < 10 => SuffixOrder[m] < SuffixOrder[n]

\* An archive's name is neither that of the live file nor that of a removed one; a writer is a writer.
ASSUME NameAssumption ==
    /\ {Live, Gone} \cap Archive = {}
    /\ None \notin [file : Nat, day : Day, bytes : Nat, buffer : Seq(Line)]

\* Every variable has its type.
TypeOK ==
    /\ now \in Clock
    /\ accepted \in Seq(Day) /\ Len(accepted) <= MaxLines
    /\ files \in Seq(File)
    /\ writer \in [file : DOMAIN files, day : Day, bytes : 0..MaxLines, buffer : Seq(Line)]
                  \cup {None}
    /\ runs \in 0..MaxRuns
    /\ ended \subseteq [file : DOMAIN files, buffer : Seq(Line)]
    /\ pruning \subseteq 1 - Retention .. LastDay - Retention
    /\ viewer \in [cmd : Commands \cup {None},
                   pc : {"idle", "read", "failed", "done", "rescan", "follow"},
                   todo : SUBSET (Archive \cup {Live}),
                   file : DOMAIN files \cup {None}, offset : 0..MaxLines]
    /\ printed \in Seq(Line)
    /\ lost \subseteq Line /\ misplaced \subseteq DOMAIN files
    /\ listed \subseteq Line /\ base \subseteq Line /\ outgrown \in BOOLEAN

-----------------------------------------------------------------------------
(* The directory. *)

NamedAs(name) == {i \in DOMAIN files : files[i].name = name}
TheFile(name) == CHOOSE i \in NamedAs(name) : TRUE
Archives == {i \in DOMAIN files : files[i].name \notin {Live, Gone}}
Size(i) == Len(files[i].lines)

NewFile == [name |-> Live, lines |-> <<>>, at |-> now.day]

\* The first line of a stream's buffer reaches the file.
Flushed(i, line) ==
    [files EXCEPT ![i].lines = Append(@, line), ![i].at = now.day]

-----------------------------------------------------------------------------
(* The writer. *)

\* RotatingLogWriter.open(): what is there belongs to the day it was last written.
Open ==
    LET there == NamedAs(Live) # {}
        i     == IF there THEN TheFile(Live) ELSE Len(files) + 1
        used  == there /\ Size(i) > 0
    IN  /\ writer = None /\ runs < MaxRuns /\ runs' = runs + 1
        /\ files' = IF there THEN files ELSE Append(files, NewFile)
        /\ writer' = [file |-> i, day |-> IF used THEN files[i].at ELSE now.day,
                      bytes |-> IF used THEN Size(i) ELSE 0, buffer |-> <<>>]
        /\ UNCHANGED <<now, accepted, ended, pruning, viewVars, lost, misplaced, listed>>

DayChanged == writer.day # now.day
SizeBreached == writer.bytes > 0 /\ writer.bytes + 1 > Cap

NextLine == Len(accepted) + 1

Accepts ==
    /\ writer # None /\ NextLine <= MaxLines
    /\ accepted' = Append(accepted, now.day)

\* write(), maybeRoll(): nothing to roll.
Write ==
    /\ Accepts /\ ~DayChanged /\ ~SizeBreached
    /\ writer' = [writer EXCEPT !.buffer = Append(@, NextLine), !.bytes = @ + 1]
    /\ UNCHANGED <<now, files, runs, ended, pruning, viewVars, lost, misplaced, listed>>

\* Mutant: an archive of that name is overwritten.
FirstPath(day, time) == [day |-> day, time |-> time, n |-> 0]

\* uniqueArchivePath()
UniquePath(day, time) ==
    LET path(k) == [day |-> day, time |-> time, n |-> k]
    IN  CHOOSE p \in {path(k) : k \in 0..MaxLines} :
            /\ NamedAs(p) = {}
            /\ \A k \in 0..p.n - 1 : NamedAs(path(k)) # {}

\* rename() of the live file, and the fresh one.
Renamed(path) ==
    Append([i \in DOMAIN files |->
               IF i = writer.file THEN [files[i] EXCEPT !.name = path]
               ELSE IF files[i].name = path THEN [files[i] EXCEPT !.name = Gone]
               ELSE files[i]],
           NewFile)

\* A stream that ends flushes what it has.
Ended(file, buffer) ==
    ended' = ended \cup (IF buffer = <<>> THEN {} ELSE {[file |-> file, buffer |-> buffer]})

\* Mutant: the terms of the difference are swapped.
SwappedCutoff == Retention - now.day

Cutoff == now.day - Retention

\* Cutoffs before which there is no day: nothing is pruned.
Idle == 1 - Retention .. 1

\* An archive may be listed before earlier ones if its stamp has the old day and the time of the
\* new one, or its suffix has a second digit.
Misplaces(path) == (DayChanged /\ SizeBreached) \/ path.n > 9

\* write(), maybeRoll(): the live file is archived, in the same tick.
Roll ==
    LET time == IF SizeBreached THEN now.time ELSE 0
        path == UniquePath(writer.day, time)
    IN  /\ Accepts /\ (DayChanged \/ SizeBreached)
        /\ files' = Renamed(path)
        /\ Ended(writer.file, writer.buffer)
        /\ writer' = [file |-> Len(files) + 1, day |-> now.day, bytes |-> 1,
                      buffer |-> <<NextLine>>]
        /\ pruning' = pruning \cup ({Cutoff} \ Idle)
        /\ misplaced' = IF Misplaces(path) THEN misplaced \cup {writer.file} ELSE misplaced
        /\ listed' = listed \ ToSet(files[writer.file].lines)
        /\ base' = {}
        /\ UNCHANGED <<now, runs, viewer, printed, outgrown, lost>>

\* end(): the child exited.
End ==
    /\ writer # None
    /\ Ended(writer.file, writer.buffer)
    /\ writer' = None
    /\ UNCHANGED <<now, accepted, files, runs, pruning, viewVars, lost, misplaced, listed>>

Flush ==
    /\ writer # None /\ writer.buffer # <<>>
    /\ files' = Flushed(writer.file, Head(writer.buffer))
    /\ writer' = [writer EXCEPT !.buffer = Tail(@)]
    /\ UNCHANGED <<now, accepted, runs, ended, pruning, viewVars, lost, misplaced, listed>>

FlushEnded ==
    /\ \E e \in ended :
          /\ files' = Flushed(e.file, Head(e.buffer))
          /\ ended' = (ended \ {e}) \cup (IF Len(e.buffer) = 1 THEN {}
                                          ELSE {[e EXCEPT !.buffer = Tail(@)]})
    /\ UNCHANGED <<now, accepted, writer, runs, pruning, viewVars, lost, misplaced, listed>>

\* prune(): archives of a day before the cutoff.
Prune ==
    /\ \E cutoff \in pruning :
          /\ files' = [i \in DOMAIN files |->
                          IF i \in Archives /\ files[i].name.day < cutoff
                          THEN [files[i] EXCEPT !.name = Gone] ELSE files[i]]
          /\ pruning' = pruning \ {cutoff}
    /\ UNCHANGED <<now, accepted, writer, runs, ended, viewVars, lost, misplaced, listed>>

\* The daemon dies: what its streams did not write is lost.
InMemory ==
    (UNION {ToSet(e.buffer) : e \in ended})
    \cup (IF writer = None THEN {} ELSE ToSet(writer.buffer))

Crash ==
    /\ <<writer, ended, pruning>> # <<None, {}, {}>>
    /\ lost' = lost \cup InMemory
    /\ writer' = None /\ ended' = {} /\ pruning' = {}
    /\ UNCHANGED <<now, accepted, files, runs, viewVars, misplaced, listed>>

Tick ==
    /\ now' \in {[now EXCEPT !.time = @ + 1], [day |-> now.day + 1, time |-> 1]} \cap Clock
    /\ UNCHANGED <<accepted, files, daemonVars, viewVars, lost, misplaced, listed>>

-----------------------------------------------------------------------------
(* The commands. *)

\* Mutant: the plain archive of a day has no key of its own.
PlainKey(name) == <<name.day, name.time, SuffixOrder[name.n]>>

\* archiveSortKey(), in the order of strings: `<day>-1` is before `<day>T..`.
Key(name) ==
    <<name.day, IF name.time = 0 /\ name.n = 0 THEN LastTime + 1 ELSE name.time,
      SuffixOrder[name.n]>>

\* listSegments(): the archives by their keys, then the live file.
Before(a, b) ==
    \/ a # Live /\ b = Live
    \/ /\ Live \notin {a, b}
       /\ LET k == Key(a)
              l == Key(b)
          IN  \E i \in 1..3 : k[i] < l[i] /\ \A j \in 1..i - 1 : k[j] = l[j]

Oldest(names) == CHOOSE a \in names : \A b \in names \ {a} : Before(a, b)

\* pid logs, pid logs -f: readChronicle() lists the segments.
Logs(cmd) ==
    LET there == Archives \cup NamedAs(Live)
    IN  /\ viewer.pc = "idle" /\ cmd \in {"logs", "follow"}
        /\ viewer' = [viewer EXCEPT !.cmd = cmd, !.pc = "read",
                                    !.todo = {files[i].name : i \in there}]
        /\ listed' = UNION {ToSet(files[i].lines) : i \in there}
        /\ UNCHANGED <<now, accepted, files, daemonVars, printed, base, outgrown, lost, misplaced>>

\* readSegment(): the path may name another file by now, or none.
ReadSegment ==
    LET name == Oldest(viewer.todo)
    IN  /\ viewer.pc = "read" /\ viewer.todo # {}
        /\ IF NamedAs(name) = {}
           THEN /\ viewer' = [viewer EXCEPT !.pc = "failed"]
                /\ UNCHANGED printed
           ELSE /\ viewer' = [viewer EXCEPT !.todo = @ \ {name}]
                /\ printed' = printed \o files[TheFile(name)].lines
        /\ UNCHANGED <<now, accepted, files, daemonVars, base, outgrown, lost, misplaced, listed>>

\* FileTailer.start() on the live file, at an offset, and the poll it makes.
Follows(cmd, offset) ==
    LET there == NamedAs(Live) # {}
        i     == TheFile(Live)
    IN  /\ viewer' = [cmd |-> cmd, pc |-> "follow", todo |-> {},
                      file |-> IF there THEN i ELSE None, offset |-> IF there THEN Size(i) ELSE 0]
        /\ base' = IF there THEN ToSet(files[i].lines) ELSE {}
        /\ printed' = IF there THEN printed \o SubSeq(files[i].lines, offset + 1, Size(i))
                      ELSE printed
        /\ UNCHANGED <<now, accepted, files, daemonVars, outgrown, lost, misplaced>>

AtEnd == IF NamedAs(Live) = {} THEN 0 ELSE Size(TheFile(Live))

\* runLogs(), when the history is printed.
HistoryEnds ==
    /\ viewer.pc = "read" /\ viewer.todo = {}
    /\ listed' = {}
    /\ IF viewer.cmd = "follow"
       THEN Follows("follow", AtEnd)
       ELSE /\ viewer' = [viewer EXCEPT !.pc = "done"]
            /\ UNCHANGED <<now, accepted, files, daemonVars, printed, base, outgrown, lost, misplaced>>

\* pid tail: a live file that is there is followed from its end, a later one from its start.
Monitor ==
    /\ viewer.pc = "idle" /\ "tail" \in Commands
    /\ UNCHANGED listed
    /\ IF NamedAs(Live) # {}
       THEN Follows("tail", AtEnd)
       ELSE /\ viewer' = [viewer EXCEPT !.cmd = "tail", !.pc = "rescan"]
            /\ UNCHANGED <<now, accepted, files, daemonVars, printed, base, outgrown, lost, misplaced>>

Rescan ==
    /\ viewer.pc = "rescan" /\ NamedAs(Live) # {}
    /\ Follows("tail", 0) /\ UNCHANGED listed

\* Mutant: the offset is kept when the file is smaller.
PollKeepsOffset ==
    LET i == TheFile(Live)
    IN  /\ viewer.pc = "follow" /\ NamedAs(Live) # {}
        /\ Size(i) # viewer.offset \/ i # viewer.file
        /\ printed' = printed \o SubSeq(files[i].lines, viewer.offset + 1, Size(i))
        /\ viewer' = [viewer EXCEPT !.file = i, !.offset = IF @ > Size(i) THEN @ ELSE Size(i)]
        /\ outgrown' = (outgrown \/ (i # viewer.file /\ Size(i) >= viewer.offset /\ viewer.offset > 0))
        /\ UNCHANGED <<now, accepted, files, daemonVars, base, lost, misplaced, listed>>

\* poll(): a file smaller than the offset is a new one.
Poll ==
    LET i    == TheFile(Live)
        from == IF Size(i) < viewer.offset THEN 0 ELSE viewer.offset
    IN  /\ viewer.pc = "follow" /\ NamedAs(Live) # {}
        /\ Size(i) # viewer.offset \/ i # viewer.file
        /\ printed' = printed \o SubSeq(files[i].lines, from + 1, Size(i))
        /\ viewer' = [viewer EXCEPT !.file = i, !.offset = Size(i)]
        /\ outgrown' = (outgrown \/ (i # viewer.file /\ from > 0))
        /\ UNCHANGED <<now, accepted, files, daemonVars, base, lost, misplaced, listed>>

-----------------------------------------------------------------------------
Init ==
    /\ now = [day |-> 1, time |-> 1]
    /\ accepted = <<>> /\ files = <<>> /\ printed = <<>>
    /\ writer = None /\ runs = 0 /\ ended = {} /\ pruning = {}
    /\ viewer = [cmd |-> None, pc |-> "idle", todo |-> {}, file |-> None, offset |-> 0]
    /\ lost = {} /\ misplaced = {} /\ listed = {} /\ base = {} /\ outgrown = FALSE

Daemon == Open \/ Write \/ Roll \/ End \/ Flush \/ FlushEnded \/ Prune \/ Crash

Command ==
    \/ (\E cmd \in Commands : Logs(cmd)) \/ ReadSegment \/ HistoryEnds
    \/ Monitor \/ Rescan \/ Poll

Next == Daemon \/ Command \/ Tick

\* watchFile() polls for as long as the command runs, and its reads end.
Fairness == WF_vars(Poll)

Spec == Init /\ [][Next]_vars /\ Fairness

-----------------------------------------------------------------------------
(* Safety. *)

\* Where a line is: in the buffer of a stream, in a file that has a name.
Places(line) ==
    {<<"file", i>> : i \in {i \in DOMAIN files :
                               files[i].name # Gone /\ line \in ToSet(files[i].lines)}}
    \cup {<<"ended", e>> : e \in {e \in ended : line \in ToSet(e.buffer)}}
    \cup {<<"writer", w>> : w \in {w \in {writer} : w # None /\ line \in ToSet(w.buffer)}}

\* Every line given to write() is in exactly one place until it is older than the retention
\* window, through rolls, several rolls in a second, restarts of the service and prunes (writer.ts);
\* only the lines in the daemon's memory die with it.
NothingLost ==
    \A line \in DOMAIN accepted \ lost :
        accepted[line] >= now.day - Retention => Cardinality(Places(line)) = 1

HomeOf(line) == CHOOSE i \in DOMAIN files : line \in ToSet(files[i].lines)

\* Lines whose order on disk is not the order of write(): those of two runs in one file, the
\* first of which was not flushed when the second began, and those of a file that is listed before
\* some that were archived earlier (SegmentsAreChronological).
Unordered(k, l) ==
    HomeOf(k) = HomeOf(l) \/ HomeOf(k) \in misplaced

InOrder ==
    \A i, j \in DOMAIN printed :
        i < j => printed[i] < printed[j] \/ (printed[i] # printed[j] /\ Unordered(printed[i], printed[j]))

Whole == viewer.pc = "read" /\ viewer.todo = {} => listed \subseteq ToSet(printed)

\* `pid logs` prints the history in the order in which it was written and no line twice, and
\* `-f` goes on where it ends, whatever the daemon does meanwhile; of the lines that were on disk
\* when it began it prints all, or fails, but for a file that is archived before it is opened.
PrintsTheHistory == InOrder /\ Whole

\* reader.ts:10: the archives are listed in chronological order.
SegmentsAreChronological ==
    \A i, j \in Archives :
        Before(files[i].name, files[j].name) =>
            \A k \in ToSet(files[i].lines), l \in ToSet(files[j].lines) : k < l

-----------------------------------------------------------------------------
(* Liveness. *)

\* Lines of the live file that a tailer has still to print.
Owed ==
    IF viewer.pc # "follow" \/ NamedAs(Live) = {} THEN {}
    ELSE ToSet(files[TheFile(Live)].lines) \ (base \cup ToSet(printed))

\* Whatever reaches the live file while a tailer runs it prints in the end, unless a roll takes
\* the line away before (tail.ts:12), across rolls and restarts of the service; unless a new live
\* file is as large as the one it replaced when it is first polled, which the tailer cannot tell
\* from it.
TailCatchesUp == []<>(Owed = {} \/ outgrown)
================================================================================
