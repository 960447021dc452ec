---------------------------- MODULE ChronicleProofs ----------------------------
(***************************************************************************)
(* Proofs about Chronicle: its types, that no line is lost, the order of   *)
(* the files, and that a command prints the history in that order.         *)
(***************************************************************************)
EXTENDS Chronicle, FiniteSetTheorems, SequenceTheorems, WellFoundedInduction, TLAPS

(***************************************************************************)
(* Where lines are, for any directory, streams and writer.                 *)
(***************************************************************************)
InFile(fs, line, i) == i \in DOMAIN fs /\ line \in ToSet(fs[i].lines)
InEnded(es, line, e) == e \in es /\ line \in ToSet(e.buffer)
InWriter(w, line) == w # None /\ line \in ToSet(w.buffer)

\* A line that is in file i, or will be when the stream that has it is flushed.
On(fs, es, w, line, i) ==
    \/ InFile(fs, line, i)
    \/ \E e \in es : e.file = i /\ InEnded(es, line, e)
    \/ InWriter(w, line) /\ w.file = i

(***************************************************************************)
(* The inductive invariant.                                                *)
(***************************************************************************)
Writers == [file : Nat, day : Day, bytes : Nat, buffer : Seq(Line)]

\* The types of what the daemon has, without the bounds of sizes.
DaemonTypes ==
    /\ now \in Clock
    /\ accepted \in Seq(Day) /\ Len(accepted) <= MaxLines
    /\ files \in Seq(File)
    /\ writer \in Writers \cup {None}
    /\ writer # None => writer.file \in DOMAIN files
    /\ ended \subseteq [file : DOMAIN files, buffer : Seq(Line)]

\* One file is live at most, and a writer has it; archives that share a day and a time have
\* suffixes, fewer than there were rolls.
Names(fs, w, n) ==
    /\ \A i, j \in DOMAIN fs : fs[i].name = Live /\ fs[j].name = Live => i = j
    /\ w # None => fs[w.file].name = Live
    /\ \A i \in DOMAIN fs : fs[i].name \in Archive => fs[i].name.n < n

NamesInv == Names(files, writer, Len(accepted))

\* A line is in one place at most, and there once.
Once(fs, es, w) ==
    /\ \A line, i, j : InFile(fs, line, i) /\ InFile(fs, line, j) => i = j
    /\ \A line, e, g : InEnded(es, line, e) /\ InEnded(es, line, g) => e = g
    /\ \A line, i, e : ~(InFile(fs, line, i) /\ InEnded(es, line, e))
    /\ \A line, i : ~(InFile(fs, line, i) /\ InWriter(w, line))
    /\ \A line, e : ~(InEnded(es, line, e) /\ InWriter(w, line))

Distinct(fs, es, w) ==
    /\ \A i \in DOMAIN fs : IsInjective(fs[i].lines)
    /\ \A e \in es : IsInjective(e.buffer) /\ e.buffer # <<>>
    /\ w # None => IsInjective(w.buffer)

\* Only lines that were accepted are anywhere, and one that was not lost is somewhere.
Somewhere(fs, es, w, n, gone) ==
    /\ \A line, i : InFile(fs, line, i) => line \in 1..n
    /\ \A line, e : InEnded(es, line, e) => line \in 1..n
    /\ \A line : InWriter(w, line) => line \in 1..n
    /\ \A line \in 1..n \ gone :
          \/ \E i : InFile(fs, line, i)
          \/ \E e : InEnded(es, line, e)
          \/ InWriter(w, line)

LinesInv ==
    /\ Once(files, ended, writer)
    /\ Distinct(files, ended, writer)
    /\ Somewhere(files, ended, writer, Len(accepted), lost)

\* No line is of a later day than the file it is in, or will be in, counts as.
InTime(acc, day, fs, es, w) ==
    \A line \in DOMAIN acc : \A i \in DOMAIN fs :
       On(fs, es, w, line, i) =>
          /\ fs[i].name \in Archive => acc[line] <= fs[i].name.day
          /\ fs[i].name = Gone => acc[line] < day - Retention
          /\ fs[i].name = Live /\ fs[i].lines # <<>> => acc[line] <= fs[i].at
          /\ w # None /\ w.file = i => acc[line] <= w.day

Ages(acc, day, fs, es, w, cutoffs) ==
    /\ \A line \in DOMAIN acc : acc[line] <= day
    /\ \A i \in DOMAIN fs : fs[i].at <= day
    /\ \A cutoff \in cutoffs : cutoff \in Int /\ cutoff <= day - Retention
    /\ w # None =>
          /\ w.day <= day
          /\ fs[w.file].lines # <<>> => w.day <= fs[w.file].at
    /\ InTime(acc, day, fs, es, w)

AgesInv == Ages(accepted, now.day, files, ended, writer, pruning)

KeptInv == DaemonTypes /\ NamesInv /\ LinesInv /\ AgesInv

-----------------------------------------------------------------------------
(* Sequences and numbers. *)

LEMMA EmptyHasNothing == ToSet(<<>>) = {} /\ IsInjective(<<>>)
  BY DEF ToSet, IsInjective

LEMMA OneHasOne ==
    ASSUME NEW x
    PROVE  ToSet(<<x>>) = {x} /\ IsInjective(<<x>>) /\ <<x>> # <<>>
  BY DEF ToSet, IsInjective

\* What Append adds.
LEMMA AppendAdds ==
    ASSUME NEW S, NEW s \in Seq(S), NEW x \in S
    PROVE  /\ Append(s, x) \in Seq(S) /\ Append(s, x) # <<>>
           /\ ToSet(Append(s, x)) = ToSet(s) \cup {x}
           /\ IsInjective(s) /\ x \notin ToSet(s) => IsInjective(Append(s, x))
<1>1. Append(s, x) \in Seq(S) /\ Len(Append(s, x)) = Len(s) + 1
  OBVIOUS
<1>2. \A i \in 1..Len(s) : Append(s, x)[i] = s[i]
  OBVIOUS
<1>3. Append(s, x)[Len(s) + 1] = x
  OBVIOUS
<1>4. DOMAIN Append(s, x) = 1..Len(s) + 1 /\ DOMAIN s = 1..Len(s) /\ Len(s) \in Nat
  BY <1>1
<1>5. ToSet(Append(s, x)) = ToSet(s) \cup {x}
  <2>1. ASSUME NEW y \in ToSet(Append(s, x))  PROVE y \in ToSet(s) \cup {x}
    <3>1. PICK i \in 1..Len(s) + 1 : y = Append(s, x)[i]
      BY <1>4 DEF ToSet
    <3>2. i \in 1..Len(s) \/ i = Len(s) + 1
      BY <1>4
    <3>3. QED
      BY <1>2, <1>3, <1>4, <3>1, <3>2 DEF ToSet
  <2>2. ASSUME NEW y \in ToSet(s) \cup {x}  PROVE y \in ToSet(Append(s, x))
    <3>1. CASE y = x
      <4>1. Len(s) + 1 \in DOMAIN Append(s, x)
        BY <1>4
      <4>2. QED
        BY <1>3, <3>1, <4>1 DEF ToSet
    <3>2. CASE y \in ToSet(s)
      <4>1. PICK i \in 1..Len(s) : y = s[i]
        BY <1>4, <3>2 DEF ToSet
      <4>2. i \in DOMAIN Append(s, x) /\ y = Append(s, x)[i]
        BY <1>2, <1>4, <4>1
      <4>3. QED
        BY <4>2 DEF ToSet
    <3>3. QED
      BY <2>2, <3>1, <3>2
  <2>3. QED
    BY <2>1, <2>2
<1>6. ASSUME IsInjective(s), x \notin ToSet(s)  PROVE IsInjective(Append(s, x))
  <2>1. \A i \in 1..Len(s) : s[i] # x
    BY <1>4, <1>6 DEF ToSet
  <2>2. \A i, j \in 1..Len(s) : s[i] = s[j] => i = j
    BY <1>4, <1>6 DEF IsInjective
  <2>3. \A i, j \in 1..Len(s) + 1 : Append(s, x)[i] = Append(s, x)[j] => i = j
    <3>1. \A i \in 1..Len(s) + 1 : i \in 1..Len(s) \/ i = Len(s) + 1
      BY <1>4
    <3>2. QED
      BY <1>2, <1>3, <2>1, <2>2, <3>1
  <2>4. QED
    BY <1>4, <2>3 DEF IsInjective
<1>7. Append(s, x) # <<>>
  BY <1>1, <1>4
<1>8. QED
  BY <1>1, <1>5, <1>6, <1>7

\* Append adds at the end.
LEMMA AppendEnds ==
    ASSUME NEW S, NEW s \in Seq(S), NEW x \in S
    PROVE  /\ Append(s, x) \in Seq(S) /\ Len(Append(s, x)) = Len(s) + 1 /\ Len(s) \in Nat
           /\ DOMAIN Append(s, x) = 1..Len(s) + 1 /\ Append(s, x)[Len(s) + 1] = x
           /\ \A i \in 1..Len(s) : Append(s, x)[i] = s[i]
<1>1. Append(s, x) \in Seq(S) /\ Len(Append(s, x)) = Len(s) + 1 /\ Len(s) \in Nat
  OBVIOUS
<1>2. \A i \in 1..Len(s) : Append(s, x)[i] = s[i]
  OBVIOUS
<1>3. Append(s, x)[Len(s) + 1] = x
  OBVIOUS
<1>4. DOMAIN Append(s, x) = 1..Len(s) + 1
  BY <1>1
<1>5. QED
  BY <1>1, <1>2, <1>3, <1>4

\* What Head and Tail take, from a sequence that has nothing twice.
LEMMA TailTakes ==
    ASSUME NEW S, NEW s \in Seq(S), s # <<>>, IsInjective(s)
    PROVE  /\ Tail(s) \in Seq(S) /\ Head(s) \in S
           /\ Head(s) \in ToSet(s) /\ ToSet(Tail(s)) = ToSet(s) \ {Head(s)}
           /\ IsInjective(Tail(s))
           /\ Len(s) # 1 => Tail(s) # <<>>
           /\ Len(s) = 1 => Tail(s) = <<>>
<1>1. Len(s) \in Nat \ {0} /\ DOMAIN s = 1..Len(s)
  OBVIOUS
<1>2. Tail(s) \in Seq(S) /\ Len(Tail(s)) = Len(s) - 1 /\ Head(s) = s[1]
  OBVIOUS
<1>3. \A i \in 1..Len(s) - 1 : Tail(s)[i] = s[i + 1]
  BY <1>1
<1>4. DOMAIN Tail(s) = 1..Len(s) - 1
  BY <1>2
<1>5. \A i, j \in 1..Len(s) : s[i] = s[j] => i = j
  BY <1>1 DEF IsInjective
<1>6. Head(s) \in ToSet(s) /\ Head(s) \in S
  BY <1>1, <1>2 DEF ToSet
<1>7. ASSUME NEW y \in ToSet(Tail(s))  PROVE y \in ToSet(s) \ {Head(s)}
  <2>1. PICK i \in 1..Len(s) - 1 : y = s[i + 1]
    BY <1>3, <1>4 DEF ToSet
  <2>2. i + 1 \in 1..Len(s) /\ i + 1 # 1 /\ 1 \in 1..Len(s)
    BY <1>1
  <2>3. y # s[1]
    BY <1>5, <2>1, <2>2
  <2>4. QED
    BY <1>1, <1>2, <2>1, <2>2, <2>3 DEF ToSet
<1>8. ASSUME NEW y \in ToSet(s) \ {Head(s)}  PROVE y \in ToSet(Tail(s))
  <2>1. PICK i \in 1..Len(s) : y = s[i]
    BY <1>1 DEF ToSet
  <2>2. i # 1
    BY <1>2, <1>8, <2>1
  <2>3. i - 1 \in 1..Len(s) - 1 /\ (i - 1) + 1 = i
    BY <1>1, <2>2
  <2>4. y = Tail(s)[i - 1]
    BY <1>3, <2>1, <2>3
  <2>5. QED
    BY <1>4, <2>3, <2>4 DEF ToSet
<1>9. IsInjective(Tail(s))
  <2>1. \A i, j \in 1..Len(s) - 1 : Tail(s)[i] = Tail(s)[j] => i = j
    <3>1. \A i \in 1..Len(s) - 1 : i + 1 \in 1..Len(s)
      BY <1>1
    <3>2. QED
      BY <1>3, <1>5, <3>1
  <2>2. QED
    BY <1>4, <2>1 DEF IsInjective
<1>10. Tail(s) = <<>> <=> Len(Tail(s)) = 0
  BY <1>2
<1>11. Len(Tail(s)) = 0 <=> Len(s) = 1
  BY <1>1, <1>2
<1>12. QED
  BY <1>2, <1>6, <1>7, <1>8, <1>9, <1>10, <1>11

\* A sequence without repetitions is no longer than the numbers it is made of are many.
LEMMA NoLongerThanItsNumbers ==
    ASSUME NEW n \in Nat, NEW S, NEW s \in Seq(S), IsInjective(s), ToSet(s) \subseteq 1..n
    PROVE  Len(s) <= n
<1>1. s \in [1..Len(s) -> 1..n] /\ Len(s) \in Nat /\ DOMAIN s = 1..Len(s)
  BY DEF ToSet
<1>2. s \in Injection(1..Len(s), 1..n)
  BY <1>1 DEF Injection, IsInjective
<1>3. IsFiniteSet(1..n) /\ Cardinality(1..n) = n
  BY FS_Interval
<1>4. IsFiniteSet(1..Len(s)) /\ Cardinality(1..Len(s)) = Len(s)
  <2> DEFINE m == Len(s)
  <2>1. m \in Nat
    BY <1>1
  <2> HIDE DEF m
  <2>2. IsFiniteSet(1..m) /\ Cardinality(1..m) = m
    BY <2>1, FS_Interval
  <2>3. QED
    BY <2>2 DEF m
<1>5. QED
  BY <1>2, <1>3, <1>4, FS_Injection

\* A set of numbers that has a member has a least one.
LEMMA LeastNumber ==
    ASSUME NEW T \in SUBSET Nat, T # {}
    PROVE  \E x \in T : \A y \in T : x <= y
<1>1. IsWellFoundedOn(OpToRel(<, Nat), Nat)
  BY NatLessThanWellFounded
<1>2. PICK x \in T : \A y \in T : ~(<<y, x>> \in OpToRel(<, Nat))
  BY <1>1, WFMin
<1>3. \A y \in T : y < x => <<y, x>> \in OpToRel(<, Nat)
  BY DEF OpToRel
<1>4. \A y \in T : ~(y < x)
  BY <1>2, <1>3
<1>5. QED
  <2>1. \A y \in T : x \in Nat /\ y \in Nat
    OBVIOUS
  <2>2. \A y \in T : x <= y
    BY <1>4, <2>1
  <2>3. QED
    BY <2>2

-----------------------------------------------------------------------------
(* Lines that move from one place to another. *)

\* File f gets line h; the files have the lines they had.
FileGets(fs, gs, f, h) ==
    \A line, i : InFile(gs, line, i) <=> InFile(fs, line, i) \/ (i = f /\ line = h)
SameLines(fs, gs) == \A line, i : InFile(gs, line, i) <=> InFile(fs, line, i)

\* The writer gives line h away, gets line h, has what it had, has nothing.
WriterGives(w, v, h) == \A line : InWriter(v, line) <=> InWriter(w, line) /\ line # h
WriterGets(w, v, h) == \A line : InWriter(v, line) <=> InWriter(w, line) \/ line = h
WriterSame(w, v) == \A line : InWriter(v, line) <=> InWriter(w, line)
WriterEmpty(v) == \A line : ~InWriter(v, line)

\* Stream e gives line h away, and is then x; the writer's stream ends, as x.
StreamGives(es, ds, e, x, h) ==
    \A line, g : InEnded(ds, line, g) <=>
                    \/ InEnded(es, line, g) /\ g # e
                    \/ InEnded(es, line, e) /\ line # h /\ g = x
StreamEnds(es, ds, x, w) ==
    \A line, g : InEnded(ds, line, g) <=> InEnded(es, line, g) \/ (g = x /\ InWriter(w, line))

\* A line of the writer's buffer reaches a file.
LEMMA WriterToFile ==
    ASSUME NEW fs, NEW es, NEW w, NEW n, NEW gone, NEW gs, NEW v, NEW f, NEW h,
           Once(fs, es, w), Somewhere(fs, es, w, n, gone), InWriter(w, h),
           FileGets(fs, gs, f, h),
           WriterGives(w, v, h)
    PROVE  Once(gs, es, v) /\ Somewhere(gs, es, v, n, gone)
<1> USE DEF FileGets, WriterGives
<1>1. Once(gs, es, v)
  BY DEF Once
<1>2. Somewhere(gs, es, v, n, gone)
  BY DEF Somewhere
<1>3. QED
  BY <1>1, <1>2

\* A line of a stream that ended reaches a file; the stream is gone, or is now x.
LEMMA EndedToFile ==
    ASSUME NEW fs, NEW es, NEW w, NEW n, NEW gone, NEW gs, NEW ds, NEW f, NEW e, NEW x,
           NEW h,
           Once(fs, es, w), Somewhere(fs, es, w, n, gone), InEnded(es, h, e),
           FileGets(fs, gs, f, h),
           StreamGives(es, ds, e, x, h)
    PROVE  Once(gs, ds, w) /\ Somewhere(gs, ds, w, n, gone)
<1> USE DEF FileGets, StreamGives
<1>1. Once(gs, ds, w)
  BY DEF Once
<1>2. \A line : (\E g : InEnded(es, line, g)) => line = h \/ \E g : InEnded(ds, line, g)
  <2>1. ASSUME NEW line, NEW g, InEnded(es, line, g), line # h
        PROVE  \E d : InEnded(ds, line, d)
    <3>1. CASE g = e
      BY <2>1, <3>1
    <3>2. CASE g # e
      BY <2>1, <3>2
    <3>3. QED
      BY <3>1, <3>2
  <2>2. QED
    BY <2>1
<1>3. Somewhere(gs, ds, w, n, gone)
  <2>1. \A line \in 1..n \ gone : \/ \E i : InFile(gs, line, i)
                                  \/ \E g : InEnded(ds, line, g)
                                  \/ InWriter(w, line)
    BY <1>2 DEF Somewhere
  <2>2. \A line, i : InFile(gs, line, i) => line \in 1..n
    BY DEF Somewhere
  <2>3. \A line, g : InEnded(ds, line, g) => line \in 1..n
    BY DEF Somewhere
  <2>4. QED
    BY <2>1, <2>2, <2>3 DEF Somewhere
<1>4. QED
  BY <1>1, <1>3

\* The writer's stream ends as x, with all it has.
LEMMA WriterToEnded ==
    ASSUME NEW fs, NEW es, NEW w, NEW n, NEW gone, NEW gs, NEW ds, NEW v, NEW x,
           Once(fs, es, w), Somewhere(fs, es, w, n, gone),
           SameLines(fs, gs),
           StreamEnds(es, ds, x, w),
           WriterEmpty(v)
    PROVE  Once(gs, ds, v) /\ Somewhere(gs, ds, v, n, gone)
<1> USE DEF SameLines, WriterEmpty, StreamEnds
<1>1. Once(gs, ds, v)
  BY DEF Once
<1>2. Somewhere(gs, ds, v, n, gone)
  BY DEF Somewhere
<1>3. QED
  BY <1>1, <1>2

\* A new line is written.
LEMMA LineToWriter ==
    ASSUME NEW fs, NEW es, NEW w, NEW n \in Nat, NEW gone, NEW v,
           Once(fs, es, w), Somewhere(fs, es, w, n, gone),
           WriterGets(w, v, n + 1)
    PROVE  Once(fs, es, v) /\ Somewhere(fs, es, v, n + 1, gone)
<1> USE DEF WriterGets
<1>1. n + 1 \notin 1..n /\ 1..n + 1 = 1..n \cup {n + 1}
  OBVIOUS
<1>2. /\ \A i : ~InFile(fs, n + 1, i)
      /\ \A e : ~InEnded(es, n + 1, e)
      /\ ~InWriter(w, n + 1)
  BY <1>1 DEF Somewhere
<1>3. Once(fs, es, v)
  BY <1>2 DEF Once
<1>4. Somewhere(fs, es, v, n + 1, gone)
  <2>1. \A line \in 1..n + 1 \ gone : line \in 1..n \ gone \/ line = n + 1
    BY <1>1
  <2>2. \A line \in 1..n + 1 \ gone : \/ \E i : InFile(fs, line, i)
                                      \/ \E e : InEnded(es, line, e)
                                      \/ InWriter(v, line)
    BY <2>1 DEF Somewhere
  <2>3. \A line : line \in 1..n \/ line = n + 1 => line \in 1..n + 1
    BY <1>1
  <2>4. \A line, i : InFile(fs, line, i) => line \in 1..n + 1
    BY <2>3 DEF Somewhere
  <2>5. \A line, e : InEnded(es, line, e) => line \in 1..n + 1
    BY <2>3 DEF Somewhere
  <2>6. \A line : InWriter(v, line) => line \in 1..n + 1
    BY <2>3 DEF Somewhere
  <2>7. QED
    BY <2>2, <2>4, <2>5, <2>6 DEF Somewhere
<1>5. QED
  BY <1>3, <1>4

\* What is in memory is lost.
LEMMA MemoryIsLost ==
    ASSUME NEW fs, NEW es, NEW w, NEW n, NEW gone, NEW more, NEW v,
           Once(fs, es, w), Somewhere(fs, es, w, n, gone),
           \A line, e : InEnded(es, line, e) => line \in more,
           \A line : InWriter(w, line) => line \in more,
           WriterEmpty(v)
    PROVE  Once(fs, {}, v) /\ Somewhere(fs, {}, v, n, gone \cup more)
<1> USE DEF WriterEmpty
<1>1. \A line, e : ~InEnded({}, line, e)
  BY DEF InEnded
<1>2. Once(fs, {}, v)
  BY <1>1 DEF Once
<1>3. Somewhere(fs, {}, v, n, gone \cup more)
  BY <1>1 DEF Somewhere
<1>4. QED
  BY <1>2, <1>3

\* Names and times change, or an empty file is new.
LEMMA NothingMoves ==
    ASSUME NEW fs, NEW es, NEW w, NEW n, NEW gone, NEW gs, NEW v,
           Once(fs, es, w), Somewhere(fs, es, w, n, gone),
           SameLines(fs, gs),
           WriterSame(w, v)
    PROVE  Once(gs, es, v) /\ Somewhere(gs, es, v, n, gone)
<1> USE DEF SameLines, WriterSame
<1>1. Once(gs, es, v)
  BY DEF Once
<1>2. Somewhere(gs, es, v, n, gone)
  BY DEF Somewhere
<1>3. QED
  BY <1>1, <1>2

-----------------------------------------------------------------------------
(* What steps do to the directory and to the streams. *)

LEMMA Numbers ==
    /\ LastDay \in Nat \ {0} /\ LastTime \in Nat \ {0} /\ MaxLines \in Nat /\ MaxRuns \in Nat
    /\ Retention \in Nat /\ Cap \in Nat \ {0}
    /\ Live # Gone /\ Live \notin Archive /\ Gone \notin Archive
  BY ChronicleAssumption, NameAssumption

LEMMA FileFields ==
    ASSUME NEW fs \in Seq(File), NEW i \in DOMAIN fs
    PROVE  /\ i \in 1..Len(fs) /\ i \in Nat /\ fs[i] \in File
           /\ fs[i].name \in Archive \cup {Live, Gone}
           /\ fs[i].lines \in Seq(Line) /\ fs[i].at \in Day
<1>1. i \in 1..Len(fs) /\ i \in Nat /\ fs[i] \in File
  OBVIOUS
<1>2. fs[i] \in [name : Archive \cup {Live, Gone}, lines : Seq(Line), at : Day]
  BY <1>1 DEF File
<1>3. QED
  BY <1>1, <1>2

LEMMA SameLength ==
    ASSUME NEW S, NEW fs \in Seq(S), NEW gs, DOMAIN gs = DOMAIN fs,
           gs = [j \in DOMAIN gs |-> gs[j]], \A j \in DOMAIN gs : gs[j] \in S
    PROVE  gs \in Seq(S)
<1>1. DOMAIN fs = 1..Len(fs) /\ Len(fs) \in Nat
  OBVIOUS
<1>2. gs \in [1..Len(fs) -> S]
  BY <1>1
<1>3. QED
  BY <1>1, <1>2

\* A stream writes one line.
Wrote(fs, i, line, day) == [fs EXCEPT ![i].lines = Append(@, line), ![i].at = day]

LEMMA FlushedFiles ==
    ASSUME NEW fs \in Seq(File), NEW i \in DOMAIN fs, NEW line \in Line, NEW day \in Day, NEW gs,
           gs = Wrote(fs, i, line, day)
    PROVE  /\ gs \in Seq(File) /\ DOMAIN gs = DOMAIN fs
           /\ \A j \in DOMAIN fs : gs[j].name = fs[j].name
           /\ gs[i].lines = Append(fs[i].lines, line) /\ gs[i].at = day
           /\ \A j \in DOMAIN fs \ {i} : gs[j] = fs[j]
           /\ FileGets(fs, gs, i, line)
<1> USE DEF Wrote
<1>1. /\ fs[i].lines \in Seq(Line) /\ Append(fs[i].lines, line) \in Seq(Line)
      /\ ToSet(Append(fs[i].lines, line)) = ToSet(fs[i].lines) \cup {line}
  BY FileFields, AppendAdds
<1>2. DOMAIN gs = DOMAIN fs
  OBVIOUS
<1>3. \A j \in DOMAIN fs \ {i} : gs[j] = fs[j]
  OBVIOUS
<1>4. gs[i] = [fs[i] EXCEPT !.lines = Append(@, line), !.at = day]
  OBVIOUS
<1>5. fs[i] \in [name : Archive \cup {Live, Gone}, lines : Seq(Line), at : Day]
  BY FileFields DEF File
<1>6. gs[i].lines = Append(fs[i].lines, line) /\ gs[i].at = day /\ gs[i].name = fs[i].name
  BY <1>4, <1>5
<1>7. gs[i] \in File
  BY <1>1, <1>4, <1>5 DEF File
<1>8. \A j \in DOMAIN fs : gs[j] \in File
  BY <1>3, <1>7, FileFields
<1>9. gs \in Seq(File)
  <2>1. gs = [j \in DOMAIN gs |-> gs[j]]
    BY <1>2
  <2>2. QED
    BY <1>2, <1>8, <2>1, SameLength
<1>10. FileGets(fs, gs, i, line)
  BY <1>1, <1>2, <1>3, <1>6 DEF InFile, FileGets
<1>11. \A j \in DOMAIN fs : gs[j].name = fs[j].name
  BY <1>3, <1>6
<1>12. QED
  BY <1>2, <1>3, <1>6, <1>9, <1>10, <1>11

\* Files get other names, and there may be a new live file beside them.
Named(fs, name) == [i \in DOMAIN fs |-> [fs[i] EXCEPT !.name = name[i]]]
WithNew(fs, day) == Append(fs, [name |-> Live, lines |-> <<>>, at |-> day])

RenamedAndNew(fs, gs, name, new, day) ==
    /\ new \notin DOMAIN fs /\ DOMAIN gs = DOMAIN fs \cup {new}
    /\ gs[new] = [name |-> Live, lines |-> <<>>, at |-> day]
    /\ \A j \in DOMAIN fs : /\ gs[j].name = name[j]
                            /\ gs[j].lines = fs[j].lines /\ gs[j].at = fs[j].at

LEMMA FilesWithAnother ==
    ASSUME NEW fs \in Seq(File), NEW name, NEW day \in Day, NEW gs,
           \A i \in DOMAIN fs : name[i] \in Archive \cup {Live, Gone},
           gs = WithNew(Named(fs, name), day)
    PROVE  /\ gs \in Seq(File) /\ SameLines(fs, gs)
           /\ RenamedAndNew(fs, gs, name, Len(fs) + 1, day)
<1> USE DEF WithNew, Named
<1> DEFINE hs == [i \in DOMAIN fs |-> [fs[i] EXCEPT !.name = name[i]]]
           new == [name |-> Live, lines |-> <<>>, at |-> day]
<1>1. \A i \in DOMAIN fs : /\ [fs[i] EXCEPT !.name = name[i]].name = name[i]
                           /\ [fs[i] EXCEPT !.name = name[i]].lines = fs[i].lines
                           /\ [fs[i] EXCEPT !.name = name[i]].at = fs[i].at
                           /\ [fs[i] EXCEPT !.name = name[i]] \in File
  BY FileFields DEF File
<1>2. hs \in Seq(File) /\ Len(hs) = Len(fs) /\ Len(fs) \in Nat /\ DOMAIN fs = 1..Len(fs)
  <2>1. DOMAIN fs = 1..Len(fs) /\ Len(fs) \in Nat
    OBVIOUS
  <2>2. hs \in [1..Len(fs) -> File]
    BY <1>1, <2>1
  <2>3. QED
    BY <2>1, <2>2
<1>3. new \in File
  BY DEF File
<1>4. \A i \in DOMAIN fs : hs[i] = [fs[i] EXCEPT !.name = name[i]]
  OBVIOUS
<1> HIDE DEF hs, new
<1>5. gs = Append(hs, new)
  BY DEF hs, new
<1>6. hs \in Seq(File) /\ new \in File
  BY <1>2, <1>3
<1>7. /\ gs \in Seq(File) /\ DOMAIN gs = 1..Len(fs) + 1 /\ gs[Len(fs) + 1] = new
      /\ \A i \in 1..Len(fs) : gs[i] = hs[i]
  <2>1. /\ Append(hs, new) \in Seq(File) /\ DOMAIN Append(hs, new) = 1..Len(hs) + 1
        /\ Append(hs, new)[Len(hs) + 1] = new /\ \A i \in 1..Len(hs) : Append(hs, new)[i] = hs[i]
    BY <1>6, AppendEnds
  <2>2. Len(hs) = Len(fs)
    BY <1>2
  <2>3. QED
    BY <1>5, <2>1, <2>2
<1>8. DOMAIN gs = DOMAIN fs \cup {Len(fs) + 1} /\ Len(fs) + 1 \notin DOMAIN fs
  BY <1>2, <1>7
<1>9. \A j \in DOMAIN fs : gs[j] = hs[j]
  BY <1>2, <1>7
<1>10. \A j \in DOMAIN fs : /\ gs[j].name = name[j]
                            /\ gs[j].lines = fs[j].lines /\ gs[j].at = fs[j].at
  BY <1>1, <1>4, <1>9
<1>11. gs[Len(fs) + 1].lines = <<>>
  BY <1>7 DEF new
<1>12. SameLines(fs, gs)
  BY <1>8, <1>10, <1>11, EmptyHasNothing DEF InFile, SameLines
<1>13. QED
  BY <1>7, <1>8, <1>10, <1>12 DEF new, RenamedAndNew

\* Files get other names.
LEMMA FilesRenamed ==
    ASSUME NEW fs \in Seq(File), NEW gs, NEW name,
           \A i \in DOMAIN fs : name[i] \in Archive \cup {Live, Gone},
           gs = Named(fs, name)
    PROVE  /\ gs \in Seq(File) /\ DOMAIN gs = DOMAIN fs
           /\ \A j \in DOMAIN fs : /\ gs[j].name = name[j]
                                   /\ gs[j].lines = fs[j].lines /\ gs[j].at = fs[j].at
           /\ SameLines(fs, gs)
<1> USE DEF Named
<1>1. \A i \in DOMAIN fs : /\ [fs[i] EXCEPT !.name = name[i]].name = name[i]
                           /\ [fs[i] EXCEPT !.name = name[i]].lines = fs[i].lines
                           /\ [fs[i] EXCEPT !.name = name[i]].at = fs[i].at
                           /\ [fs[i] EXCEPT !.name = name[i]] \in File
  BY FileFields DEF File
<1>2. gs \in Seq(File)
  <2>1. DOMAIN fs = 1..Len(fs) /\ Len(fs) \in Nat
    OBVIOUS
  <2>2. gs \in [1..Len(fs) -> File]
    BY <1>1, <2>1
  <2>3. QED
    BY <2>1, <2>2
<1>3. \A j \in DOMAIN fs : /\ gs[j].name = name[j]
                           /\ gs[j].lines = fs[j].lines /\ gs[j].at = fs[j].at
  BY <1>1
<1>4. SameLines(fs, gs)
  BY <1>3 DEF InFile, SameLines
<1>5. QED
  BY <1>2, <1>3, <1>4

LEMMA WriterFields ==
    ASSUME NEW w \in Writers
    PROVE  /\ w # None /\ w.file \in Nat /\ w.day \in Day /\ w.bytes \in Nat
           /\ w.buffer \in Seq(Line)
  BY NameAssumption DEF Writers

\* A writer whose buffer, or count of bytes too, is another.
WithBuffer(w, b) == [w EXCEPT !.buffer = b]
WithBytes(w, b, k) == [w EXCEPT !.buffer = b, !.bytes = k]

LEMMA WriterWith ==
    ASSUME NEW w \in Writers, NEW b \in Seq(Line), NEW v, v = WithBuffer(w, b)
    PROVE  /\ v \in Writers /\ v # None /\ v.file = w.file /\ v.day = w.day
           /\ v.buffer = b /\ v.bytes = w.bytes
<1>1. v \in Writers
  BY DEF Writers, WithBuffer
<1>2. v.file = w.file /\ v.day = w.day /\ v.buffer = b /\ v.bytes = w.bytes
  BY DEF Writers, WithBuffer
<1>3. QED
  BY <1>1, <1>2, WriterFields

LEMMA WriterWithBytes ==
    ASSUME NEW w \in Writers, NEW b \in Seq(Line), NEW k \in Nat, NEW v, v = WithBytes(w, b, k)
    PROVE  /\ v \in Writers /\ v # None /\ v.file = w.file /\ v.day = w.day
           /\ v.buffer = b /\ v.bytes = k
<1>1. v \in Writers
  BY DEF Writers, WithBytes
<1>2. v.file = w.file /\ v.day = w.day /\ v.buffer = b /\ v.bytes = k
  BY DEF Writers, WithBytes
<1>3. QED
  BY <1>1, <1>2, WriterFields

\* The stream of the writer is among those that ended, if it has anything.
LEMMA EndedStreams ==
    ASSUME NEW es, NEW ds, NEW file, NEW w, w # None, w.file = file,
           ds = es \cup (IF w.buffer = <<>> THEN {} ELSE {[file |-> file, buffer |-> w.buffer]})
    PROVE  StreamEnds(es, ds, [file |-> file, buffer |-> w.buffer], w)
<1> USE DEF StreamEnds
<1>1. CASE w.buffer = <<>>
  <2>1. ds = es
    BY <1>1
  <2>2. \A line : ~InWriter(w, line)
    BY <1>1, EmptyHasNothing DEF InWriter
  <2>3. QED
    BY <2>1, <2>2
<1>2. CASE w.buffer # <<>>
  <2>1. ds = es \cup {[file |-> file, buffer |-> w.buffer]}
    BY <1>2
  <2>2. QED
    BY <2>1 DEF InEnded, InWriter
<1>3. QED
  BY <1>1, <1>2

\* The archive a roll makes has a name that no file has, of the writer's day.
LEMMA PathIsFree ==
    ASSUME DaemonTypes, NamesInv, NEW day \in Day, NEW time \in 0..LastTime
    PROVE  /\ UniquePath(day, time) \in Archive
           /\ UniquePath(day, time).day = day
           /\ UniquePath(day, time).time = time
           /\ UniquePath(day, time).n <= Len(accepted)
           /\ \A k \in 0..UniquePath(day, time).n - 1 :
                 NamedAs([UniquePath(day, time) EXCEPT !.n = k]) # {}
           /\ \A i \in DOMAIN files : files[i].name # UniquePath(day, time)
<1> DEFINE P(k) == [day |-> day, time |-> time, n |-> k]
           T == {k \in 0..MaxLines : \A i \in DOMAIN files : files[i].name # P(k)}
<1>1. Len(accepted) \in 0..MaxLines /\ MaxLines \in Nat
  BY Numbers DEF DaemonTypes
<1>2. \A k \in 0..MaxLines : /\ P(k) \in Archive /\ P(k).n = k /\ P(k).day = day
                          /\ P(k).time = time
                          /\ \A j \in 0..MaxLines : [P(k) EXCEPT !.n = j] = P(j)
  BY DEF Archive
<1>3. Len(accepted) \in T
  <2>1. ASSUME NEW i \in DOMAIN files, files[i].name = P(Len(accepted))  PROVE FALSE
    <3>1. files[i].name \in Archive /\ files[i].name.n = Len(accepted)
      BY <1>1, <1>2, <2>1
    <3>2. files[i].name.n < Len(accepted)
      BY <3>1 DEF NamesInv, Names
    <3>3. QED
      BY <1>1, <3>1, <3>2
  <2>2. QED
    BY <1>1, <2>1
<1>4. PICK x \in T : \A y \in T : x <= y
  <2>1. T \in SUBSET Nat /\ T # {}
    BY <1>3
  <2> HIDE DEF T
  <2>2. QED
    BY <2>1, LeastNumber
<1>5. \A k \in 0..MaxLines : NamedAs(P(k)) = {} <=> k \in T
  BY DEF NamedAs
<1> DEFINE Q(p) == NamedAs(p) = {} /\ \A k \in 0..p.n - 1 : NamedAs(P(k)) # {}
<1>6. Q(P(x)) /\ x \in 0..MaxLines
  <2>1. x \in 0..MaxLines /\ P(x).n = x
    BY <1>2
  <2>2. \A k \in 0..x - 1 : k \in 0..MaxLines /\ k \notin T
    <3>1. \A k \in 0..x - 1 : k \in 0..MaxLines /\ k < x
      BY <2>1, <1>1
    <3>2. \A y \in T : y \in Int /\ ~(y < x)
      BY <1>4, <2>1
    <3> HIDE DEF T
    <3>3. QED
      BY <3>1, <3>2
  <2> HIDE DEF T, P
  <2>3. \A k \in 0..x - 1 : NamedAs(P(k)) # {}
    BY <1>5, <2>2
  <2>4. NamedAs(P(x)) = {}
    BY <1>4, <1>5, <2>1
  <2>5. QED
    BY <2>1, <2>3, <2>4
<1>7. UniquePath(day, time) = CHOOSE p \in {P(k) : k \in 0..MaxLines} : Q(p)
  BY DEF UniquePath
<1>8. PICK p : p = UniquePath(day, time)
  OBVIOUS
<1> HIDE DEF P, Q
<1>9. p \in {P(k) : k \in 0..MaxLines} /\ Q(p)
  BY <1>6, <1>7, <1>8
<1>10. PICK k \in 0..MaxLines : p = P(k)
  BY <1>9
<1>11. p \in Archive /\ p.n = k /\ p.day = day /\ p.time = time
  BY <1>2, <1>10
<1>12. NamedAs(p) = {} /\ \A j \in 0..p.n - 1 : NamedAs(P(j)) # {}
  BY <1>9 DEF Q
<1>13. p.n <= Len(accepted)
  <2>1. NamedAs(P(Len(accepted))) = {}
    BY <1>1, <1>3, <1>5
  <2>2. Len(accepted) \notin 0..k - 1
    BY <1>11, <1>12, <2>1
  <2>3. QED
    BY <1>1, <1>11, <2>2
<1>14. \A i \in DOMAIN files : files[i].name # p
  BY <1>12 DEF NamedAs
<1>15. \A j \in 0..p.n - 1 : NamedAs([p EXCEPT !.n = j]) # {}
  <2>1. \A j \in 0..p.n - 1 : j \in 0..MaxLines
    BY <1>1, <1>11
  <2>2. \A j \in 0..p.n - 1 : [p EXCEPT !.n = j] = P(j)
    BY <1>2, <1>10, <2>1
  <2>3. QED
    BY <1>12, <2>2
<1>16. QED
  BY <1>8, <1>11, <1>13, <1>14, <1>15

\* What the steps of the commands leave alone.
LEMMA CommandsOnlyRead ==
    ASSUME Command
    PROVE  UNCHANGED <<now, accepted, files, writer, runs, ended, pruning, lost, misplaced>>
<1>1. CASE \E cmd \in Commands : Logs(cmd)
  BY <1>1 DEF Logs, daemonVars
<1>2. CASE ReadSegment
  BY <1>2 DEF ReadSegment, daemonVars
<1>3. CASE HistoryEnds
  BY <1>3 DEF HistoryEnds, Follows, daemonVars
<1>4. CASE Monitor
  BY <1>4 DEF Monitor, Follows, daemonVars
<1>5. CASE Rescan
  BY <1>5 DEF Rescan, Follows, daemonVars
<1>6. CASE Poll
  BY <1>6 DEF Poll, daemonVars
<1>7. QED
  BY <1>1, <1>2, <1>3, <1>4, <1>5, <1>6 DEF Command

LEMMA AcceptedDays ==
    ASSUME DaemonTypes, NEW line \in DOMAIN accepted
    PROVE  /\ accepted[line] \in Day
           /\ DOMAIN accepted = 1..Len(accepted) /\ Len(accepted) \in Nat /\ Len(accepted) <= MaxLines
<1>1. accepted \in Seq(Day) /\ Len(accepted) <= MaxLines
  BY DEF DaemonTypes
<1>2. QED
  BY <1>1

-----------------------------------------------------------------------------
(* What steps do to the directory, for the invariants on the order of files. *)

\* Lines are where they were, or nowhere.
OnlyOld ==
    \A line, i : On(files', ended', writer', line, i) => On(files, ended, writer, line, i)

\* A writer that goes on does so with its file and its day.
GoesOn ==
    \/ writer' = writer
    \/ writer' = None
    \/ /\ writer # None /\ writer' # None
       /\ writer'.file = writer.file /\ writer'.day = writer.day

\* Line h, which was in no file, reaches file f.
Arrives(f, h) ==
    /\ f \in DOMAIN files /\ DOMAIN files' = DOMAIN files
    /\ \A j \in DOMAIN files : files'[j].name = files[j].name
    /\ files'[f].lines = Append(files[f].lines, h) /\ files'[f].at = now.day
    /\ \A j \in DOMAIN files \ {f} : files'[j] = files[j]
    /\ FileGets(files, files', f, h)
    /\ h \in Line /\ \A i : ~InFile(files, h, i)

\* The directory is as it was.
Stays == OnlyOld /\ GoesOn /\ files' = files

Flushes == OnlyOld /\ GoesOn /\ \E f, h : Arrives(f, h)

\* The writer gets a line.
Gets ==
    /\ files' = files /\ GoesOn /\ writer # None /\ writer.file \in DOMAIN files
    /\ \A line, i : On(files', ended', writer', line, i) =>
          \/ On(files, ended, writer, line, i)
          \/ line = Len(accepted) + 1 /\ i = writer.file

\* Archives of a day before the cutoff lose their names.
OldOnes(cutoff) == {i \in DOMAIN files : files[i].name \in Archive /\ files[i].name.day < cutoff}

Removes(cutoff) ==
    /\ cutoff \in pruning /\ DOMAIN files' = DOMAIN files
    /\ SameLines(files, files')
    /\ \A j \in DOMAIN files : files'[j].lines = files[j].lines /\ files'[j].at = files[j].at
    /\ \A j \in OldOnes(cutoff) : files'[j].name = Gone
    /\ \A j \in DOMAIN files \ OldOnes(cutoff) : files'[j].name = files[j].name

Prunes == OnlyOld /\ GoesOn /\ \E cutoff : Removes(cutoff)

\* A file is added, which is empty, live, and of today.
Adds(new) ==
    /\ new = Len(files) + 1 /\ DOMAIN files' = DOMAIN files \cup {new}
    /\ files'[new] = [name |-> Live, lines |-> <<>>, at |-> now.day]

\* A writer begins with the live file, or with a new one.
Opens ==
    /\ OnlyOld /\ SameLines(files, files') /\ writer = None /\ writer' # None
    /\ \/ /\ files' = files /\ files[writer'.file].name = Live /\ writer'.file \in DOMAIN files
          /\ writer'.day \in {files[writer'.file].at, now.day}
       \/ /\ \E new : Adds(new)
          /\ \A j \in DOMAIN files : files'[j] = files[j] /\ files[j].name # Live
          /\ writer'.day = now.day

\* The stamp of a roll.
StampOf(path) ==
    /\ path \in Archive /\ path.day = writer.day
    /\ path.time = IF SizeBreached THEN now.time ELSE 0
    /\ NamedAs(path) = {}
    /\ \A k \in 0..path.n - 1 : NamedAs([path EXCEPT !.n = k]) # {}

\* The live file is archived, and the writer goes on with a new one.
Rolls(path) ==
    /\ writer # None /\ writer' # None /\ writer.file \in DOMAIN files
    /\ SameLines(files, files') /\ StampOf(path)
    /\ files'[writer.file].name = path
    /\ \A j \in DOMAIN files \ {writer.file} : files'[j].name = files[j].name
    /\ \A j \in DOMAIN files : files'[j].lines = files[j].lines /\ files'[j].at = files[j].at
    /\ Adds(writer'.file) /\ writer'.day = now.day
    /\ \A line, i : On(files', ended', writer', line, i) =>
          \/ On(files, ended, writer, line, i)
          \/ line = Len(accepted) + 1 /\ i = writer'.file
    /\ misplaced' = IF Misplaces(path) THEN misplaced \cup {writer.file} ELSE misplaced

-----------------------------------------------------------------------------
(* Every step keeps the invariant. *)

\* Ages, when a stream writes to file f.
LEMMA FlushedAges ==
    ASSUME KeptInv, NEW f \in DOMAIN files,
           accepted' = accepted, now' = now, pruning' = pruning,
           files'[f].lines # <<>>, files'[f].at = now.day, DOMAIN files' = DOMAIN files,
           \A j \in DOMAIN files : files'[j].name = files[j].name,
           \A j \in DOMAIN files \ {f} : files'[j] = files[j],
           \A line, i : On(files', ended', writer', line, i) => On(files, ended, writer, line, i),
           writer # None => writer.file \in DOMAIN files,
           writer' = writer \/ (/\ writer # None /\ writer' # None
                               /\ writer'.file = writer.file /\ writer'.day = writer.day)
    PROVE  AgesInv'
<1>1. Ages(accepted, now.day, files, ended, writer, pruning) /\ now.day \in Int
  BY DEF KeptInv, AgesInv, DaemonTypes, Clock, Day
<1>2. writer' # None => writer # None /\ writer'.file = writer.file /\ writer'.day = writer.day
  OBVIOUS
<1>3. InTime(accepted, now.day, files', ended', writer')
  <2> SUFFICES ASSUME NEW line \in DOMAIN accepted, NEW i \in DOMAIN files,
                      On(files, ended, writer, line, i)
               PROVE  /\ files'[i].name \in Archive => accepted[line] <= files'[i].name.day
                      /\ files'[i].name = Gone => accepted[line] < now.day - Retention
                      /\ files'[i].name = Live /\ files'[i].lines # <<>> => accepted[line] <= files'[i].at
                      /\ writer' # None /\ writer'.file = i => accepted[line] <= writer'.day
    BY DEF InTime
  <2>1. /\ files[i].name \in Archive => accepted[line] <= files[i].name.day
        /\ files[i].name = Gone => accepted[line] < now.day - Retention
        /\ files[i].name = Live /\ files[i].lines # <<>> => accepted[line] <= files[i].at
        /\ writer # None /\ writer.file = i => accepted[line] <= writer.day
        /\ accepted[line] <= now.day
    BY <1>1 DEF Ages, InTime
  <2>2. CASE i = f
    BY <1>2, <2>1, <2>2
  <2>3. CASE i # f
    BY <1>2, <2>1, <2>3
  <2>4. QED
    BY <2>2, <2>3
<1>4. \A i \in DOMAIN files : files'[i].at <= now.day
  <2>1. \A i \in DOMAIN files : files[i].at <= now.day
    BY <1>1 DEF Ages
  <2>2. \A i \in DOMAIN files : i = f \/ files'[i].at = files[i].at
    OBVIOUS
  <2>3. QED
    BY <1>1, <2>1, <2>2
<1>5. writer' # None => /\ writer'.day <= now.day
                        /\ files'[writer'.file].lines # <<>> => writer'.day <= files'[writer'.file].at
  <2>1. writer # None => /\ writer.day <= now.day
                         /\ files[writer.file].lines # <<>> => writer.day <= files[writer.file].at
    BY <1>1 DEF Ages
  <2>2. QED
    BY <1>2, <2>1
<1>6. Ages(accepted, now.day, files', ended', writer', pruning)
  BY <1>1, <1>3, <1>4, <1>5 DEF Ages
<1>7. QED
  BY <1>6 DEF AgesInv

LEMMA FlushKeeps ==
    ASSUME KeptInv, Flush
    PROVE  KeptInv' /\ Flushes
<1> DEFINE f == writer.file
           h == Head(writer.buffer)
<1>1. writer \in Writers /\ writer # None /\ writer.buffer # <<>> /\ f \in DOMAIN files
  BY DEF Flush, KeptInv, DaemonTypes
<1>2. writer.buffer \in Seq(Line) /\ writer.day \in Day
  BY <1>1, WriterFields
<1>3. IsInjective(writer.buffer)
  BY <1>1 DEF KeptInv, LinesInv, Distinct
<1>4. /\ Tail(writer.buffer) \in Seq(Line) /\ h \in Line
      /\ h \in ToSet(writer.buffer) /\ ToSet(Tail(writer.buffer)) = ToSet(writer.buffer) \ {h}
      /\ IsInjective(Tail(writer.buffer))
  BY <1>1, <1>2, <1>3, TailTakes
<1>5. /\ writer' = WithBuffer(writer, Tail(writer.buffer))
      /\ files' = Wrote(files, f, h, now.day)
      /\ now' = now /\ accepted' = accepted /\ ended' = ended /\ pruning' = pruning /\ lost' = lost
  BY DEF Flush, Flushed, Wrote, WithBuffer
<1>6. /\ writer' \in Writers /\ writer' # None /\ writer'.file = f
      /\ writer'.day = writer.day /\ writer'.buffer = Tail(writer.buffer)
  <2>1. PICK b \in Seq(Line) : b = Tail(writer.buffer)
    BY <1>4
  <2>2. writer' = WithBuffer(writer, b)
    BY <1>5, <2>1
  <2>3. /\ writer' \in Writers /\ writer' # None /\ writer'.file = writer.file
        /\ writer'.day = writer.day /\ writer'.buffer = b
    BY <1>1, <2>2, WriterWith
  <2>4. QED
    BY <2>1, <2>3
<1>7. files \in Seq(File) /\ now.day \in Day
  BY DEF KeptInv, DaemonTypes, Clock
<1> HIDE DEF f, h
<1>8. /\ files' \in Seq(File) /\ DOMAIN files' = DOMAIN files
      /\ \A j \in DOMAIN files : files'[j].name = files[j].name
      /\ files'[f].lines = Append(files[f].lines, h) /\ files'[f].at = now.day
      /\ \A j \in DOMAIN files \ {f} : files'[j] = files[j]
      /\ FileGets(files, files', f, h)
  BY <1>1, <1>4, <1>5, <1>7, FlushedFiles
<1>9. WriterGives(writer, writer', h)
  BY <1>1, <1>4, <1>6 DEF InWriter, WriterGives
<1>10. InWriter(writer, h)
  BY <1>1, <1>4 DEF InWriter
<1>11. Once(files', ended', writer') /\ Somewhere(files', ended', writer', Len(accepted'), lost')
  <2>1. Once(files, ended, writer) /\ Somewhere(files, ended, writer, Len(accepted), lost)
    BY DEF KeptInv, LinesInv
  <2>2. Once(files', ended, writer') /\ Somewhere(files', ended, writer', Len(accepted), lost)
    BY <2>1, <1>8, <1>9, <1>10, WriterToFile
  <2>3. QED
    BY <1>5, <2>2
<1>12. Distinct(files', ended', writer')
  <2>1. Distinct(files, ended, writer)
    BY DEF KeptInv, LinesInv
  <2>2. ~InFile(files, h, f)
    BY <1>10 DEF KeptInv, LinesInv, Once
  <2>3. IsInjective(files[f].lines) /\ files[f].lines \in Seq(Line) /\ h \notin ToSet(files[f].lines)
    BY <1>1, <1>7, <2>1, <2>2, FileFields DEF Distinct, InFile
  <2>4. IsInjective(Append(files[f].lines, h))
    BY <1>4, <2>3, AppendAdds
  <2>5. \A j \in DOMAIN files' : IsInjective(files'[j].lines)
    BY <1>8, <2>1, <2>4 DEF Distinct
  <2>6. QED
    BY <1>4, <1>5, <1>6, <2>1, <2>5 DEF Distinct
<1>13. DaemonTypes'
  BY <1>1, <1>5, <1>6, <1>8 DEF KeptInv, DaemonTypes
<1>14. NamesInv'
  <2>1. Names(files, writer, Len(accepted))
    BY DEF KeptInv, NamesInv
  <2>2. Names(files', writer', Len(accepted))
    BY <1>1, <1>6, <1>8, <2>1 DEF Names, f
  <2>3. QED
    BY <1>5, <2>2 DEF NamesInv
<1>15. \A line, i : On(files', ended', writer', line, i) => On(files, ended, writer, line, i)
  BY <1>5, <1>6, <1>8, <1>9, <1>10 DEF On, FileGets, WriterGives, f
<1>16. AgesInv'
  <2>1. files[f].lines \in Seq(Line)
    BY <1>1, <1>7, FileFields
  <2>2. files'[f].lines # <<>>
    <3>1. Append(files[f].lines, h) # <<>>
      BY <1>4, <2>1, AppendAdds
    <3>2. QED
      BY <1>8, <3>1
  <2>3. QED
    BY <1>1, <1>5, <1>6, <1>8, <2>2, <1>15, FlushedAges DEF f
<1>17. Flushes
  <2>1. \A i : ~InFile(files, h, i)
    BY <1>10 DEF KeptInv, LinesInv, Once
  <2>2. Arrives(f, h)
    BY <1>1, <1>4, <1>8, <2>1 DEF Arrives, f
  <2>3. OnlyOld /\ GoesOn
    BY <1>1, <1>6, <1>15 DEF OnlyOld, GoesOn, f
  <2>4. QED
    BY <2>2, <2>3 DEF Flushes
<1>18. QED
  BY <1>11, <1>12, <1>13, <1>14, <1>16, <1>17 DEF KeptInv, LinesInv
LEMMA FlushEndedKeeps ==
    ASSUME KeptInv, FlushEnded
    PROVE  KeptInv' /\ Flushes
<1>1. PICK e \in ended :
          /\ files' = Wrote(files, e.file, Head(e.buffer), now.day)
          /\ ended' = (ended \ {e}) \cup (IF Len(e.buffer) = 1 THEN {}
                                          ELSE {[e EXCEPT !.buffer = Tail(e.buffer)]})
  BY DEF FlushEnded, Flushed, Wrote
<1>2. /\ writer' = writer /\ now' = now /\ accepted' = accepted /\ pruning' = pruning
      /\ lost' = lost
  BY DEF FlushEnded
<1> DEFINE f == e.file
           h == Head(e.buffer)
           x == [e EXCEPT !.buffer = Tail(e.buffer)]
<1>3. e \in [file : DOMAIN files, buffer : Seq(Line)] /\ files \in Seq(File) /\ now.day \in Day
  BY DEF KeptInv, DaemonTypes, Clock
<1>4. f \in DOMAIN files /\ e.buffer \in Seq(Line) /\ e.buffer # <<>> /\ IsInjective(e.buffer)
  BY <1>3 DEF KeptInv, LinesInv, Distinct
<1>5. /\ Tail(e.buffer) \in Seq(Line) /\ h \in Line
      /\ h \in ToSet(e.buffer) /\ ToSet(Tail(e.buffer)) = ToSet(e.buffer) \ {h}
      /\ IsInjective(Tail(e.buffer))
      /\ Len(e.buffer) # 1 => Tail(e.buffer) # <<>>
      /\ Len(e.buffer) = 1 => Tail(e.buffer) = <<>>
  BY <1>4, TailTakes
<1>6. /\ x \in [file : DOMAIN files, buffer : Seq(Line)] /\ x.file = f
      /\ x.buffer = Tail(e.buffer)
  BY <1>3, <1>5
<1> HIDE DEF f, h, x
<1>7. /\ files' \in Seq(File) /\ DOMAIN files' = DOMAIN files
      /\ \A j \in DOMAIN files : files'[j].name = files[j].name
      /\ files'[f].lines = Append(files[f].lines, h) /\ files'[f].at = now.day
      /\ \A j \in DOMAIN files \ {f} : files'[j] = files[j]
      /\ FileGets(files, files', f, h)
  <2>1. files' = Wrote(files, f, h, now.day)
    BY <1>1 DEF f, h
  <2>2. files \in Seq(File) /\ now.day \in Day /\ f \in DOMAIN files /\ h \in Line
    BY <1>3, <1>4, <1>5
  <2>3. QED
    BY <2>1, <2>2, FlushedFiles
<1>8. ended' = (ended \ {e}) \cup (IF Len(e.buffer) = 1 THEN {} ELSE {x})
  BY <1>1 DEF x
<1>9. StreamGives(ended, ended', e, x, h)
  <2>1. CASE Len(e.buffer) = 1
    <3>1. ended' = ended \ {e} /\ \A line : ~(line \in ToSet(e.buffer) /\ line # h)
      BY <1>5, <1>8, <2>1, EmptyHasNothing
    <3>2. QED
      BY <3>1 DEF StreamGives, InEnded
  <2>2. CASE Len(e.buffer) # 1
    <3>1. ended' = (ended \ {e}) \cup {x}
      BY <1>8, <2>2
    <3>2. \A line : line \in ToSet(x.buffer) <=> line \in ToSet(e.buffer) /\ line # h
      BY <1>5, <1>6
    <3>3. QED
      BY <3>1, <3>2 DEF StreamGives, InEnded
  <2>3. QED
    BY <2>1, <2>2
<1>10. InEnded(ended, h, e)
  BY <1>5 DEF InEnded
<1>11. Once(files', ended', writer') /\ Somewhere(files', ended', writer', Len(accepted'), lost')
  <2>1. Once(files, ended, writer) /\ Somewhere(files, ended, writer, Len(accepted), lost)
    BY DEF KeptInv, LinesInv
  <2>2. Once(files', ended', writer) /\ Somewhere(files', ended', writer, Len(accepted), lost)
    BY <2>1, <1>7, <1>9, <1>10, EndedToFile
  <2>3. QED
    BY <1>2, <2>2
<1>12. Distinct(files', ended', writer')
  <2>1. Distinct(files, ended, writer)
    BY DEF KeptInv, LinesInv
  <2>2. ~InFile(files, h, f)
    BY <1>10 DEF KeptInv, LinesInv, Once
  <2>3. IsInjective(files[f].lines) /\ files[f].lines \in Seq(Line) /\ h \notin ToSet(files[f].lines)
    BY <1>3, <1>4, <2>1, <2>2, FileFields DEF Distinct, InFile, f
  <2>4. IsInjective(Append(files[f].lines, h))
    BY <1>5, <2>3, AppendAdds
  <2>5. \A j \in DOMAIN files' : IsInjective(files'[j].lines)
    BY <1>7, <2>1, <2>4 DEF Distinct
  <2>6. \A g \in ended' : g \in ended \/ (g = x /\ Tail(e.buffer) # <<>>)
    BY <1>5, <1>8
  <2>7. \A g \in ended' : IsInjective(g.buffer) /\ g.buffer # <<>>
    BY <1>5, <1>6, <2>1, <2>6 DEF Distinct
  <2>8. QED
    BY <1>2, <2>1, <2>5, <2>7 DEF Distinct
<1>13. DaemonTypes'
  <2>1. \A g \in ended' : g \in ended \/ g = x
    BY <1>8
  <2>2. ended' \subseteq [file : DOMAIN files', buffer : Seq(Line)]
    BY <1>6, <1>7, <2>1 DEF KeptInv, DaemonTypes
  <2>3. QED
    BY <1>2, <1>7, <2>2 DEF KeptInv, DaemonTypes
<1>14. writer # None => writer.file \in DOMAIN files
  BY DEF KeptInv, DaemonTypes
<1>15. NamesInv'
  <2>1. Names(files, writer, Len(accepted))
    BY DEF KeptInv, NamesInv
  <2>2. Names(files', writer, Len(accepted))
    BY <1>7, <1>14, <2>1 DEF Names
  <2>3. QED
    BY <1>2, <2>2 DEF NamesInv
<1>16. \A line, i : On(files', ended', writer', line, i) => On(files, ended, writer, line, i)
  <2> SUFFICES ASSUME NEW line, NEW i, On(files', ended', writer', line, i)
               PROVE  On(files, ended, writer, line, i)
    OBVIOUS
  <2>1. CASE InFile(files', line, i)
    BY <1>7, <1>10, <2>1 DEF On, FileGets, f
  <2>2. CASE \E g \in ended' : g.file = i /\ InEnded(ended', line, g)
    <3>1. PICK g \in ended' : g.file = i /\ InEnded(ended', line, g)
      BY <2>2
    <3>2. InEnded(ended, line, g) \/ (InEnded(ended, line, e) /\ g = x)
      BY <1>9, <3>1 DEF StreamGives
    <3>3. QED
      BY <1>6, <3>1, <3>2 DEF On, InEnded, f
  <2>3. CASE InWriter(writer', line) /\ writer'.file = i
    BY <1>2, <2>3 DEF On
  <2>4. QED
    BY <2>1, <2>2, <2>3 DEF On
<1>17. AgesInv'
  <2>1. files[f].lines \in Seq(Line)
    BY <1>3, <1>4, FileFields DEF f
  <2>2. files'[f].lines # <<>>
    <3>1. Append(files[f].lines, h) # <<>>
      BY <1>5, <2>1, AppendAdds
    <3>2. QED
      BY <1>7, <3>1
  <2>3. f \in DOMAIN files
    BY <1>4 DEF f
  <2>4. QED
    BY <1>2, <1>7, <1>14, <1>16, <2>2, <2>3, FlushedAges
<1>18. Flushes
  <2>1. \A i : ~InFile(files, h, i)
    BY <1>10 DEF KeptInv, LinesInv, Once
  <2>2. f \in DOMAIN files /\ h \in Line
    BY <1>4, <1>5 DEF f
  <2>3. Arrives(f, h)
    BY <1>7, <2>1, <2>2 DEF Arrives
  <2>4. OnlyOld /\ GoesOn
    BY <1>2, <1>16 DEF OnlyOld, GoesOn
  <2>5. QED
    BY <2>3, <2>4 DEF Flushes
<1>19. QED
  BY <1>11, <1>12, <1>13, <1>15, <1>17, <1>18 DEF KeptInv, LinesInv

LEMMA EndKeeps ==
    ASSUME KeptInv, End
    PROVE  KeptInv' /\ Stays
<1> DEFINE x == [file |-> writer.file, buffer |-> writer.buffer]
<1>1. /\ writer # None /\ writer' = None /\ files' = files /\ now' = now
      /\ accepted' = accepted /\ pruning' = pruning /\ lost' = lost
      /\ ended' = ended \cup (IF writer.buffer = <<>> THEN {} ELSE {x})
  BY DEF End, Ended
<1>2. writer \in Writers /\ writer.file \in DOMAIN files
  BY <1>1 DEF KeptInv, DaemonTypes
<1>3. x \in [file : DOMAIN files, buffer : Seq(Line)] /\ x.file = writer.file
  BY <1>2, WriterFields
<1>4. StreamEnds(ended, ended', x, writer)
  BY <1>1, EndedStreams
<1>5. WriterEmpty(writer')
  BY <1>1 DEF WriterEmpty, InWriter
<1>6. Once(files', ended', writer') /\ Somewhere(files', ended', writer', Len(accepted'), lost')
  <2>1. Once(files, ended, writer) /\ Somewhere(files, ended, writer, Len(accepted), lost)
    BY DEF KeptInv, LinesInv
  <2>2. SameLines(files, files)
    BY DEF SameLines
  <2>3. Once(files, ended', writer') /\ Somewhere(files, ended', writer', Len(accepted), lost)
    BY <2>1, <2>2, <1>4, <1>5, WriterToEnded
  <2>4. QED
    BY <1>1, <2>3
<1>7. \A g \in ended' : g \in ended \/ (g = x /\ writer.buffer # <<>>)
  BY <1>1
<1>8. Distinct(files', ended', writer')
  BY <1>1, <1>7 DEF KeptInv, LinesInv, Distinct
<1>9. DaemonTypes'
  <2>1. ended' \subseteq [file : DOMAIN files, buffer : Seq(Line)]
    BY <1>3, <1>7 DEF KeptInv, DaemonTypes
  <2>2. QED
    BY <1>1, <2>1 DEF KeptInv, DaemonTypes
<1>10. NamesInv'
  BY <1>1 DEF KeptInv, NamesInv, Names
<1>11. \A line, i : On(files', ended', writer', line, i) => On(files, ended, writer, line, i)
  <2> SUFFICES ASSUME NEW line, NEW i, On(files', ended', writer', line, i)
               PROVE  On(files, ended, writer, line, i)
    OBVIOUS
  <2>1. CASE InFile(files', line, i)
    BY <1>1, <2>1 DEF On
  <2>2. CASE \E g \in ended' : g.file = i /\ InEnded(ended', line, g)
    <3>1. PICK g \in ended' : g.file = i /\ InEnded(ended', line, g)
      BY <2>2
    <3>2. InEnded(ended, line, g) \/ (InWriter(writer, line) /\ g = x)
      BY <1>4, <3>1 DEF StreamEnds
    <3>3. QED
      BY <1>3, <3>1, <3>2 DEF On, InEnded
  <2>3. QED
    BY <1>5, <2>1, <2>2 DEF On, WriterEmpty
<1>12. AgesInv'
  <2>1. Ages(accepted, now.day, files, ended, writer, pruning)
    BY DEF KeptInv, AgesInv
  <2>2. InTime(accepted, now.day, files, ended', writer')
    BY <1>1, <1>11, <2>1 DEF Ages, InTime
  <2>3. Ages(accepted, now.day, files, ended', writer', pruning)
    BY <1>1, <2>1, <2>2 DEF Ages
  <2>4. QED
    BY <1>1, <2>3 DEF AgesInv
<1>13. Stays
  BY <1>1, <1>11 DEF Stays, OnlyOld, GoesOn
<1>14. QED
  BY <1>6, <1>8, <1>9, <1>10, <1>12, <1>13 DEF KeptInv, LinesInv

LEMMA CrashKeeps ==
    ASSUME KeptInv, Crash
    PROVE  KeptInv' /\ Stays
<1>1. /\ writer' = None /\ ended' = {} /\ pruning' = {} /\ files' = files /\ now' = now
      /\ accepted' = accepted /\ lost' = lost \cup InMemory
  BY DEF Crash
<1>2. WriterEmpty(writer')
  BY <1>1 DEF WriterEmpty, InWriter
<1>3. \A line, e : InEnded(ended, line, e) => line \in InMemory
  BY DEF InEnded, InMemory
<1>4. \A line : InWriter(writer, line) => line \in InMemory
  <2> SUFFICES ASSUME NEW line, InWriter(writer, line)  PROVE line \in InMemory
    OBVIOUS
  <2>1. writer # None /\ line \in ToSet(writer.buffer)
    BY DEF InWriter
  <2>2. QED
    BY <2>1 DEF InMemory
<1>5. Once(files', ended', writer') /\ Somewhere(files', ended', writer', Len(accepted'), lost')
  <2>1. Once(files, ended, writer) /\ Somewhere(files, ended, writer, Len(accepted), lost)
    BY DEF KeptInv, LinesInv
  <2>2. /\ Once(files, {}, writer')
        /\ Somewhere(files, {}, writer', Len(accepted), lost \cup InMemory)
    BY <2>1, <1>2, <1>3, <1>4, MemoryIsLost
  <2>3. QED
    BY <1>1, <2>2
<1>6. Distinct(files', ended', writer')
  BY <1>1 DEF KeptInv, LinesInv, Distinct
<1>7. DaemonTypes'
  BY <1>1 DEF KeptInv, DaemonTypes
<1>8. NamesInv'
  BY <1>1 DEF KeptInv, NamesInv, Names
<1>9. AgesInv'
  <2>1. Ages(accepted, now.day, files, ended, writer, pruning)
    BY DEF KeptInv, AgesInv
  <2>2. \A line, i : On(files, {}, writer', line, i) => On(files, ended, writer, line, i)
    BY <1>2 DEF On, InEnded, WriterEmpty
  <2>3. InTime(accepted, now.day, files, {}, writer')
    BY <1>1, <2>1, <2>2 DEF Ages, InTime
  <2>4. Ages(accepted, now.day, files, {}, writer', {})
    BY <1>1, <2>1, <2>3 DEF Ages
  <2>5. QED
    BY <1>1, <2>4 DEF AgesInv
<1>10. Stays
  <2>1. OnlyOld
    BY <1>1, <1>2 DEF OnlyOld, On, InEnded, WriterEmpty
  <2>2. QED
    BY <1>1, <2>1 DEF Stays, GoesOn
<1>11. QED
  BY <1>5, <1>6, <1>7, <1>8, <1>9, <1>10 DEF KeptInv, LinesInv

LEMMA PruneKeeps ==
    ASSUME KeptInv, Prune
    PROVE  KeptInv' /\ Prunes
<1>1. PICK cutoff \in pruning :
          /\ files' = [i \in DOMAIN files |->
                          IF i \in Archives /\ files[i].name.day < cutoff
                          THEN [files[i] EXCEPT !.name = Gone] ELSE files[i]]
          /\ pruning' = pruning \ {cutoff}
  BY DEF Prune
<1>2. /\ writer' = writer /\ now' = now /\ accepted' = accepted /\ ended' = ended
      /\ lost' = lost
  BY DEF Prune
<1>3. files \in Seq(File) /\ now.day \in Int /\ Retention \in Int
  BY Numbers DEF KeptInv, DaemonTypes, Clock, Day
<1>4. Ages(accepted, now.day, files, ended, writer, pruning)
  BY DEF KeptInv, AgesInv
<1>5. cutoff \in Int /\ cutoff <= now.day - Retention
  BY <1>4 DEF Ages
<1> DEFINE Old(i) == i \in Archives /\ files[i].name.day < cutoff
           name == [i \in DOMAIN files |-> IF Old(i) THEN Gone ELSE files[i].name]
<1>6. files' = Named(files, name)
  <2>1. \A i \in DOMAIN files : files[i] = [files[i] EXCEPT !.name = files[i].name]
    BY <1>3, FileFields DEF File
  <2>2. QED
    BY <1>1, <2>1 DEF Named
<1>7. \A i \in DOMAIN files : name[i] \in Archive \cup {Live, Gone}
  BY <1>3, FileFields
<1>8. \A i \in DOMAIN files : name[i] = files[i].name \/ (Old(i) /\ name[i] = Gone)
  OBVIOUS
<1>9. \A i \in DOMAIN files : Old(i) => files[i].name \in Archive /\ files[i].name.day < cutoff
  BY <1>3, FileFields DEF Archives
<1> HIDE DEF name, Old
<1>10. /\ files' \in Seq(File) /\ DOMAIN files' = DOMAIN files
       /\ \A j \in DOMAIN files : /\ files'[j].name = name[j]
                                  /\ files'[j].lines = files[j].lines /\ files'[j].at = files[j].at
       /\ SameLines(files, files')
  BY <1>3, <1>6, <1>7, FilesRenamed
<1>11. Once(files', ended', writer') /\ Somewhere(files', ended', writer', Len(accepted'), lost')
  <2>1. Once(files, ended, writer) /\ Somewhere(files, ended, writer, Len(accepted), lost)
    BY DEF KeptInv, LinesInv
  <2>2. WriterSame(writer, writer')
    BY <1>2 DEF WriterSame
  <2>3. Once(files', ended, writer') /\ Somewhere(files', ended, writer', Len(accepted), lost)
    BY <2>1, <2>2, <1>10, NothingMoves
  <2>4. QED
    BY <1>2, <2>3
<1>12. Distinct(files', ended', writer')
  BY <1>2, <1>10 DEF KeptInv, LinesInv, Distinct
<1>13. DaemonTypes'
  BY <1>2, <1>10 DEF KeptInv, DaemonTypes
<1>14. writer # None => writer.file \in DOMAIN files
  BY DEF KeptInv, DaemonTypes
<1>15. NamesInv'
  <2>1. Names(files, writer, Len(accepted))
    BY DEF KeptInv, NamesInv
  <2>2. \A i \in DOMAIN files : files[i].name = Live => ~Old(i)
    BY <1>9, Numbers
  <2>3. \A i \in DOMAIN files : /\ files'[i].name = Live <=> files[i].name = Live
                                /\ files'[i].name \in Archive => files'[i].name = files[i].name
    BY <1>8, <1>10, <2>2, Numbers
  <2>4. Names(files', writer, Len(accepted))
    BY <1>10, <1>14, <2>1, <2>3 DEF Names
  <2>5. QED
    BY <1>2, <2>4 DEF NamesInv
<1>16. AgesInv'
  <2>1. InTime(accepted, now.day, files', ended, writer)
    <3> SUFFICES ASSUME NEW line \in DOMAIN accepted, NEW i \in DOMAIN files,
                        On(files, ended, writer, line, i)
                 PROVE  /\ files'[i].name \in Archive => accepted[line] <= files'[i].name.day
                        /\ files'[i].name = Gone => accepted[line] < now.day - Retention
                        /\ files'[i].name = Live /\ files'[i].lines # <<>> => accepted[line] <= files'[i].at
                        /\ writer # None /\ writer.file = i => accepted[line] <= writer.day
      BY <1>10 DEF InTime, On, SameLines
    <3>1. /\ files[i].name \in Archive => accepted[line] <= files[i].name.day
          /\ files[i].name = Gone => accepted[line] < now.day - Retention
          /\ files[i].name = Live /\ files[i].lines # <<>> => accepted[line] <= files[i].at
          /\ writer # None /\ writer.file = i => accepted[line] <= writer.day
      BY <1>4 DEF Ages, InTime
    <3>2. CASE name[i] = files[i].name
      BY <1>10, <3>1, <3>2
    <3>3. CASE Old(i) /\ name[i] = Gone
      <4>1. accepted[line] <= files[i].name.day /\ files[i].name.day < cutoff
        BY <1>9, <3>1, <3>3
      <4>2. accepted[line] \in Int /\ files[i].name.day \in Int
        BY <1>9, <3>3, AcceptedDays DEF KeptInv, Day, Archive
      <4>3. accepted[line] < now.day - Retention
        BY <1>3, <1>5, <4>1, <4>2
      <4>4. files'[i].name = Gone
        BY <1>10, <3>3
      <4>5. QED
        BY <3>1, <4>3, <4>4, Numbers
    <3>4. QED
      BY <1>8, <3>2, <3>3
  <2>2. Ages(accepted, now.day, files', ended, writer, pruning')
    BY <1>1, <1>4, <1>10, <1>14, <2>1 DEF Ages
  <2>3. QED
    BY <1>2, <2>2 DEF AgesInv
<1>17. Prunes
  <2>1. \A i \in DOMAIN files : i \in OldOnes(cutoff) <=> Old(i)
    <3>1. \A i \in DOMAIN files : i \in Archives <=> files[i].name \in Archive
      BY <1>3, FileFields, Numbers DEF Archives
    <3>2. QED
      BY <3>1 DEF OldOnes, Old
  <2>2. /\ \A i \in OldOnes(cutoff) : name[i] = Gone
        /\ \A i \in DOMAIN files \ OldOnes(cutoff) : name[i] = files[i].name
    BY <2>1 DEF name, OldOnes
  <2>3. OldOnes(cutoff) \subseteq DOMAIN files
    BY DEF OldOnes
  <2>4. Removes(cutoff)
    BY <1>10, <2>2, <2>3 DEF Removes
  <2>5. OnlyOld
    BY <1>2, <1>10 DEF OnlyOld, On, SameLines
  <2>6. QED
    BY <1>2, <2>4, <2>5 DEF Prunes, GoesOn
<1>18. QED
  BY <1>11, <1>12, <1>13, <1>15, <1>16, <1>17 DEF KeptInv, LinesInv

LEMMA TickKeeps ==
    ASSUME KeptInv, Tick
    PROVE  KeptInv' /\ Stays
<1>1. /\ writer' = writer /\ ended' = ended /\ pruning' = pruning /\ files' = files
      /\ accepted' = accepted /\ lost' = lost
  BY DEF Tick, daemonVars
<1>2. now \in Clock /\ now' \in Clock /\ now'.day \in {now.day, now.day + 1}
  BY DEF Tick, KeptInv, DaemonTypes, Clock
<1>3. now.day \in Int /\ now'.day \in Int /\ now.day <= now'.day /\ Retention \in Int
  BY <1>2, Numbers DEF Clock, Day
<1>4. LinesInv' /\ DaemonTypes' /\ NamesInv'
  BY <1>1, <1>2 DEF KeptInv, LinesInv, DaemonTypes, NamesInv
<1>5. AgesInv'
  <2>1. Ages(accepted, now.day, files, ended, writer, pruning)
    BY DEF KeptInv, AgesInv
  <2>2. \A line \in DOMAIN accepted : accepted[line] \in Int
    BY AcceptedDays DEF KeptInv, Day
  <2>3. \A line \in DOMAIN accepted : /\ accepted[line] <= now.day => accepted[line] <= now'.day
                                      /\ accepted[line] < now.day - Retention =>
                                            accepted[line] < now'.day - Retention
    BY <1>3, <2>2
  <2>4. InTime(accepted, now'.day, files, ended, writer)
    BY <2>1, <2>3 DEF Ages, InTime
  <2>5. \A i \in DOMAIN files : files[i].at \in Int
    BY FileFields DEF KeptInv, DaemonTypes, Day
  <2>6. writer # None => writer.day \in Int
    BY WriterFields DEF KeptInv, DaemonTypes, Day
  <2>7. /\ \A line \in DOMAIN accepted : accepted[line] <= now'.day
        /\ \A i \in DOMAIN files : files[i].at <= now'.day
        /\ \A cutoff \in pruning : cutoff \in Int /\ cutoff <= now'.day - Retention
        /\ writer # None => writer.day <= now'.day
    BY <1>3, <2>1, <2>2, <2>5, <2>6 DEF Ages
  <2>8. writer # None /\ files[writer.file].lines # <<>> => writer.day <= files[writer.file].at
    BY <2>1 DEF Ages
  <2>9. Ages(accepted, now'.day, files, ended, writer, pruning)
    BY <2>4, <2>7, <2>8 DEF Ages
  <2>10. QED
    BY <1>1, <2>9 DEF AgesInv
<1>6. Stays
  BY <1>1 DEF Stays, OnlyOld, GoesOn
<1>7. QED
  BY <1>4, <1>5, <1>6 DEF KeptInv

LEMMA OpenKeeps ==
    ASSUME KeptInv, Open
    PROVE  KeptInv' /\ Opens
<1> DEFINE there == NamedAs(Live) # {}
           i == IF there THEN TheFile(Live) ELSE Len(files) + 1
           used == there /\ Size(i) > 0
           day == IF used THEN files[i].at ELSE now.day
           bytes == IF used THEN Size(i) ELSE 0
<1>1. /\ writer = None /\ now' = now /\ accepted' = accepted /\ ended' = ended
      /\ pruning' = pruning /\ lost' = lost
  BY DEF Open
<1>2. /\ files' = IF there THEN files ELSE Append(files, NewFile)
      /\ writer' = [file |-> i, day |-> day, bytes |-> bytes, buffer |-> <<>>]
  BY DEF Open
<1>3. files \in Seq(File) /\ now.day \in Day /\ Len(files) \in Nat /\ DOMAIN files = 1..Len(files)
  BY DEF KeptInv, DaemonTypes, Clock
<1>4. there => i \in DOMAIN files /\ files[i].name = Live
  BY DEF NamedAs, TheFile
<1>5. ~there => \A j \in DOMAIN files : files[j].name # Live
  BY DEF NamedAs
<1>6. /\ files' \in Seq(File) /\ i \in DOMAIN files' /\ DOMAIN files \subseteq DOMAIN files'
      /\ \A j \in DOMAIN files : files'[j] = files[j]
      /\ \A j \in DOMAIN files' \ DOMAIN files :
            j = i /\ files'[j] = [name |-> Live, lines |-> <<>>, at |-> now.day]
      /\ SameLines(files, files')
  <2>1. CASE there
    BY <1>2, <1>3, <1>4, <2>1 DEF SameLines
  <2>2. CASE ~there
    <3>1. \A j \in DOMAIN files : files[j].name \in Archive \cup {Live, Gone}
      BY <1>3, FileFields
    <3> DEFINE name == [j \in DOMAIN files |-> files[j].name]
    <3>2. files = Named(files, name)
      <4>1. \A j \in DOMAIN files : files[j] = [files[j] EXCEPT !.name = files[j].name]
        BY <1>3, FileFields DEF File
      <4>2. files = [j \in DOMAIN files |-> files[j]]
        BY <1>3
      <4>3. QED
        BY <4>1, <4>2 DEF Named
    <3>3. files' = WithNew(files, now.day)
      BY <1>2, <2>2 DEF WithNew, NewFile
    <3>4. files' = WithNew(Named(files, name), now.day)
      BY <3>2, <3>3
    <3>5. \A j \in DOMAIN files : name[j] \in Archive \cup {Live, Gone}
      BY <3>1
    <3> HIDE DEF name
    <3>6. /\ files' \in Seq(File) /\ Len(files) + 1 \notin DOMAIN files
          /\ DOMAIN files' = DOMAIN files \cup {Len(files) + 1}
          /\ files'[Len(files) + 1] = [name |-> Live, lines |-> <<>>, at |-> now.day]
          /\ SameLines(files, files')
      <4>1. files \in Seq(File) /\ now.day \in Day
        BY <1>3
      <4>2. /\ files' \in Seq(File) /\ SameLines(files, files')
            /\ RenamedAndNew(files, files', name, Len(files) + 1, now.day)
        BY <3>4, <3>5, <4>1, FilesWithAnother
      <4>3. QED
        BY <4>2 DEF RenamedAndNew
    <3>7. \A j \in DOMAIN files : files'[j] = files[j]
      BY <1>3, <3>3 DEF WithNew
    <3>8. i = Len(files) + 1
      BY <2>2
    <3>9. QED
      BY <3>6, <3>7, <3>8
  <2>3. QED
    BY <2>1, <2>2
<1>7. used => files[i].lines # <<>>
  <2>1. Len(<<>>) = 0
    OBVIOUS
  <2>2. QED
    BY <2>1 DEF Size
<1>8. ~used /\ there => files[i].lines = <<>>
  <2>1. there => files[i].lines \in Seq(Line)
    BY <1>3, <1>4, FileFields
  <2>2. QED
    BY <2>1 DEF Size
<1>9. day \in Day
  BY <1>3, <1>4, FileFields
<1>10. bytes \in Nat
  <2>1. there => files[i].lines \in Seq(Line)
    BY <1>3, <1>4, FileFields
  <2>2. QED
    BY <2>1 DEF Size
<1>11. i \in Nat
  BY <1>3, <1>4
<1> HIDE DEF i, day, bytes, used
<1>12. writer' \in Writers
  BY <1>2, <1>9, <1>10, <1>11 DEF Writers
<1>13. writer' # None /\ writer'.file = i /\ writer'.day = day /\ writer'.buffer = <<>>
  BY <1>2, <1>12, WriterFields
<1>14. WriterEmpty(writer) /\ WriterEmpty(writer')
  BY <1>1, <1>13, EmptyHasNothing DEF WriterEmpty, InWriter
<1>15. Once(files', ended', writer') /\ Somewhere(files', ended', writer', Len(accepted'), lost')
  <2>1. Once(files, ended, writer) /\ Somewhere(files, ended, writer, Len(accepted), lost)
    BY DEF KeptInv, LinesInv
  <2>2. WriterSame(writer, writer')
    BY <1>14 DEF WriterSame, WriterEmpty
  <2>3. Once(files', ended, writer') /\ Somewhere(files', ended, writer', Len(accepted), lost)
    BY <2>1, <2>2, <1>6, NothingMoves
  <2>4. QED
    BY <1>1, <2>3
<1>16. \A j \in DOMAIN files' : j \in DOMAIN files \/ j \in DOMAIN files' \ DOMAIN files
  OBVIOUS
<1>17. Distinct(files', ended', writer')
  <2>1. \A j \in DOMAIN files' : IsInjective(files'[j].lines)
    BY <1>6, <1>16, EmptyHasNothing DEF KeptInv, LinesInv, Distinct
  <2>2. QED
    BY <1>1, <1>13, <2>1, EmptyHasNothing DEF KeptInv, LinesInv, Distinct
<1>18. DaemonTypes'
  BY <1>1, <1>6, <1>12, <1>13 DEF KeptInv, DaemonTypes
<1>19. files'[i].name = Live
  <2>1. CASE i \in DOMAIN files
    BY <1>3, <1>4, <1>6, <2>1 DEF i
  <2>2. CASE i \notin DOMAIN files
    BY <1>6, <2>2
  <2>3. QED
    BY <2>1, <2>2
<1>20. NamesInv'
  <2>1. Names(files, writer, Len(accepted))
    BY DEF KeptInv, NamesInv
  <2>2. \A j \in DOMAIN files' : files'[j].name = Live => j = i
    <3>1. CASE there
      BY <1>4, <1>6, <1>16, <2>1, <3>1 DEF Names
    <3>2. CASE ~there
      BY <1>5, <1>6, <1>16, <3>2
    <3>3. QED
      BY <3>1, <3>2
  <2>3. \A j \in DOMAIN files' : files'[j].name \in Archive => files'[j].name.n < Len(accepted)
    BY <1>6, <1>16, <2>1, Numbers DEF Names
  <2>4. Names(files', writer', Len(accepted))
    BY <1>13, <1>19, <2>2, <2>3 DEF Names
  <2>5. QED
    BY <1>1, <2>4 DEF NamesInv
<1>21. AgesInv'
  <2>1. Ages(accepted, now.day, files, ended, writer, pruning)
    BY DEF KeptInv, AgesInv
  <2>2. now.day \in Int
    BY <1>3 DEF Day
  <2>3. \A line, j : On(files', ended, writer', line, j) =>
           On(files, ended, writer, line, j) /\ j \in DOMAIN files
    <3> SUFFICES ASSUME NEW line, NEW j, On(files', ended, writer', line, j)
                 PROVE  On(files, ended, writer, line, j) /\ j \in DOMAIN files
      OBVIOUS
    <3>1. CASE InFile(files', line, j)
      BY <1>6, <3>1 DEF On, SameLines, InFile
    <3>2. CASE \E e \in ended : e.file = j /\ InEnded(ended, line, e)
      BY <3>2 DEF On, KeptInv, DaemonTypes
    <3>3. QED
      BY <1>14, <3>1, <3>2 DEF On, WriterEmpty
  <2>4. InTime(accepted, now.day, files', ended, writer')
    <3> SUFFICES ASSUME NEW line \in DOMAIN accepted, NEW j \in DOMAIN files,
                        On(files, ended, writer, line, j)
                 PROVE  /\ files[j].name \in Archive => accepted[line] <= files[j].name.day
                        /\ files[j].name = Gone => accepted[line] < now.day - Retention
                        /\ files[j].name = Live /\ files[j].lines # <<>> => accepted[line] <= files[j].at
                        /\ j = i => accepted[line] <= day
      BY <1>6, <1>13, <2>3 DEF InTime
    <3>1. /\ files[j].name \in Archive => accepted[line] <= files[j].name.day
          /\ files[j].name = Gone => accepted[line] < now.day - Retention
          /\ files[j].name = Live /\ files[j].lines # <<>> => accepted[line] <= files[j].at
          /\ accepted[line] <= now.day
      BY <2>1 DEF Ages, InTime
    <3>2. CASE used
      BY <1>4, <1>7, <3>1, <3>2 DEF day, used
    <3>3. CASE ~used
      BY <3>1, <3>3 DEF day
    <3>4. QED
      BY <3>1, <3>2, <3>3
  <2>5. /\ day <= now.day
        /\ files'[i].lines # <<>> => day <= files'[i].at
    <3>1. CASE used
      <4>1. i \in DOMAIN files /\ files[i].at \in Day
        BY <1>3, <1>4, <3>1, FileFields DEF used
      <4>2. files[i].at <= now.day /\ files[i].at \in Int
        BY <2>1, <4>1 DEF Ages, Day
      <4>3. QED
        BY <1>6, <3>1, <4>1, <4>2 DEF day
    <3>2. CASE ~used
      <4>1. files'[i].lines = <<>>
        BY <1>3, <1>4, <1>6, <1>8, <3>2 DEF i
      <4>2. QED
        BY <2>2, <3>2, <4>1 DEF day
    <3>3. QED
      BY <3>1, <3>2
  <2>6. \A j \in DOMAIN files' : files'[j].at <= now.day
    BY <1>6, <1>16, <2>1, <2>2 DEF Ages
  <2>7. Ages(accepted, now.day, files', ended, writer', pruning)
    BY <1>13, <2>1, <2>4, <2>5, <2>6 DEF Ages
  <2>8. QED
    BY <1>1, <2>7 DEF AgesInv
<1>22. Opens
  <2>1. OnlyOld
    BY <1>1, <1>6, <1>14 DEF OnlyOld, On, SameLines, WriterEmpty
  <2>2. CASE there
    <3>1. files' = files /\ i \in DOMAIN files /\ files[i].name = Live
      BY <1>2, <1>4, <2>2
    <3>2. day \in {files[i].at, now.day}
      BY DEF day
    <3>3. QED
      BY <1>1, <1>6, <1>13, <2>1, <3>1, <3>2 DEF Opens
  <2>3. CASE ~there
    <3>1. i = Len(files) + 1 /\ day = now.day
      BY <2>3 DEF i, day, used
    <3>2. i \in DOMAIN files' /\ i \notin DOMAIN files
      BY <1>3, <1>6, <3>1
    <3>3. Adds(i)
      BY <1>6, <3>1, <3>2 DEF Adds
    <3>4. QED
      BY <1>1, <1>5, <1>6, <1>13, <2>1, <2>3, <3>1, <3>3 DEF Opens
  <2>4. QED
    BY <2>2, <2>3
<1>23. QED
  BY <1>15, <1>17, <1>18, <1>20, <1>21, <1>22 DEF KeptInv, LinesInv

\* What write() does to the lines that were accepted.
LEMMA AcceptedGrows ==
    ASSUME KeptInv, Accepts
    PROVE  /\ accepted' \in Seq(Day) /\ Len(accepted') = Len(accepted) + 1
           /\ Len(accepted') <= MaxLines /\ Len(accepted) \in Nat
           /\ \A line \in DOMAIN accepted' : line \in DOMAIN accepted \/ line = Len(accepted) + 1
           /\ \A line \in DOMAIN accepted : accepted'[line] = accepted[line] /\ line # Len(accepted) + 1
           /\ accepted'[Len(accepted) + 1] = now.day
           /\ NextLine = Len(accepted) + 1 /\ NextLine \in Line
           /\ now.day \in Day /\ now.day \in Int
           /\ writer \in Writers /\ writer # None /\ writer.file \in DOMAIN files
           /\ files \in Seq(File)
<1>1. accepted \in Seq(Day) /\ Len(accepted) \in Nat /\ now.day \in Day /\ files \in Seq(File)
  BY DEF KeptInv, DaemonTypes, Clock
<1>2. accepted' = Append(accepted, now.day) /\ writer # None /\ Len(accepted) + 1 <= MaxLines
  BY DEF Accepts, NextLine
<1>3. writer \in Writers /\ writer.file \in DOMAIN files
  BY <1>2 DEF KeptInv, DaemonTypes
<1>4. NextLine = Len(accepted) + 1 /\ NextLine \in Line
  BY <1>1, <1>2, Numbers DEF NextLine, Line
<1>5. accepted' \in Seq(Day) /\ Len(accepted') = Len(accepted) + 1
  BY <1>1, <1>2
<1>6. DOMAIN accepted' = 1..Len(accepted) + 1 /\ DOMAIN accepted = 1..Len(accepted)
  BY <1>1, <1>5
<1>7. \A line \in 1..Len(accepted) : accepted'[line] = accepted[line]
  BY <1>1, <1>2
<1>8. accepted'[Len(accepted) + 1] = now.day
  BY <1>1, <1>2
<1>9. \A line : line \in 1..Len(accepted) + 1 => line \in 1..Len(accepted) \/ line = Len(accepted) + 1
  BY <1>1
<1>10. \A line \in 1..Len(accepted) : line # Len(accepted) + 1
  BY <1>1
<1>11. now.day \in Int
  BY <1>1 DEF Day
<1>12. Len(accepted') <= MaxLines
  BY <1>2, <1>5
<1>13. \A line \in DOMAIN accepted' : line \in DOMAIN accepted \/ line = Len(accepted) + 1
  BY <1>6, <1>9
<1>14. \A line \in DOMAIN accepted : accepted'[line] = accepted[line] /\ line # Len(accepted) + 1
  BY <1>6, <1>7, <1>10
<1>15. QED
  BY <1>1, <1>2, <1>3, <1>4, <1>5, <1>8, <1>11, <1>12, <1>13, <1>14

LEMMA WriteKeeps ==
    ASSUME KeptInv, Write
    PROVE  KeptInv' /\ Gets
<1> DEFINE n == Len(accepted)
<1>1. /\ files' = files /\ now' = now /\ ended' = ended /\ pruning' = pruning /\ lost' = lost
      /\ Accepts /\ writer.day = now.day
  BY DEF Write, DayChanged
<1>2. /\ accepted' \in Seq(Day) /\ Len(accepted') = n + 1 /\ Len(accepted') <= MaxLines
      /\ n \in Nat /\ now.day \in Int /\ n + 1 \in Line /\ files \in Seq(File)
      /\ \A line \in DOMAIN accepted' : line \in DOMAIN accepted \/ line = n + 1
      /\ \A line \in DOMAIN accepted : accepted'[line] = accepted[line] /\ line # n + 1
      /\ accepted'[n + 1] = now.day
      /\ writer \in Writers /\ writer # None /\ writer.file \in DOMAIN files
  BY <1>1, AcceptedGrows
<1>3. writer' = WithBytes(writer, Append(writer.buffer, n + 1), writer.bytes + 1)
  BY DEF Write, NextLine, WithBytes
<1>4. writer.buffer \in Seq(Line) /\ writer.bytes \in Nat
  BY <1>2, WriterFields
<1>5. \A line : InWriter(writer, line) => line # n + 1
  <2>1. \A line : InWriter(writer, line) => line \in 1..n
    BY DEF KeptInv, LinesInv, Somewhere
  <2>2. QED
    BY <1>2, <2>1
<1>6. IsInjective(writer.buffer) /\ n + 1 \notin ToSet(writer.buffer)
  BY <1>2, <1>5 DEF KeptInv, LinesInv, Distinct, InWriter
<1>7. PICK b \in Seq(Line) : /\ b = Append(writer.buffer, n + 1) /\ IsInjective(b)
                             /\ ToSet(b) = ToSet(writer.buffer) \cup {n + 1}
  <2>1. /\ Append(writer.buffer, n + 1) \in Seq(Line)
        /\ ToSet(Append(writer.buffer, n + 1)) = ToSet(writer.buffer) \cup {n + 1}
        /\ IsInjective(writer.buffer) /\ n + 1 \notin ToSet(writer.buffer) =>
              IsInjective(Append(writer.buffer, n + 1))
    <3> DEFINE m == n + 1
    <3>1. m \in Line
      BY <1>2
    <3> HIDE DEF m
    <3>2. /\ Append(writer.buffer, m) \in Seq(Line)
          /\ ToSet(Append(writer.buffer, m)) = ToSet(writer.buffer) \cup {m}
          /\ IsInjective(writer.buffer) /\ m \notin ToSet(writer.buffer) =>
                IsInjective(Append(writer.buffer, m))
      BY <1>4, <3>1, AppendAdds
    <3>3. QED
      BY <3>2 DEF m
  <2>2. QED
    BY <1>6, <2>1
<1> HIDE DEF n
<1>8. /\ writer' \in Writers /\ writer' # None /\ writer'.file = writer.file
      /\ writer'.day = writer.day /\ writer'.buffer = b
  <2>1. PICK k \in Nat : k = writer.bytes + 1
    BY <1>4
  <2>2. writer' = WithBytes(writer, b, k)
    BY <1>3, <1>7, <2>1
  <2>3. QED
    BY <1>2, <2>2, WriterWithBytes
<1>9. WriterGets(writer, writer', n + 1)
  BY <1>2, <1>7, <1>8 DEF WriterGets, InWriter
<1>10. Once(files', ended', writer') /\ Somewhere(files', ended', writer', Len(accepted'), lost')
  <2>1. Once(files, ended, writer) /\ Somewhere(files, ended, writer, n, lost)
    BY DEF KeptInv, LinesInv, n
  <2>2. Once(files, ended, writer') /\ Somewhere(files, ended, writer', n + 1, lost)
    BY <1>2, <1>9, <2>1, LineToWriter
  <2>3. QED
    BY <1>1, <1>2, <2>2
<1>11. Distinct(files', ended', writer')
  BY <1>1, <1>7, <1>8 DEF KeptInv, LinesInv, Distinct
<1>12. DaemonTypes'
  BY <1>1, <1>2, <1>8 DEF KeptInv, DaemonTypes
<1>13. NamesInv'
  <2>1. Names(files, writer, n)
    BY DEF KeptInv, NamesInv, n
  <2>2. \A i \in DOMAIN files : files[i].name \in Archive => files[i].name.n < n + 1
    <3>1. \A i \in DOMAIN files : files[i].name \in Archive =>
             files[i].name.n \in Int /\ files[i].name.n < n
      BY <2>1 DEF Names, Archive
    <3>2. QED
      BY <1>2, <3>1
  <2>3. Names(files, writer', n + 1)
    BY <1>2, <1>8, <2>1, <2>2 DEF Names
  <2>4. QED
    BY <1>1, <1>2, <2>3 DEF NamesInv
<1>14. \A line, i : On(files, ended, writer', line, i) =>
         On(files, ended, writer, line, i) \/ (line = n + 1 /\ i = writer.file)
  BY <1>8, <1>9 DEF On, WriterGets
<1>15. AgesInv'
  <2>1. Ages(accepted, now.day, files, ended, writer, pruning)
    BY DEF KeptInv, AgesInv
  <2>3. \A i : ~On(files, ended, writer, n + 1, i)
    <3>1. n + 1 \notin 1..n
      BY <1>2
    <3>2. QED
      BY <3>1 DEF KeptInv, LinesInv, Somewhere, On, n
  <2>4. files[writer.file].name = Live
    BY <1>2 DEF KeptInv, NamesInv, Names
  <2>5. InTime(accepted', now.day, files, ended, writer')
    <3> SUFFICES ASSUME NEW line \in DOMAIN accepted', NEW i \in DOMAIN files,
                        On(files, ended, writer', line, i)
                 PROVE  /\ files[i].name \in Archive => accepted'[line] <= files[i].name.day
                        /\ files[i].name = Gone => accepted'[line] < now.day - Retention
                        /\ files[i].name = Live /\ files[i].lines # <<>> => accepted'[line] <= files[i].at
                        /\ i = writer.file => accepted'[line] <= writer.day
      BY <1>8 DEF InTime
    <3>1. CASE line \in DOMAIN accepted
      <4>1. On(files, ended, writer, line, i) /\ accepted'[line] = accepted[line]
        BY <1>2, <1>14, <3>1
      <4>2. QED
        BY <1>2, <2>1, <3>1, <4>1 DEF Ages, InTime
    <3>2. CASE line = n + 1
      <4>1. i = writer.file /\ accepted'[line] = now.day
        BY <1>2, <1>14, <2>3, <3>2
      <4>2. files[i].lines # <<>> => writer.day <= files[i].at
        BY <1>2, <2>1, <4>1 DEF Ages
      <4>3. QED
        BY <1>1, <1>2, <2>4, <4>1, <4>2, Numbers
    <3>3. QED
      BY <1>2, <3>1, <3>2
  <2>6. \A line \in DOMAIN accepted' : accepted'[line] <= now.day
    BY <1>2, <2>1 DEF Ages
  <2>7. Ages(accepted', now.day, files, ended, writer', pruning)
    BY <1>2, <1>8, <2>1, <2>5, <2>6 DEF Ages
  <2>8. QED
    BY <1>1, <2>7 DEF AgesInv
<1>16. Gets
  BY <1>1, <1>2, <1>8, <1>14 DEF Gets, GoesOn, n
<1>17. QED
  BY <1>10, <1>11, <1>12, <1>13, <1>15, <1>16 DEF KeptInv, LinesInv

LEMMA RollKeeps ==
    ASSUME KeptInv, Roll
    PROVE  KeptInv' /\ \E path : Rolls(path)
<1> DEFINE n == Len(accepted)
           f == writer.file
           new == Len(files) + 1
           x == [file |-> f, buffer |-> writer.buffer]
           time == IF SizeBreached THEN now.time ELSE 0
           path == UniquePath(writer.day, time)
           name == [i \in DOMAIN files |-> IF i = f THEN path ELSE files[i].name]
<1>1. /\ now' = now /\ lost' = lost /\ Accepts
      /\ pruning' = pruning \cup ({Cutoff} \ Idle)
  BY DEF Roll
<1>2. /\ accepted' \in Seq(Day) /\ Len(accepted') = n + 1 /\ Len(accepted') <= MaxLines
      /\ n \in Nat /\ now.day \in Int /\ now.day \in Day /\ n + 1 \in Line /\ files \in Seq(File)
      /\ \A line \in DOMAIN accepted' : line \in DOMAIN accepted \/ line = n + 1
      /\ \A line \in DOMAIN accepted : accepted'[line] = accepted[line] /\ line # n + 1
      /\ accepted'[n + 1] = now.day
      /\ writer \in Writers /\ writer # None /\ f \in DOMAIN files
  BY <1>1, AcceptedGrows
<1>3. writer' = [file |-> new, day |-> now.day, bytes |-> 1, buffer |-> <<n + 1>>]
  BY DEF Roll, NextLine
<1>4. ended' = ended \cup (IF writer.buffer = <<>> THEN {} ELSE {x})
  BY DEF Roll, Ended
<1>5. files' = Renamed(path)
  BY DEF Roll
<1>6. /\ path \in Archive /\ path.day = writer.day /\ path.time = time /\ path.n <= n
      /\ \A i \in DOMAIN files : files[i].name # path
      /\ \A k \in 0..path.n - 1 : NamedAs([path EXCEPT !.n = k]) # {}
  <2>1. time \in 0..LastTime /\ writer.day \in Day
    BY <1>2, Numbers, WriterFields DEF KeptInv, DaemonTypes, Clock
  <2> HIDE DEF time
  <2>2. QED
    BY <2>1, PathIsFree DEF KeptInv
<1>6a. misplaced' = IF Misplaces(path) THEN misplaced \cup {writer.file} ELSE misplaced
  BY DEF Roll
<1> HIDE DEF path, time
<1>7. files' = WithNew(Named(files, name), now.day)
  <2>1. \A i \in DOMAIN files : files[i] = [files[i] EXCEPT !.name = files[i].name]
    BY <1>2, FileFields DEF File
  <2>2. [i \in DOMAIN files |->
               IF i = writer.file THEN [files[i] EXCEPT !.name = path]
               ELSE IF files[i].name = path THEN [files[i] EXCEPT !.name = Gone]
               ELSE files[i]] = Named(files, name)
    BY <1>6, <2>1 DEF Named
  <2>3. QED
    BY <1>5, <2>2 DEF Renamed, WithNew, NewFile
<1>8. \A i \in DOMAIN files : name[i] \in Archive \cup {Live, Gone}
  BY <1>2, <1>6, FileFields
<1>9. /\ name[f] = path
      /\ \A i \in DOMAIN files \ {f} : name[i] = files[i].name
  BY <1>2
<1> HIDE DEF name
<1>10. /\ files' \in Seq(File) /\ SameLines(files, files')
       /\ RenamedAndNew(files, files', name, Len(files) + 1, now.day)
  BY <1>2, <1>7, <1>8, FilesWithAnother
<1> HIDE DEF new, f, n
<1>11. /\ new \notin DOMAIN files /\ DOMAIN files' = DOMAIN files \cup {new}
       /\ files'[new].name = Live /\ files'[new].lines = <<>> /\ files'[new].at = now.day
       /\ \A j \in DOMAIN files : files'[j].lines = files[j].lines /\ files'[j].at = files[j].at
       /\ files'[f].name = path
       /\ \A j \in DOMAIN files \ {f} : files'[j].name = files[j].name
  BY <1>2, <1>9, <1>10 DEF RenamedAndNew, new
<1>12. new \in Nat
  BY <1>2 DEF new
<1>13. /\ writer' \in Writers /\ writer' # None /\ writer'.file = new
       /\ writer'.day = now.day /\ writer'.buffer = <<n + 1>>
  <2>1. <<n + 1>> \in Seq(Line)
    BY <1>2
  <2>2. writer' \in Writers
    BY <1>2, <1>3, <1>12, <2>1 DEF Writers
  <2>3. QED
    BY <1>3, <2>2, WriterFields
<1>14. StreamEnds(ended, ended', x, writer)
  BY <1>2, <1>4, EndedStreams DEF f
<1>15. x \in [file : DOMAIN files, buffer : Seq(Line)] /\ x.file = f /\ x.buffer = writer.buffer
  BY <1>2, WriterFields
<1>16. \A g \in ended' : g \in ended \/ (g = x /\ writer.buffer # <<>>)
  BY <1>4
<1>17. \A line : InWriter(writer', line) <=> line = n + 1
  BY <1>13, OneHasOne DEF InWriter
<1> HIDE DEF x
<1>18. Once(files', ended', writer') /\ Somewhere(files', ended', writer', Len(accepted'), lost')
  <2>1. Once(files, ended, writer) /\ Somewhere(files, ended, writer, n, lost)
    BY DEF KeptInv, LinesInv, n
  <2>2. WriterEmpty(None)
    BY DEF WriterEmpty, InWriter
  <2>3. Once(files', ended', None) /\ Somewhere(files', ended', None, n, lost)
    BY <1>10, <1>14, <2>1, <2>2, WriterToEnded
  <2>4. WriterGets(None, writer', n + 1)
    BY <1>17, <2>2 DEF WriterGets, WriterEmpty
  <2>5. Once(files', ended', writer') /\ Somewhere(files', ended', writer', n + 1, lost)
    BY <1>2, <2>3, <2>4, LineToWriter
  <2>6. QED
    BY <1>1, <1>2, <2>5
<1>19. Distinct(files', ended', writer')
  <2>1. Distinct(files, ended, writer)
    BY DEF KeptInv, LinesInv
  <2>2. \A j \in DOMAIN files' : IsInjective(files'[j].lines)
    BY <1>11, <2>1, EmptyHasNothing DEF Distinct
  <2>3. \A g \in ended' : IsInjective(g.buffer) /\ g.buffer # <<>>
    BY <1>2, <1>15, <1>16, <2>1 DEF Distinct
  <2>4. IsInjective(writer'.buffer)
    BY <1>13, OneHasOne
  <2>5. QED
    BY <2>2, <2>3, <2>4 DEF Distinct
<1>20. DaemonTypes'
  <2>1. ended' \subseteq [file : DOMAIN files', buffer : Seq(Line)]
    BY <1>11, <1>15, <1>16 DEF KeptInv, DaemonTypes
  <2>2. QED
    BY <1>1, <1>2, <1>10, <1>11, <1>13, <2>1 DEF KeptInv, DaemonTypes
<1>21. NamesInv'
  <2>1. Names(files, writer, n)
    BY DEF KeptInv, NamesInv, n
  <2>2. \A j \in DOMAIN files' : files'[j].name = Live => j = new
    <3>1. \A j \in DOMAIN files \ {f} : files[j].name # Live
      BY <1>2, <2>1 DEF Names, f
    <3>2. QED
      BY <1>6, <1>11, <3>1, Numbers
  <2>3. \A j \in DOMAIN files' : files'[j].name \in Archive => files'[j].name.n < n + 1
    <3>1. \A i \in DOMAIN files : files[i].name \in Archive =>
             files[i].name.n \in Int /\ files[i].name.n < n
      BY <2>1 DEF Names, Archive
    <3>2. path.n \in Int
      BY <1>6 DEF Archive
    <3>3. path.n < n + 1
      BY <1>2, <1>6, <3>2
    <3>4. \A i \in DOMAIN files : files[i].name \in Archive => files[i].name.n < n + 1
      BY <1>2, <3>1
    <3>5. QED
      BY <1>11, <3>3, <3>4, Numbers
  <2>4. Names(files', writer', n + 1)
    BY <1>11, <1>13, <2>2, <2>3 DEF Names
  <2>5. QED
    BY <1>2, <2>4 DEF NamesInv
<1>22. \A line, i : On(files', ended', writer', line, i) =>
         On(files, ended, writer, line, i) \/ (line = n + 1 /\ i = new)
  <2> SUFFICES ASSUME NEW line, NEW i, On(files', ended', writer', line, i)
               PROVE  On(files, ended, writer, line, i) \/ (line = n + 1 /\ i = new)
    OBVIOUS
  <2>1. CASE InFile(files', line, i)
    BY <1>10, <2>1 DEF On, SameLines
  <2>2. CASE \E g \in ended' : g.file = i /\ InEnded(ended', line, g)
    <3>1. PICK g \in ended' : g.file = i /\ InEnded(ended', line, g)
      BY <2>2
    <3>2. InEnded(ended, line, g) \/ (g = x /\ InWriter(writer, line))
      BY <1>14, <3>1 DEF StreamEnds
    <3>3. QED
      BY <1>15, <3>1, <3>2 DEF On, InEnded, f
  <2>3. CASE InWriter(writer', line) /\ writer'.file = i
    BY <1>13, <1>17, <2>3
  <2>4. QED
    BY <2>1, <2>2, <2>3 DEF On
<1>23. AgesInv'
  <2>1. Ages(accepted, now.day, files, ended, writer, pruning)
    BY DEF KeptInv, AgesInv
  <2>3. \A line : ~On(files, ended, writer, line, new)
    BY <1>2, <1>11 DEF On, InFile, KeptInv, DaemonTypes, f
  <2>4. \A i : ~On(files, ended, writer, n + 1, i)
    <3>1. n + 1 \notin 1..n
      BY <1>2
    <3>2. QED
      BY <3>1 DEF KeptInv, LinesInv, Somewhere, On, n
  <2>5. InTime(accepted', now.day, files', ended', writer')
    <3> SUFFICES ASSUME NEW line \in DOMAIN accepted', NEW i \in DOMAIN files',
                        On(files', ended', writer', line, i)
                 PROVE  /\ files'[i].name \in Archive => accepted'[line] <= files'[i].name.day
                        /\ files'[i].name = Gone => accepted'[line] < now.day - Retention
                        /\ files'[i].name = Live /\ files'[i].lines # <<>> =>
                              accepted'[line] <= files'[i].at
                        /\ i = new => accepted'[line] <= now.day
      BY <1>13 DEF InTime
    <3>1. CASE i = new
      <4>1. accepted'[line] = now.day
        BY <1>2, <1>22, <2>3, <3>1
      <4>2. QED
        BY <1>2, <1>11, <3>1, <4>1, Numbers
    <3>2. CASE i # new
      <4>1. i \in DOMAIN files /\ On(files, ended, writer, line, i)
        BY <1>11, <1>22, <3>2
      <4>2. line \in DOMAIN accepted /\ accepted'[line] = accepted[line]
        BY <1>2, <2>4, <4>1
      <4>3. /\ files[i].name \in Archive => accepted[line] <= files[i].name.day
            /\ files[i].name = Gone => accepted[line] < now.day - Retention
            /\ files[i].name = Live /\ files[i].lines # <<>> => accepted[line] <= files[i].at
            /\ writer.file = i => accepted[line] <= writer.day
        BY <1>2, <2>1, <4>1, <4>2 DEF Ages, InTime
      <4>4. CASE i = f
        BY <1>6, <1>11, <3>2, <4>2, <4>3, <4>4, Numbers DEF f
      <4>5. CASE i # f
        BY <1>11, <3>2, <4>1, <4>2, <4>3, <4>5
      <4>6. QED
        BY <4>4, <4>5
    <3>3. QED
      BY <3>1, <3>2
  <2>6. \A line \in DOMAIN accepted' : accepted'[line] <= now.day
    BY <1>2, <2>1 DEF Ages
  <2>7. \A j \in DOMAIN files' : files'[j].at <= now.day
    BY <1>2, <1>11, <2>1 DEF Ages
  <2>8. \A cutoff \in pruning' : cutoff \in Int /\ cutoff <= now.day - Retention
    <3>1. Cutoff = now.day - Retention /\ Cutoff \in Int
      BY <1>2, Numbers DEF Cutoff
    <3>2. \A cutoff \in pruning' : cutoff \in pruning \/ cutoff = Cutoff
      BY <1>1
    <3>3. QED
      BY <2>1, <3>1, <3>2 DEF Ages
  <2>9. Ages(accepted', now.day, files', ended', writer', pruning')
    BY <1>2, <1>11, <1>13, <2>5, <2>6, <2>7, <2>8 DEF Ages
  <2>10. QED
    BY <1>1, <2>9 DEF AgesInv
<1>24. Rolls(path)
  <2>1. StampOf(path)
    BY <1>6 DEF StampOf, NamedAs, time
  <2>2. Adds(new)
    BY <1>10, <1>11 DEF Adds, RenamedAndNew, new
  <2>3. /\ files'[writer.file].name = path
        /\ \A j \in DOMAIN files \ {writer.file} : files'[j].name = files[j].name
    BY <1>11 DEF f
  <2>4. \A line, i : On(files', ended', writer', line, i) =>
           On(files, ended, writer, line, i) \/ (line = Len(accepted) + 1 /\ i = new)
    BY <1>22 DEF n
  <2>5. writer.file \in DOMAIN files /\ writer # None
    BY <1>2 DEF f
  <2>6. QED
    BY <1>10, <1>11, <1>13, <1>6a, <2>1, <2>2, <2>3, <2>4, <2>5 DEF Rolls
<1>25. QED
  BY <1>18, <1>19, <1>20, <1>21, <1>23, <1>24 DEF KeptInv, LinesInv

-----------------------------------------------------------------------------
(* The invariant, and what follows. *)

LEMMA KeptStep ==
    ASSUME KeptInv, [Next]_vars
    PROVE  KeptInv'
<1>1. ASSUME UNCHANGED <<now, accepted, files, writer, ended, pruning, lost>>  PROVE KeptInv'
  BY <1>1 DEF KeptInv, DaemonTypes, NamesInv, LinesInv, AgesInv
<1>2. CASE Daemon
  BY <1>2, OpenKeeps, WriteKeeps, RollKeeps, EndKeeps, FlushKeeps, FlushEndedKeeps, PruneKeeps,
     CrashKeeps DEF Daemon
<1>3. CASE Command
  <2>1. UNCHANGED <<now, accepted, files, writer, ended, pruning, lost>>
    BY <1>3, CommandsOnlyRead
  <2>2. QED
    BY <1>1, <2>1
<1>4. CASE Tick
  BY <1>4, TickKeeps
<1>5. CASE UNCHANGED vars
  <2>1. UNCHANGED <<now, accepted, files, writer, ended, pruning, lost>>
    BY <1>5 DEF vars, daemonVars
  <2>2. QED
    BY <1>1, <2>1
<1>6. QED
  BY <1>2, <1>3, <1>4, <1>5 DEF Next

THEOREM KeptInvariant == Spec => []KeptInv
<1>1. Init => KeptInv
  <2> SUFFICES ASSUME Init PROVE KeptInv
    OBVIOUS
  <2>1. /\ accepted = <<>> /\ files = <<>> /\ writer = None /\ ended = {} /\ pruning = {}
        /\ lost = {} /\ now = [day |-> 1, time |-> 1]
    BY DEF Init
  <2>2. now \in Clock
    BY <2>1, Numbers DEF Clock, Day
  <2>3. DaemonTypes
    BY <2>1, <2>2, Numbers DEF DaemonTypes
  <2>4. DOMAIN files = {} /\ DOMAIN accepted = {} /\ Len(accepted) = 0
    BY <2>1
  <2>5. NamesInv
    BY <2>1, <2>4 DEF NamesInv, Names
  <2>6. /\ \A line, i : ~InFile(files, line, i)
        /\ \A line, e : ~InEnded(ended, line, e)
        /\ \A line : ~InWriter(writer, line)
    BY <2>1, <2>4 DEF InFile, InEnded, InWriter
  <2>7. LinesInv
    <3>1. Somewhere(files, ended, writer, Len(accepted), lost)
      <4>1. \A line : line \notin 1..Len(accepted)
        BY <2>4
      <4>2. QED
        BY <2>6, <4>1 DEF Somewhere
    <3>2. Once(files, ended, writer)
      BY <2>6 DEF Once
    <3>3. Distinct(files, ended, writer)
      BY <2>1, <2>4 DEF Distinct
    <3>4. QED
      BY <3>1, <3>2, <3>3 DEF LinesInv
  <2>8. AgesInv
    BY <2>1, <2>4 DEF AgesInv, Ages, InTime
  <2>9. QED
    BY <2>3, <2>5, <2>7, <2>8 DEF KeptInv
<1>2. KeptInv /\ [Next]_vars => KeptInv'
  BY KeptStep
<1>3. QED
  BY <1>1, <1>2, PTL DEF Spec

\* A line that is somewhere, and in no removed file, is in exactly one place.
LEMMA KeptIsOnePlace ==
    ASSUME KeptInv
    PROVE  NothingLost
<1> SUFFICES ASSUME NEW line \in DOMAIN accepted \ lost, accepted[line] >= now.day - Retention
             PROVE  Cardinality(Places(line)) = 1
  BY DEF NothingLost
<1>1. /\ Once(files, ended, writer)
      /\ Somewhere(files, ended, writer, Len(accepted), lost)
      /\ Ages(accepted, now.day, files, ended, writer, pruning)
  BY DEF KeptInv, LinesInv, AgesInv
<1>2. /\ accepted[line] \in Int /\ now.day \in Int /\ Retention \in Int
      /\ DOMAIN accepted = 1..Len(accepted)
  BY AcceptedDays, Numbers DEF KeptInv, DaemonTypes, Clock, Day
<1>3. \A i : InFile(files, line, i) => files[i].name # Gone
  <2> SUFFICES ASSUME NEW i, InFile(files, line, i), files[i].name = Gone  PROVE FALSE
    OBVIOUS
  <2>1. i \in DOMAIN files /\ On(files, ended, writer, line, i)
    BY DEF InFile, On
  <2>2. accepted[line] < now.day - Retention
    BY <1>1, <2>1 DEF Ages, InTime
  <2>3. QED
    BY <1>2, <2>2
<1>4. \A p : p \in Places(line) <=> \/ \E i : p = <<"file", i>> /\ InFile(files, line, i)
                                    \/ \E e : p = <<"ended", e>> /\ InEnded(ended, line, e)
                                    \/ p = <<"writer", writer>> /\ InWriter(writer, line)
  <2>1. \A i : i \in DOMAIN files /\ files[i].name # Gone /\ line \in ToSet(files[i].lines)
                  <=> InFile(files, line, i)
    BY <1>3 DEF InFile
  <2>2. \A e : e \in ended /\ line \in ToSet(e.buffer) <=> InEnded(ended, line, e)
    BY DEF InEnded
  <2>3. \A w : w \in {writer} /\ w # None /\ line \in ToSet(w.buffer)
                  <=> w = writer /\ InWriter(writer, line)
    BY DEF InWriter
  <2>4. QED
    BY <2>1, <2>2, <2>3 DEF Places
<1>5. \E p : Places(line) = {p}
  <2>1. CASE \E i : InFile(files, line, i)
    <3>1. PICK i : InFile(files, line, i)
      BY <2>1
    <3>2. /\ \A j : InFile(files, line, j) => j = i
          /\ \A e : ~InEnded(ended, line, e)
          /\ ~InWriter(writer, line)
      BY <1>1, <3>1 DEF Once
    <3>3. Places(line) = {<<"file", i>>}
      BY <1>4, <3>1, <3>2
    <3>4. QED
      BY <3>3
  <2>2. CASE \E e : InEnded(ended, line, e)
    <3>1. PICK e : InEnded(ended, line, e)
      BY <2>2
    <3>2. /\ \A j : ~InFile(files, line, j)
          /\ \A g : InEnded(ended, line, g) => g = e
          /\ ~InWriter(writer, line)
      BY <1>1, <3>1 DEF Once
    <3>3. Places(line) = {<<"ended", e>>}
      BY <1>4, <3>1, <3>2
    <3>4. QED
      BY <3>3
  <2>3. CASE InWriter(writer, line)
    <3>1. (\A j : ~InFile(files, line, j)) /\ \A e : ~InEnded(ended, line, e)
      BY <1>1, <2>3 DEF Once
    <3>2. Places(line) = {<<"writer", writer>>}
      BY <1>4, <2>3, <3>1
    <3>3. QED
      BY <3>2
  <2>4. line \in 1..Len(accepted) \ lost
    BY <1>2
  <2>5. QED
    BY <1>1, <2>1, <2>2, <2>3, <2>4 DEF Somewhere
<1>6. QED
  BY <1>5, FS_Singleton

\* Every line given to write() is in exactly one place until it is older than the retention window,
\* for any size cap, retention, number of runs and of crashes: rolls, restarts and prunes neither
\* lose nor double one (log/writer.ts).
THEOREM NothingLostTheorem == Spec => []NothingLost
<1>1. KeptInv => NothingLost
  BY KeptIsOnePlace
<1>2. QED
  BY <1>1, KeptInvariant, PTL

-----------------------------------------------------------------------------
(* Types. *)

\* The bounds that DaemonTypes leaves out: the writer counts no more bytes than there were lines.
BytesInv == writer # None => writer.bytes <= Len(accepted)

\* The types of what the commands have, and of the history.
ViewTypes ==
    /\ runs \in 0..MaxRuns
    /\ pruning \subseteq 1 - Retention .. LastDay - Retention
    /\ viewer \in [cmd : Commands \cup {None},
                   pc : {"idle", "read", "failed", "done", "rescan", "follow"},
                   todo : SUBSET (Archive \cup {Live}),
                   file : DOMAIN files \cup {None}, offset : 0..MaxLines]
    /\ printed \in Seq(Line)
    /\ lost \subseteq Line /\ misplaced \subseteq DOMAIN files
    /\ listed \subseteq Line /\ base \subseteq Line /\ outgrown \in BOOLEAN

\* A file has no more lines than were written.
LEMMA SizeIsBounded ==
    ASSUME KeptInv, NEW i \in DOMAIN files
    PROVE  /\ files[i].lines \in Seq(Line) /\ ToSet(files[i].lines) \subseteq Line
           /\ Size(i) = Len(files[i].lines) /\ Size(i) \in 0..MaxLines /\ Size(i) <= Len(accepted)
<1>1. files[i].lines \in Seq(Line)
  BY FileFields DEF KeptInv, DaemonTypes
<1>2. IsInjective(files[i].lines)
  BY DEF KeptInv, LinesInv, Distinct
<1>3. ToSet(files[i].lines) \subseteq 1..Len(accepted)
  BY DEF KeptInv, LinesInv, Somewhere, InFile
<1>4. accepted \in Seq(Day) /\ Len(accepted) \in Nat /\ Len(accepted) <= MaxLines
  BY DEF KeptInv, DaemonTypes
<1>5. Len(files[i].lines) <= Len(accepted)
  BY <1>1, <1>2, <1>3, <1>4, NoLongerThanItsNumbers
<1>6. Size(i) \in 0..MaxLines /\ Size(i) <= Len(accepted) /\ Size(i) = Len(files[i].lines)
  BY <1>1, <1>4, <1>5, Numbers DEF Size
<1>7. ToSet(files[i].lines) \subseteq Line
  BY <1>1 DEF ToSet
<1>8. QED
  BY <1>1, <1>6, <1>7

LEMMA NamedFile ==
    ASSUME NEW name, NamedAs(name) # {}
    PROVE  TheFile(name) \in DOMAIN files /\ files[TheFile(name)].name = name
  BY DEF NamedAs, TheFile

LEMMA BytesKept ==
    ASSUME KeptInv, BytesInv, [Next]_vars
    PROVE  BytesInv'
<1>1. accepted \in Seq(Day) /\ Len(accepted) \in Nat
  BY DEF KeptInv, DaemonTypes
<1>2. writer # None => writer.bytes \in Nat /\ writer \in Writers
  BY WriterFields DEF KeptInv, DaemonTypes
<1>3. CASE Open
  <2>1. accepted' = accepted /\ (writer'.bytes = 0 \/ \E i \in DOMAIN files : writer'.bytes = Size(i))
    BY <1>3, NamedFile DEF Open
  <2>2. QED
    BY <1>1, <2>1, SizeIsBounded DEF BytesInv
<1>4. CASE Write
  <2>1. writer' = WithBytes(writer, Append(writer.buffer, Len(accepted) + 1), writer.bytes + 1)
    BY <1>4 DEF Write, NextLine, WithBytes
  <2>2. writer # None /\ Len(accepted') = Len(accepted) + 1
    BY <1>4, AcceptedGrows DEF Write
  <2>3. writer'.bytes = writer.bytes + 1
    BY <1>2, <2>1, <2>2 DEF WithBytes, Writers
  <2>4. QED
    BY <1>1, <1>2, <2>2, <2>3 DEF BytesInv
<1>5. CASE Roll
  <2>1. writer'.bytes = 1 /\ Len(accepted') = Len(accepted) + 1
    BY <1>5, AcceptedGrows DEF Roll
  <2>2. QED
    BY <1>1, <2>1 DEF BytesInv
<1>6. CASE End
  BY <1>6 DEF End, BytesInv
<1>7. CASE Flush
  <2>1. /\ writer' = WithBuffer(writer, Tail(writer.buffer)) /\ accepted' = accepted
        /\ writer # None
    BY <1>7 DEF Flush, WithBuffer
  <2>2. writer'.bytes = writer.bytes
    BY <1>2, <2>1 DEF WithBuffer, Writers
  <2>3. QED
    BY <2>1, <2>2 DEF BytesInv
<1>8. CASE FlushEnded
  BY <1>8 DEF FlushEnded, BytesInv
<1>9. CASE Prune
  BY <1>9 DEF Prune, BytesInv
<1>10. CASE Crash
  BY <1>10 DEF Crash, BytesInv
<1>11. CASE Tick
  BY <1>11 DEF Tick, BytesInv, daemonVars
<1>12. CASE Command
  <2>1. UNCHANGED <<accepted, writer>>
    BY <1>12, CommandsOnlyRead
  <2>2. QED
    BY <2>1 DEF BytesInv
<1>13. CASE UNCHANGED vars
  BY <1>13 DEF vars, daemonVars, BytesInv
<1>14. QED
  BY <1>3, <1>4, <1>5, <1>6, <1>7, <1>8, <1>9, <1>10, <1>11, <1>12, <1>13 DEF Next, Daemon

\* Lines of a file from some offset on are lines.
LEMMA RestOfFile ==
    ASSUME KeptInv, NEW i \in DOMAIN files, NEW from \in Nat
    PROVE  SubSeq(files[i].lines, from + 1, Size(i)) \in Seq(Line)
<1>1. files[i].lines \in Seq(Line) /\ Size(i) = Len(files[i].lines) /\ Size(i) \in Int
  BY SizeIsBounded
<1>2. \A k \in from + 1 .. Size(i) : k \in 1..Len(files[i].lines)
  BY <1>1
<1>3. \A k \in from + 1 .. Size(i) : files[i].lines[k] \in Line
  BY <1>1, <1>2
<1>4. from + 1 \in Int
  OBVIOUS
<1>5. QED
  BY <1>1, <1>3, <1>4, SubSeqProperties

Viewers == [cmd : Commands \cup {None},
            pc : {"idle", "read", "failed", "done", "rescan", "follow"},
            todo : SUBSET (Archive \cup {Live}),
            file : DOMAIN files \cup {None}, offset : 0..MaxLines]

\* A tailer that starts is well-typed.
LEMMA FollowsTypes ==
    ASSUME KeptInv, ViewTypes, NEW cmd \in Commands \cup {None}, NEW offset \in Nat,
           Follows(cmd, offset)
    PROVE  viewer' \in Viewers /\ printed' \in Seq(Line) /\ base' \subseteq Line /\ files' = files
<1>1. printed \in Seq(Line) /\ files' = files
  BY DEF ViewTypes, Follows
<1>2. CASE NamedAs(Live) # {}
  <2>1. PICK i \in DOMAIN files : i = TheFile(Live)
    BY <1>2, NamedFile
  <2>2. /\ viewer' = [cmd |-> cmd, pc |-> "follow", todo |-> {}, file |-> i, offset |-> Size(i)]
        /\ base' = ToSet(files[i].lines)
        /\ printed' = printed \o SubSeq(files[i].lines, offset + 1, Size(i))
    BY <1>2, <2>1 DEF Follows
  <2>3. Size(i) \in 0..MaxLines /\ ToSet(files[i].lines) \subseteq Line
    BY SizeIsBounded
  <2>4. SubSeq(files[i].lines, offset + 1, Size(i)) \in Seq(Line)
    BY RestOfFile
  <2>5. PICK rest \in Seq(Line) : rest = SubSeq(files[i].lines, offset + 1, Size(i))
    BY <2>4
  <2>6. printed' \in Seq(Line)
    BY <1>1, <2>2, <2>5
  <2>7. viewer' \in Viewers
    BY <2>2, <2>3 DEF Viewers
  <2>8. QED
    BY <1>1, <2>2, <2>3, <2>6, <2>7
<1>3. CASE NamedAs(Live) = {}
  <2>1. /\ viewer' = [cmd |-> cmd, pc |-> "follow", todo |-> {}, file |-> None, offset |-> 0]
        /\ base' = {} /\ printed' = printed
    BY <1>3 DEF Follows
  <2>2. 0 \in 0..MaxLines
    BY Numbers
  <2>3. viewer' \in Viewers
    BY <2>1, <2>2 DEF Viewers
  <2>4. QED
    BY <1>1, <2>1, <2>3
<1>4. QED
  BY <1>2, <1>3

LEMMA ViewerFields ==
    ASSUME ViewTypes
    PROVE  /\ viewer \in Viewers /\ viewer.cmd \in Commands \cup {None} /\ viewer.offset \in Nat
           /\ viewer.todo \subseteq Archive \cup {Live}
<1>1. viewer \in Viewers
  BY DEF ViewTypes, Viewers
<1>2. QED
  BY <1>1, Numbers DEF Viewers

\* Who waits for a live file is `pid tail`.
RescanInv == viewer.pc = "rescan" => "tail" \in Commands

LEMMA RescanKept ==
    ASSUME ViewTypes, RescanInv, [Next]_vars
    PROVE  RescanInv'
<1>1. viewer \in Viewers
  BY ViewerFields
<1>2. CASE viewer' = viewer
  BY <1>2 DEF RescanInv
<1>3. CASE \E cmd \in Commands : Logs(cmd)
  <2>1. viewer'.pc = "read"
    BY <1>1, <1>3 DEF Logs, Viewers
  <2>2. QED
    BY <2>1 DEF RescanInv
<1>4. CASE ReadSegment
  <2>1. viewer'.pc \in {"read", "failed"}
    BY <1>1, <1>4 DEF ReadSegment, Viewers
  <2>2. QED
    BY <2>1 DEF RescanInv
<1>5. CASE HistoryEnds
  <2>1. viewer'.pc \in {"follow", "done"}
    BY <1>1, <1>5 DEF HistoryEnds, Follows, Viewers
  <2>2. QED
    BY <2>1 DEF RescanInv
<1>6. CASE Monitor
  BY <1>6 DEF Monitor, RescanInv
<1>7. CASE Rescan
  <2>1. viewer'.pc = "follow"
    BY <1>7 DEF Rescan, Follows
  <2>2. QED
    BY <2>1 DEF RescanInv
<1>8. CASE Poll
  <2>1. viewer'.pc = "follow"
    BY <1>1, <1>8 DEF Poll, Viewers
  <2>2. QED
    BY <2>1 DEF RescanInv
<1>9. Daemon \/ Tick \/ UNCHANGED vars => viewer' = viewer
  BY DEF Daemon, Tick, vars, viewVars, Open, Write, Roll, End, Flush, FlushEnded, Prune, Crash
<1>10. QED
  BY <1>2, <1>3, <1>4, <1>5, <1>6, <1>7, <1>8, <1>9 DEF Next, Command

\* The commands keep the types of what is theirs.
LEMMA CommandTypes ==
    ASSUME KeptInv, ViewTypes, RescanInv, Command
    PROVE  /\ viewer' \in Viewers /\ printed' \in Seq(Line)
           /\ listed' \subseteq Line /\ base' \subseteq Line /\ outgrown' \in BOOLEAN
<1>1. /\ viewer \in Viewers /\ printed \in Seq(Line) /\ listed \subseteq Line /\ base \subseteq Line
      /\ outgrown \in BOOLEAN
  BY ViewerFields DEF ViewTypes
<1>2. \A cmd \in Commands : Logs(cmd) =>
         /\ viewer' \in Viewers /\ printed' = printed /\ base' = base /\ outgrown' = outgrown
         /\ listed' \subseteq Line
  <2> SUFFICES ASSUME NEW cmd \in Commands, Logs(cmd)
               PROVE  /\ viewer' \in Viewers /\ printed' = printed /\ base' = base
                      /\ outgrown' = outgrown /\ listed' \subseteq Line
    OBVIOUS
  <2> DEFINE there == Archives \cup NamedAs(Live)
             names == {files[i].name : i \in there}
  <2>1. /\ viewer' = [viewer EXCEPT !.cmd = cmd, !.pc = "read", !.todo = names]
        /\ listed' = UNION {ToSet(files[i].lines) : i \in there}
        /\ printed' = printed /\ base' = base /\ outgrown' = outgrown
    BY DEF Logs
  <2>2. \A i \in there : i \in DOMAIN files /\ files[i].name \in Archive \cup {Live}
    BY FileFields DEF Archives, NamedAs, KeptInv, DaemonTypes
  <2>3. names \in SUBSET (Archive \cup {Live})
    BY <2>2
  <2> HIDE DEF names
  <2>4. viewer' \in Viewers
    BY <1>1, <2>1, <2>3 DEF Viewers
  <2>5. \A i \in there : ToSet(files[i].lines) \subseteq Line
    BY <2>2, SizeIsBounded
  <2> HIDE DEF there
  <2>6. listed' \subseteq Line
    BY <2>1, <2>5
  <2>7. QED
    BY <2>1, <2>4, <2>6
<1>3. CASE ReadSegment
  <2>1. PICK name : name = Oldest(viewer.todo)
    OBVIOUS
  <2>2. /\ \/ viewer' = [viewer EXCEPT !.pc = "failed"] /\ printed' = printed
           \/ /\ NamedAs(name) # {} /\ viewer' = [viewer EXCEPT !.todo = viewer.todo \ {name}]
              /\ printed' = printed \o files[TheFile(name)].lines
        /\ listed' = listed /\ base' = base /\ outgrown' = outgrown
    BY <1>3, <2>1 DEF ReadSegment
  <2>3. NamedAs(name) # {} => files[TheFile(name)].lines \in Seq(Line)
    BY NamedFile, SizeIsBounded
  <2>4. printed' \in Seq(Line)
    <3>1. CASE printed' = printed
      BY <1>1, <3>1
    <3>2. CASE NamedAs(name) # {} /\ printed' = printed \o files[TheFile(name)].lines
      <4>1. PICK s \in Seq(Line) : s = files[TheFile(name)].lines
        BY <2>3, <3>2
      <4>2. QED
        BY <1>1, <3>2, <4>1
    <3>3. QED
      BY <2>2, <3>1, <3>2
  <2>5. viewer.todo \ {name} \in SUBSET (Archive \cup {Live})
    BY ViewerFields
  <2>6. viewer' \in Viewers
    BY <1>1, <2>2, <2>5 DEF Viewers
  <2>7. QED
    BY <1>1, <2>2, <2>4, <2>6
<1>4. CASE HistoryEnds
  <2>1. AtEnd \in Nat
    BY NamedFile, SizeIsBounded DEF AtEnd
  <2>2. listed' = {}
    BY <1>4 DEF HistoryEnds
  <2>3. CASE viewer.cmd = "follow"
    <3>1. Follows("follow", AtEnd) /\ "follow" \in Commands \cup {None}
      BY <1>4, <2>3, ViewerFields DEF HistoryEnds
    <3>2. outgrown' = outgrown
      BY <3>1 DEF Follows
    <3>3. viewer' \in Viewers /\ printed' \in Seq(Line) /\ base' \subseteq Line
      BY <2>1, <3>1, FollowsTypes
    <3>4. QED
      BY <1>1, <2>2, <3>2, <3>3
  <2>4. CASE viewer.cmd # "follow"
    <3>1. viewer' = [viewer EXCEPT !.pc = "done"] /\ UNCHANGED <<printed, base, outgrown>>
      BY <1>4, <2>4 DEF HistoryEnds
    <3>2. viewer' \in Viewers
      BY <1>1, <3>1 DEF Viewers
    <3>3. QED
      BY <1>1, <2>2, <3>1, <3>2
  <2>5. QED
    BY <2>3, <2>4
<1>5. CASE Monitor
  <2>1. AtEnd \in Nat
    BY NamedFile, SizeIsBounded DEF AtEnd
  <2>2. listed' = listed /\ "tail" \in Commands \cup {None}
    BY <1>5 DEF Monitor
  <2>3. CASE NamedAs(Live) # {}
    <3>1. Follows("tail", AtEnd)
      BY <1>5, <2>3 DEF Monitor
    <3>2. outgrown' = outgrown
      BY <3>1 DEF Follows
    <3>3. viewer' \in Viewers /\ printed' \in Seq(Line) /\ base' \subseteq Line
      BY <2>1, <2>2, <3>1, FollowsTypes
    <3>4. QED
      BY <1>1, <2>2, <3>2, <3>3
  <2>4. CASE NamedAs(Live) = {}
    <3>1. viewer' = [viewer EXCEPT !.cmd = "tail", !.pc = "rescan"] /\ UNCHANGED <<printed, base, outgrown>>
      BY <1>5, <2>4 DEF Monitor
    <3>2. viewer' \in Viewers
      BY <1>1, <2>2, <3>1 DEF Viewers
    <3>3. QED
      BY <1>1, <2>2, <3>1, <3>2
  <2>5. QED
    BY <2>3, <2>4
<1>6. CASE Rescan
  <2>1. Follows("tail", 0) /\ listed' = listed /\ "tail" \in Commands
    BY <1>6 DEF Rescan, RescanInv
  <2>2. outgrown' = outgrown
    BY <2>1 DEF Follows
  <2>3. QED
    BY <1>1, <2>1, <2>2, FollowsTypes
<1>7. CASE Poll
  <2>1. PICK i \in DOMAIN files : i = TheFile(Live)
    BY <1>7, NamedFile DEF Poll
  <2>2. PICK from : from = IF Size(i) < viewer.offset THEN 0 ELSE viewer.offset
    OBVIOUS
  <2>3. /\ printed' = printed \o SubSeq(files[i].lines, from + 1, Size(i))
        /\ viewer' = [viewer EXCEPT !.file = i, !.offset = Size(i)]
        /\ outgrown' = (outgrown \/ (i # viewer.file /\ from > 0))
        /\ base' = base /\ listed' = listed
    BY <1>7, <2>1, <2>2 DEF Poll
  <2>4. from \in Nat
    BY <2>2, ViewerFields
  <2>5. PICK rest \in Seq(Line) : rest = SubSeq(files[i].lines, from + 1, Size(i))
    BY <2>4, RestOfFile
  <2>6. printed' \in Seq(Line)
    BY <1>1, <2>3, <2>5
  <2>7. viewer' \in Viewers
    BY <1>1, <2>3, SizeIsBounded DEF Viewers
  <2>8. outgrown' \in BOOLEAN
    BY <2>3
  <2>9. QED
    BY <1>1, <2>3, <2>6, <2>7, <2>8
<1>8. QED
  BY <1>1, <1>2, <1>3, <1>4, <1>5, <1>6, <1>7 DEF Command

\* Every step keeps the types of the rest.
LEMMA ViewKept ==
    ASSUME KeptInv, ViewTypes, RescanInv, [Next]_vars
    PROVE  ViewTypes'
<1>1. /\ viewer \in Viewers /\ printed \in Seq(Line) /\ listed \subseteq Line /\ base \subseteq Line
      /\ outgrown \in BOOLEAN /\ lost \subseteq Line /\ misplaced \subseteq DOMAIN files
      /\ runs \in 0..MaxRuns /\ pruning \subseteq 1 - Retention .. LastDay - Retention
  BY ViewerFields DEF ViewTypes
<1>2. DOMAIN files \subseteq DOMAIN files'
  <2>1. files \in Seq(File)
    BY DEF KeptInv, DaemonTypes
  <2>2. CASE UNCHANGED files
    BY <2>2
  <2>3. CASE Open
    BY <2>1, <2>3 DEF Open
  <2>4. CASE Roll
    <3>1. \A path : DOMAIN files \subseteq DOMAIN Renamed(path)
      <4> SUFFICES ASSUME NEW path PROVE DOMAIN files \subseteq DOMAIN Renamed(path)
        OBVIOUS
      <4> DEFINE hs == [i \in DOMAIN files |->
               IF i = writer.file THEN [files[i] EXCEPT !.name = path]
               ELSE IF files[i].name = path THEN [files[i] EXCEPT !.name = Gone]
               ELSE files[i]]
      <4>1. DOMAIN hs = 1..Len(files) /\ Len(files) \in Nat /\ DOMAIN files = 1..Len(files)
        BY <2>1
      <4>2. hs = [i \in 1..Len(files) |-> hs[i]]
        BY <4>1
      <4> HIDE DEF hs
      <4>3. hs \in Seq({hs[i] : i \in DOMAIN hs} \cup {NewFile}) /\ Len(hs) = Len(files)
        <5>1. hs \in [1..Len(files) -> {hs[i] : i \in DOMAIN hs} \cup {NewFile}]
          BY <4>1, <4>2
        <5>2. QED
          BY <4>1, <5>1
      <4>4. DOMAIN Append(hs, NewFile) = 1..Len(files) + 1
        BY <4>1, <4>3
      <4>5. DOMAIN files \subseteq DOMAIN Append(hs, NewFile)
        BY <4>1, <4>4
      <4>6. QED
        BY <4>5 DEF Renamed, hs
    <3>2. QED
      BY <2>4, <3>1 DEF Roll
  <2>5. CASE Flush \/ FlushEnded \/ Prune
    BY <2>5 DEF Flush, FlushEnded, Prune, Flushed
  <2>6. QED
    BY <2>2, <2>3, <2>4, <2>5, CommandsOnlyRead
       DEF Next, Daemon, Write, End, Crash, Tick, vars
<1>3. Viewers \subseteq Viewers'
  BY <1>2 DEF Viewers
<1>4. viewer' \in Viewers' /\ printed' \in Seq(Line) /\ base' \subseteq Line
      /\ outgrown' \in BOOLEAN
  <2>1. CASE Command
    BY <1>3, <2>1, CommandTypes DEF ViewTypes
  <2>2. CASE ~Command
    <3>1. UNCHANGED <<viewer, printed, outgrown>> /\ base' \in {base, {}}
      BY <2>2 DEF Next, Daemon, Tick, vars, viewVars, Open, Write, Roll, End, Flush, FlushEnded,
                  Prune, Crash
    <3>2. QED
      BY <1>1, <1>3, <3>1
  <2>3. QED
    BY <2>1, <2>2
<1>5. listed' \subseteq Line
  <2>1. CASE Command
    BY <2>1, CommandTypes DEF ViewTypes
  <2>2. CASE ~Command
    <3>1. listed' \subseteq listed
      BY <2>2 DEF Next, Daemon, Tick, vars, viewVars, Open, Write, Roll, End, Flush, FlushEnded,
                  Prune, Crash
    <3>2. QED
      BY <1>1, <3>1
  <2>3. QED
    BY <2>1, <2>2
<1>6. lost' \subseteq Line
  <2>1. CASE Crash
    <3>1. \A e \in ended : ToSet(e.buffer) \subseteq Line
      <4>1. \A e \in ended : e.buffer \in Seq(Line)
        BY DEF KeptInv, DaemonTypes
      <4>2. QED
        BY <4>1 DEF ToSet
    <3>2. writer # None => ToSet(writer.buffer) \subseteq Line
      <4>1. writer # None => writer.buffer \in Seq(Line)
        BY WriterFields DEF KeptInv, DaemonTypes
      <4>2. QED
        BY <4>1 DEF ToSet
    <3>3. InMemory \subseteq Line
      BY <3>1, <3>2 DEF InMemory
    <3>4. lost' = lost \cup InMemory
      BY <2>1 DEF Crash
    <3>5. QED
      BY <1>1, <3>3, <3>4
  <2>2. CASE ~Crash
    <3>1. lost' = lost
      BY <2>2, CommandsOnlyRead
         DEF Next, Daemon, Tick, vars, viewVars, Open, Write, Roll, End, Flush, FlushEnded, Prune
    <3>2. QED
      BY <1>1, <3>1
  <2>3. QED
    BY <2>1, <2>2
<1>7. misplaced' \subseteq DOMAIN files'
  <2>1. CASE Roll
    <3>1. writer.file \in DOMAIN files
      BY <2>1, AcceptedGrows DEF Roll
    <3>2. misplaced' \subseteq misplaced \cup {writer.file}
      BY <2>1 DEF Roll
    <3>3. QED
      BY <1>1, <1>2, <3>1, <3>2
  <2>2. CASE ~Roll
    <3>1. misplaced' = misplaced
      BY <2>2, CommandsOnlyRead
         DEF Next, Daemon, Tick, vars, viewVars, Open, Write, Crash, End, Flush, FlushEnded, Prune
    <3>2. QED
      BY <1>1, <1>2, <3>1
  <2>3. QED
    BY <2>1, <2>2
<1>8. runs' \in 0..MaxRuns
  <2>1. CASE Open
    BY <1>1, <2>1, Numbers DEF Open
  <2>2. CASE ~Open
    <3>1. runs' = runs
      BY <2>2, CommandsOnlyRead
         DEF Next, Daemon, Tick, vars, daemonVars, Roll, Write, Crash, End, Flush, FlushEnded, Prune
    <3>2. QED
      BY <1>1, <3>1
  <2>3. QED
    BY <2>1, <2>2
<1>9. pruning' \subseteq 1 - Retention .. LastDay - Retention
  <2>1. CASE Roll
    <3>1. now.day \in 1..LastDay
      BY DEF KeptInv, DaemonTypes, Clock, Day
    <3>2. Cutoff \in 1 - Retention .. LastDay - Retention
      BY <3>1, Numbers DEF Cutoff
    <3>3. QED
      BY <1>1, <2>1, <3>2 DEF Roll
  <2>2. CASE ~Roll
    <3>1. pruning' \subseteq pruning
      BY <2>2, CommandsOnlyRead
         DEF Next, Daemon, Tick, vars, daemonVars, Open, Write, Crash, End, Flush, FlushEnded, Prune
    <3>2. QED
      BY <1>1, <3>1
  <2>3. QED
    BY <2>1, <2>2
<1>10. QED
  BY <1>4, <1>5, <1>6, <1>7, <1>8, <1>9 DEF ViewTypes, Viewers

\* Every variable has its type, for any bounds.
THEOREM TypeCorrect == Spec => []TypeOK
<1>1. Init => BytesInv /\ ViewTypes /\ RescanInv
  <2> SUFFICES ASSUME Init PROVE BytesInv /\ ViewTypes /\ RescanInv
    OBVIOUS
  <2>1. BytesInv
    BY DEF Init, BytesInv
  <2>2. RescanInv
    BY DEF Init, RescanInv
  <2>3. runs \in 0..MaxRuns /\ 0 \in 0..MaxLines
    BY Numbers DEF Init
  <2>4. viewer \in [cmd : Commands \cup {None},
                   pc : {"idle", "read", "failed", "done", "rescan", "follow"},
                   todo : SUBSET (Archive \cup {Live}),
                   file : DOMAIN files \cup {None}, offset : 0..MaxLines]
    BY <2>3 DEF Init
  <2>5. /\ pruning = {} /\ printed \in Seq(Line) /\ lost = {} /\ misplaced = {} /\ listed = {}
        /\ base = {} /\ outgrown = FALSE
    BY DEF Init
  <2>6. ViewTypes
    BY <2>3, <2>4, <2>5 DEF ViewTypes
  <2>7. QED
    BY <2>1, <2>2, <2>6
<1>2. /\ KeptInv /\ BytesInv /\ ViewTypes /\ RescanInv /\ [Next]_vars
      => BytesInv' /\ ViewTypes' /\ RescanInv'
  BY BytesKept, ViewKept, RescanKept
<1>3. KeptInv /\ BytesInv /\ ViewTypes => TypeOK
  <2> SUFFICES ASSUME KeptInv, BytesInv, ViewTypes PROVE TypeOK
    OBVIOUS
  <2>1. DaemonTypes
    BY DEF KeptInv
  <2>2. writer # None => writer \in [file : DOMAIN files, day : Day, bytes : 0..MaxLines,
                                     buffer : Seq(Line)]
    <3>1. Len(accepted) \in Nat /\ Len(accepted) <= MaxLines
      BY <2>1 DEF DaemonTypes
    <3>2. writer # None => writer \in Writers /\ writer.file \in DOMAIN files
      BY <2>1 DEF DaemonTypes
    <3>3. writer # None => writer.bytes \in 0..MaxLines
      BY <3>1, <3>2, Numbers, WriterFields DEF BytesInv
    <3>4. QED
      BY <3>2, <3>3 DEF Writers
  <2>3. QED
    BY <2>1, <2>2 DEF TypeOK, DaemonTypes, ViewTypes
<1>4. QED
  BY <1>1, <1>2, <1>3, KeptInvariant, PTL DEF Spec


-----------------------------------------------------------------------------
(* The order of the files: their stamps, and what they hold. *)

\* No archive of an earlier day will be made.
Reached(fs, w, day) ==
    fs # <<>> /\ day <= fs[Len(fs)].at /\ (w # None => day <= w.day)

\* Nor one of that day.
Sealed(day) == Reached(files, writer, day + 1)

\* What the stamp of archive i says of those that follow it, and its suffix of those before it: a
\* plain one is made by a change of the day, and closes the day.
StampFits(i) ==
    /\ Reached(files, writer, files[i].name.day)
    /\ files[i].name.time = 0 => Sealed(files[i].name.day)
    /\ files[i].name.day = now.day => files[i].name.time <= now.time
    /\ \A k \in 0..files[i].name.n - 1 : NamedAs([files[i].name EXCEPT !.n = k]) # {}

\* The live file is the newest one.
NewestInv ==
    /\ \A i \in DOMAIN files : files[i].name = Live <=> i = Len(files)
    /\ misplaced \subseteq DOMAIN files /\ Len(files) \notin misplaced

StampsInv ==
    /\ \A i \in DOMAIN files : files[i].name \in Archive => StampFits(i)
    /\ \A cutoff \in pruning : Reached(files, writer, cutoff)

\* Archives are listed in the order in which they were made, but for those that are misplaced.
ListedInv ==
    \A i, j \in DOMAIN files :
        i < j /\ files[i].name \in Archive /\ files[j].name \in Archive =>
            /\ files[i].name # files[j].name
            /\ j \notin misplaced => Before(files[i].name, files[j].name)

\* Lines go to files in the order in which they were written.
InodesInv ==
    \A i, j \in DOMAIN files : i < j =>
        \A k, l : On(files, ended, writer, k, i) /\ On(files, ended, writer, l, j) => k < l

OrderInv == NewestInv /\ StampsInv /\ ListedInv /\ InodesInv

(* The steps, by what they do to the directory. *)

\* A step that makes no archive.
Moves ==
    /\ Stays \/ Gets \/ Flushes \/ Prunes \/ Opens
    /\ misplaced' = misplaced /\ pruning' \subseteq pruning

\* A step that makes one.
Makes(path) ==
    /\ Rolls(path) /\ (DayChanged \/ SizeBreached)
    /\ now' = now
    /\ pruning' \subseteq pruning \cup {now.day - Retention}

Later == now.day <= now'.day /\ (now'.day = now.day => now.time <= now'.time)

LEMMA ClockFacts ==
    ASSUME KeptInv
    PROVE  now.day \in Day /\ now.time \in 1..LastTime /\ now.day \in Int /\ now.time \in Int
  BY Numbers DEF KeptInv, DaemonTypes, Clock, Day

LEMMA Shapes ==
    ASSUME KeptInv, [Next]_vars
    PROVE  KeptInv' /\ Later /\ (Moves \/ \E path : Makes(path))
<1>1. KeptInv' /\ now.day \in Int /\ now.time \in Int
  BY KeptStep, ClockFacts
<1>2. now' = now => Later
  BY <1>1 DEF Later
<1>3. ASSUME UNCHANGED <<now, files, writer, ended, pruning, misplaced>>  PROVE Later /\ Moves
  BY <1>2, <1>3 DEF Moves, Stays, OnlyOld, GoesOn
<1>4. CASE Open
  BY <1>2, <1>4, OpenKeeps DEF Open, Moves
<1>5. CASE Write
  BY <1>2, <1>5, WriteKeeps DEF Write, Moves
<1>6. CASE Roll
  <2>1. PICK path : Rolls(path)
    BY <1>6, RollKeeps
  <2>2. Makes(path)
    BY <1>6, <2>1 DEF Roll, Makes, Cutoff
  <2>3. now' = now
    BY <1>6 DEF Roll
  <2>4. QED
    BY <1>1, <1>2, <2>2, <2>3
<1>7. CASE End
  BY <1>2, <1>7, EndKeeps DEF End, Moves
<1>8. CASE Flush
  BY <1>2, <1>8, FlushKeeps DEF Flush, Moves
<1>9. CASE FlushEnded
  BY <1>2, <1>9, FlushEndedKeeps DEF FlushEnded, Moves
<1>10. CASE Prune
  <2>1. pruning' \subseteq pruning /\ now' = now /\ misplaced' = misplaced
    BY <1>10 DEF Prune
  <2>2. QED
    BY <1>1, <1>2, <1>10, <2>1, PruneKeeps DEF Moves
<1>11. CASE Crash
  BY <1>2, <1>11, CrashKeeps DEF Crash, Moves
<1>12. CASE Tick
  <2>1. Stays /\ misplaced' = misplaced /\ pruning' = pruning
    BY <1>12, TickKeeps DEF Tick, daemonVars
  <2>2. Later
    <3>1. now \in [day : Day, time : 1..LastTime]
      BY DEF KeptInv, DaemonTypes, Clock
    <3>2. now' = [now EXCEPT !.time = now.time + 1] \/ now' = [day |-> now.day + 1, time |-> 1]
      BY <1>12 DEF Tick
    <3>3. (now'.day = now.day /\ now'.time = now.time + 1) \/ now'.day = now.day + 1
      BY <3>1, <3>2
    <3>4. QED
      BY <1>1, <3>3 DEF Later
  <2>3. QED
    BY <1>1, <2>1, <2>2 DEF Moves
<1>13. CASE Command
  BY <1>1, <1>3, <1>13, CommandsOnlyRead
<1>14. CASE UNCHANGED vars
  <2>1. UNCHANGED <<now, files, writer, ended, pruning, misplaced>>
    BY <1>14 DEF vars, daemonVars
  <2>2. QED
    BY <1>1, <1>3, <2>1
<1>15. QED
  BY <1>1, <1>4, <1>5, <1>6, <1>7, <1>8, <1>9, <1>10, <1>11, <1>12, <1>13, <1>14 DEF Next, Daemon

LEMMA SameDomain ==
    ASSUME NEW S, NEW fs \in Seq(S), NEW gs \in Seq(S), DOMAIN gs = DOMAIN fs
    PROVE  Len(gs) = Len(fs)
<1>1. DOMAIN fs = 1..Len(fs) /\ DOMAIN gs = 1..Len(gs) /\ Len(fs) \in Nat /\ Len(gs) \in Nat
  OBVIOUS
<1>2. QED
  BY <1>1

LEMMA OneMore ==
    ASSUME NEW S, NEW fs \in Seq(S), NEW gs \in Seq(S), DOMAIN gs = DOMAIN fs \cup {Len(fs) + 1}
    PROVE  Len(gs) = Len(fs) + 1
<1>1. DOMAIN fs = 1..Len(fs) /\ DOMAIN gs = 1..Len(gs) /\ Len(fs) \in Nat /\ Len(gs) \in Nat
  OBVIOUS
<1>2. Len(fs) + 1 \in 1..Len(gs) /\ Len(gs) \in 0..Len(fs) + 1
  BY <1>1
<1>3. QED
  BY <1>1, <1>2

\* The newest file, and that its number is that of no file unless there is one.
LEMMA NewestFile ==
    ASSUME KeptInv
    PROVE  /\ files \in Seq(File) /\ Len(files) \in Nat /\ DOMAIN files = 1..Len(files)
           /\ Len(files) + 1 \notin DOMAIN files
           /\ files # <<>> <=> Len(files) \in DOMAIN files
           /\ \A i \in DOMAIN files : i \in Int /\ files[i].at \in Int /\ files[i].at <= now.day
<1>1. files \in Seq(File)
  BY DEF KeptInv, DaemonTypes
<1>2. Len(files) \in Nat /\ DOMAIN files = 1..Len(files)
  BY <1>1
<1>3. files # <<>> <=> Len(files) \in DOMAIN files
  BY <1>1, <1>2
<1>4. \A i \in DOMAIN files : i \in Int /\ files[i].at \in Int /\ files[i].at <= now.day
  BY <1>1, FileFields DEF KeptInv, AgesInv, Ages, Day
<1>5. QED
  BY <1>1, <1>2, <1>3, <1>4

\* The writer has the newest file.
LEMMA WriterIsNewest ==
    ASSUME KeptInv, NewestInv, writer # None
    PROVE  /\ writer.file = Len(files) /\ Len(files) \in DOMAIN files
           /\ writer.day \in Day /\ writer.day \in Int /\ writer.day <= now.day
<1>1. writer \in Writers /\ writer.file \in DOMAIN files
  BY DEF KeptInv, DaemonTypes
<1>2. files[writer.file].name = Live
  BY DEF KeptInv, NamesInv, Names
<1>3. writer.file = Len(files)
  BY <1>1, <1>2 DEF NewestInv
<1>4. writer.day \in Day /\ writer.day <= now.day
  BY <1>1, WriterFields DEF KeptInv, AgesInv, Ages
<1>5. QED
  BY <1>1, <1>3, <1>4, Numbers DEF Day

\* A writer that begins with a new file is the first.
LEMMA OpensTheNewest ==
    ASSUME KeptInv, NewestInv, Opens
    PROVE  \/ files' = files
           \/ files = <<>> /\ DOMAIN files = {} /\ \E new : Adds(new)
<1>1. CASE files' = files
  BY <1>1
<1>2. CASE files' # files
  <2>1. (\E new : Adds(new)) /\ \A j \in DOMAIN files : files[j].name # Live
    BY <1>2 DEF Opens
  <2>2. Len(files) \notin DOMAIN files
    BY <2>1 DEF NewestInv
  <2>3. QED
    BY <2>1, <2>2, NewestFile
<1>3. QED
  BY <1>1, <1>2

\* What a step that makes no archive does to the names.
LEMMA MovesNames ==
    ASSUME KeptInv, NewestInv, KeptInv', Moves
    PROVE  /\ \A i \in DOMAIN files' : files'[i].name \in Archive =>
                 i \in DOMAIN files /\ files'[i].name = files[i].name
           /\ DOMAIN files \subseteq DOMAIN files'
           /\ \/ DOMAIN files' = DOMAIN files /\ Len(files') = Len(files)
              \/ files = <<>> /\ DOMAIN files = {} /\ \E new : Adds(new)
<1>1. files \in Seq(File) /\ files' \in Seq(File)
  BY DEF KeptInv, DaemonTypes
<1>2. CASE Stays \/ Gets \/ files' = files
  BY <1>2 DEF Stays, Gets
<1>3. CASE Flushes
  <2>1. PICK f, h : Arrives(f, h)
    BY <1>3 DEF Flushes
  <2>2. DOMAIN files' = DOMAIN files /\ \A j \in DOMAIN files : files'[j].name = files[j].name
    BY <2>1 DEF Arrives
  <2>3. QED
    BY <1>1, <2>2, SameDomain
<1>4. CASE Prunes
  <2>1. PICK cutoff : Removes(cutoff)
    BY <1>4 DEF Prunes
  <2>2. /\ DOMAIN files' = DOMAIN files
        /\ \A j \in DOMAIN files : files'[j].name = Gone \/ files'[j].name = files[j].name
    BY <2>1 DEF Removes
  <2>3. QED
    BY <1>1, <2>2, SameDomain, Numbers
<1>5. CASE Opens
  <2>1. CASE files' = files
    BY <1>2, <2>1
  <2>2. CASE files = <<>> /\ DOMAIN files = {} /\ \E new : Adds(new)
    <3>1. PICK new : Adds(new)
      BY <2>2
    <3>2. DOMAIN files' = {new} /\ files'[new].name = Live
      BY <2>2, <3>1 DEF Adds
    <3>3. QED
      BY <2>2, <3>2, Numbers
  <2>3. QED
    BY <1>5, <2>1, <2>2, OpensTheNewest
<1>6. QED
  BY <1>2, <1>3, <1>4, <1>5 DEF Moves

LEMMA NewestKept ==
    ASSUME KeptInv, NewestInv, [Next]_vars
    PROVE  NewestInv'
<1>1. KeptInv' /\ (Moves \/ \E path : Makes(path))
  BY Shapes
<1>2. files \in Seq(File) /\ files' \in Seq(File) /\ Len(files) \in Nat
  BY <1>1, NewestFile DEF KeptInv, DaemonTypes
<1>3. CASE Moves
  <2>1. misplaced' = misplaced
    BY <1>3 DEF Moves
  <2>2. CASE DOMAIN files' = DOMAIN files /\ Len(files') = Len(files)
    <3>1. \A i \in DOMAIN files : files'[i].name = Live <=> files[i].name = Live
      <4>1. CASE Stays \/ Gets
        BY <4>1 DEF Stays, Gets
      <4>2. CASE Flushes
        BY <4>2 DEF Flushes, Arrives
      <4>3. CASE Prunes
        BY <4>3, Numbers DEF Prunes, Removes, OldOnes
      <4>4. CASE Opens
        <5>1. CASE files' = files
          BY <5>1
        <5>2. CASE DOMAIN files = {}
          BY <5>2
        <5>3. QED
          BY <4>4, <5>1, <5>2, OpensTheNewest
      <4>5. QED
        BY <1>3, <4>1, <4>2, <4>3, <4>4 DEF Moves
    <3>2. QED
      BY <2>1, <2>2, <3>1 DEF NewestInv
  <2>3. CASE files = <<>> /\ DOMAIN files = {} /\ \E new : Adds(new)
    <3>1. PICK new : Adds(new)
      BY <2>3
    <3>2. new = Len(files) + 1 /\ DOMAIN files' = {new} /\ files'[new].name = Live
      BY <2>3, <3>1 DEF Adds
    <3>3. Len(files') = new
      BY <1>2, <2>3, <3>2, OneMore
    <3>4. misplaced' = {}
      BY <2>1, <2>3 DEF NewestInv
    <3>5. QED
      BY <3>2, <3>3, <3>4 DEF NewestInv
  <2>4. QED
    BY <1>1, <1>3, <2>2, <2>3, MovesNames
<1>4. CASE \E path : Makes(path)
  <2>1. PICK path : Makes(path)
    BY <1>4
  <2>2. /\ writer # None /\ Adds(writer'.file) /\ path \in Archive
        /\ files'[writer.file].name = path
        /\ \A j \in DOMAIN files \ {writer.file} : files'[j].name = files[j].name
        /\ misplaced' \subseteq misplaced \cup {writer.file}
    BY <2>1 DEF Makes, Rolls, StampOf
  <2>3. writer.file = Len(files) /\ Len(files) \in DOMAIN files
    BY <2>2, WriterIsNewest
  <2>4. /\ DOMAIN files' = DOMAIN files \cup {Len(files) + 1}
        /\ files'[Len(files) + 1].name = Live
    BY <2>2 DEF Adds
  <2>5. Len(files') = Len(files) + 1 /\ Len(files) + 1 \notin DOMAIN files
    BY <1>2, <2>4, OneMore, NewestFile
  <2>6. \A i \in DOMAIN files : files'[i].name # Live
    BY <2>2, <2>3, Numbers DEF NewestInv
  <2>7. misplaced' \subseteq DOMAIN files
    BY <2>2, <2>3 DEF NewestInv
  <2>8. QED
    BY <2>4, <2>5, <2>6, <2>7 DEF NewestInv
<1>5. QED
  BY <1>1, <1>3, <1>4

\* What the clock and the writer reached, they have behind them.
LEMMA ReachedKept ==
    ASSUME KeptInv, NewestInv, [Next]_vars, NEW d \in Int, Reached(files, writer, d)
    PROVE  Reached(files', writer', d)
<1>1. KeptInv' /\ NewestInv' /\ (Moves \/ \E path : Makes(path))
  BY Shapes, NewestKept
<1>2. /\ files \in Seq(File) /\ files' \in Seq(File) /\ now.day \in Int
      /\ Len(files) \in DOMAIN files /\ d <= files[Len(files)].at
      /\ files[Len(files)].at \in Int /\ files[Len(files)].at <= now.day
      /\ files # <<>> /\ (writer # None => d <= writer.day)
      /\ d <= now.day
  <2>1. files # <<>> /\ d <= files[Len(files)].at /\ (writer # None => d <= writer.day)
    BY DEF Reached
  <2>2. QED
    BY <1>1, <2>1, NewestFile, ClockFacts DEF KeptInv, DaemonTypes
<1>3. GoesOn /\ writer' # None => d <= writer'.day
  BY <1>2 DEF GoesOn
<1>4. ASSUME DOMAIN files' = DOMAIN files, files'[Len(files)].at \in {files[Len(files)].at, now.day},
             writer' # None => d <= writer'.day
      PROVE  Reached(files', writer', d)
  <2>1. Len(files') = Len(files) /\ files' # <<>>
    BY <1>2, <1>4, SameDomain
  <2>2. QED
    BY <1>2, <1>4, <2>1 DEF Reached
<1>5. CASE Stays \/ Gets
  BY <1>3, <1>4, <1>5 DEF Stays, Gets
<1>6. CASE Flushes
  <2>1. PICK f, h : Arrives(f, h)
    BY <1>6 DEF Flushes
  <2>2. DOMAIN files' = DOMAIN files /\ files'[Len(files)].at \in {files[Len(files)].at, now.day}
    BY <1>2, <2>1 DEF Arrives
  <2>3. QED
    BY <1>3, <1>4, <1>6, <2>2 DEF Flushes
<1>7. CASE Prunes
  <2>1. DOMAIN files' = DOMAIN files /\ files'[Len(files)].at = files[Len(files)].at
    BY <1>2, <1>7 DEF Prunes, Removes
  <2>2. QED
    BY <1>3, <1>4, <1>7, <2>1 DEF Prunes
<1>8. CASE Opens
  <2>1. files' = files
    BY <1>2, <1>8, OpensTheNewest
  <2>2. /\ writer'.day \in {files[writer'.file].at, now.day} \/ writer'.day = now.day
        /\ writer' # None
    BY <1>8, <2>1 DEF Opens
  <2>3. writer'.file = Len(files)
    BY <1>1, <2>1, <2>2, WriterIsNewest DEF KeptInv, NamesInv, Names, NewestInv, DaemonTypes
  <2>4. d <= writer'.day
    BY <1>2, <2>2, <2>3
  <2>5. QED
    BY <1>4, <2>1, <2>4
<1>9. CASE \E path : Makes(path)
  <2>1. PICK path : Makes(path)
    BY <1>9
  <2>2. Adds(writer'.file) /\ writer'.day = now.day
    BY <2>1 DEF Makes, Rolls
  <2>3. /\ DOMAIN files' = DOMAIN files \cup {Len(files) + 1}
        /\ files'[Len(files) + 1].at = now.day
    BY <2>2 DEF Adds
  <2>4. Len(files') = Len(files) + 1 /\ files' # <<>>
    BY <1>2, <2>3, OneMore
  <2>5. QED
    BY <1>2, <2>2, <2>3, <2>4 DEF Reached
<1>10. QED
  BY <1>1, <1>5, <1>6, <1>7, <1>8, <1>9 DEF Moves

LEMMA WhereLinesAre ==
    ASSUME KeptInv, NEW line, NEW i, On(files, ended, writer, line, i)
    PROVE  i \in DOMAIN files /\ line \in 1..Len(accepted) /\ line \in Int
<1>1. i \in DOMAIN files
  <2>1. \A e \in ended : e.file \in DOMAIN files
    BY DEF KeptInv, DaemonTypes
  <2>2. InWriter(writer, line) => writer.file \in DOMAIN files
    BY DEF InWriter, KeptInv, DaemonTypes
  <2>3. QED
    BY <2>1, <2>2 DEF On, InFile
<1>2. line \in 1..Len(accepted)
  BY DEF On, KeptInv, LinesInv, Somewhere
<1>3. QED
  BY <1>1, <1>2

LEMMA InodesKept ==
    ASSUME KeptInv, NewestInv, InodesInv, [Next]_vars
    PROVE  InodesInv'
<1> SUFFICES ASSUME NEW i \in DOMAIN files', NEW j \in DOMAIN files', i < j, NEW k, NEW l,
                    On(files', ended', writer', k, i), On(files', ended', writer', l, j)
             PROVE  k < l
  BY DEF InodesInv
<1>1. KeptInv' /\ (Moves \/ \E path : Makes(path))
  BY Shapes
<1>2. /\ Len(accepted) \in Nat /\ Len(files) \in Nat /\ DOMAIN files = 1..Len(files)
      /\ \A line \in 1..Len(accepted) : line < Len(accepted) + 1
      /\ \A n \in DOMAIN files : n \in Int /\ n <= Len(files)
  BY NewestFile DEF KeptInv, DaemonTypes
<1>3. ASSUME On(files, ended, writer, k, i), On(files, ended, writer, l, j)  PROVE k < l
  BY <1>3, WhereLinesAre DEF InodesInv
<1>4. CASE OnlyOld
  BY <1>3, <1>4 DEF OnlyOld
<1>5. ASSUME NEW n, n \notin DOMAIN files \/ n = Len(files), n = Len(files) \/ n = Len(files) + 1,
             \A line, m : On(files', ended', writer', line, m) =>
                \/ On(files, ended, writer, line, m)
                \/ line = Len(accepted) + 1 /\ m = n,
             \A m \in DOMAIN files' : m <= n /\ m \in Int
      PROVE  k < l
  <2>1. CASE On(files, ended, writer, k, i)
    <3>1. k \in 1..Len(accepted)
      BY <2>1, WhereLinesAre
    <3>2. CASE On(files, ended, writer, l, j)
      BY <1>3, <2>1, <3>2
    <3>3. CASE l = Len(accepted) + 1
      BY <1>2, <3>1, <3>3
    <3>4. QED
      BY <1>5, <3>2, <3>3
  <2>2. CASE i = n
    BY <1>2, <1>5, <2>2
  <2>3. QED
    BY <1>5, <2>1, <2>2
<1>6. CASE Gets
  <2>1. writer # None /\ files' = files
    BY <1>6 DEF Gets
  <2>2. writer.file = Len(files)
    BY <2>1, WriterIsNewest
  <2>3. \A line, m : On(files', ended', writer', line, m) =>
           On(files, ended, writer, line, m) \/ (line = Len(accepted) + 1 /\ m = Len(files))
    BY <1>6, <2>2 DEF Gets
  <2>4. QED
    BY <1>2, <1>5, <2>1, <2>3
<1>7. CASE \E path : Makes(path)
  <2>1. PICK path : Makes(path)
    BY <1>7
  <2>2. /\ Adds(writer'.file)
        /\ \A line, m : On(files', ended', writer', line, m) =>
              \/ On(files, ended, writer, line, m)
              \/ line = Len(accepted) + 1 /\ m = writer'.file
    BY <2>1 DEF Makes, Rolls
  <2>3. writer'.file = Len(files) + 1 /\ DOMAIN files' = DOMAIN files \cup {Len(files) + 1}
    BY <2>2 DEF Adds
  <2>4. \A m \in DOMAIN files' : m <= Len(files) + 1 /\ m \in Int
    BY <1>2, <2>3
  <2>5. Len(files) + 1 \notin DOMAIN files
    BY <1>2
  <2>6. QED
    BY <1>5, <2>2, <2>3, <2>4, <2>5
<1>8. QED
  BY <1>1, <1>4, <1>6, <1>7 DEF Moves, Stays, Flushes, Prunes, Opens

LEMMA ArchiveFields ==
    ASSUME NEW name \in Archive
    PROVE  /\ name.day \in Int /\ name.day \in Day /\ name.time \in Int /\ name.time \in 0..LastTime
           /\ name.n \in Nat /\ name.n \in 0..MaxLines
           /\ name # Live /\ name # Gone
           /\ \A k \in 0..MaxLines : /\ [name EXCEPT !.n = k] \in Archive
                                     /\ [name EXCEPT !.n = k].day = name.day
                                     /\ [name EXCEPT !.n = k].n = k
<1>1. name \in [day : Day, time : 0..LastTime, n : 0..MaxLines]
  BY DEF Archive
<1>2. name.day \in Day /\ name.time \in 0..LastTime /\ name.n \in 0..MaxLines
  BY <1>1
<1>3. \A k \in 0..MaxLines : /\ [name EXCEPT !.n = k] \in Archive
                             /\ [name EXCEPT !.n = k].day = name.day
                             /\ [name EXCEPT !.n = k].n = k
  BY <1>1 DEF Archive
<1>4. name # Live /\ name # Gone
  BY Numbers
<1>5. QED
  BY <1>2, <1>3, <1>4, Numbers DEF Day

LEMMA StampsKept ==
    ASSUME KeptInv, NewestInv, StampsInv, [Next]_vars
    PROVE  StampsInv'
<1>1. KeptInv' /\ NewestInv' /\ Later /\ (Moves \/ \E path : Makes(path))
  BY Shapes, NewestKept
<1>2. \A d \in Int : Reached(files, writer, d) => Reached(files', writer', d)
  BY ReachedKept
<1>3. /\ now.day \in Int /\ now.time \in Int /\ now'.day \in Int /\ now'.time \in Int
      /\ now.day <= now'.day /\ (now'.day = now.day => now.time <= now'.time)
      /\ files \in Seq(File) /\ files' \in Seq(File)
      /\ Retention \in Nat
  <2>1. now'.day \in Int /\ now'.time \in Int
    BY <1>1, Numbers DEF KeptInv, DaemonTypes, Clock, Day
  <2>2. QED
    BY <1>1, <2>1, ClockFacts, Numbers DEF Later, KeptInv, DaemonTypes
<1>4. \A i \in DOMAIN files : files[i].name \in Archive =>
         /\ files[i].name.day <= now.day
         /\ Reached(files', writer', files[i].name.day)
         /\ files[i].name.time = 0 => Reached(files', writer', files[i].name.day + 1)
  <2> SUFFICES ASSUME NEW i \in DOMAIN files, files[i].name \in Archive
               PROVE  /\ files[i].name.day <= now.day
                      /\ Reached(files', writer', files[i].name.day)
                      /\ files[i].name.time = 0 => Reached(files', writer', files[i].name.day + 1)
    OBVIOUS
  <2>1. files[i].name.day \in Int /\ files[i].name.day + 1 \in Int
    BY ArchiveFields
  <2>2. Reached(files, writer, files[i].name.day)
    BY DEF StampsInv, StampFits
  <2>3. files[i].name.time = 0 => Reached(files, writer, files[i].name.day + 1)
    BY DEF StampsInv, StampFits, Sealed
  <2>4. files[i].name.day <= now.day
    <3>1. files # <<>> /\ files[i].name.day <= files[Len(files)].at
      BY <2>2 DEF Reached
    <3>2. files[Len(files)].at \in Int /\ files[Len(files)].at <= now.day
      BY <3>1, NewestFile
    <3>3. QED
      BY <1>3, <2>1, <3>1, <3>2
  <2>5. QED
    BY <1>2, <2>1, <2>2, <2>3, <2>4
<1>5. \A i \in DOMAIN files :
         files[i].name \in Archive /\ files[i].name.day = now'.day =>
            files[i].name.time <= now'.time
  <2> SUFFICES ASSUME NEW i \in DOMAIN files, files[i].name \in Archive,
                      files[i].name.day = now'.day
               PROVE  files[i].name.time <= now'.time
    OBVIOUS
  <2>1. now'.day = now.day
    BY <1>3, <1>4
  <2>2. files[i].name.time <= now.time /\ files[i].name.time \in Int
    BY <2>1, ArchiveFields DEF StampsInv, StampFits
  <2>3. QED
    BY <1>3, <2>1, <2>2
<1>6. \A i \in DOMAIN files : files[i].name \in Archive =>
         \A k \in 0..files[i].name.n - 1 :
            \E m \in DOMAIN files : files[m].name = [files[i].name EXCEPT !.n = k]
  BY DEF StampsInv, StampFits, NamedAs
<1>7. CASE Moves
  <2>1. /\ misplaced' = misplaced /\ DOMAIN files \subseteq DOMAIN files'
        /\ \A i \in DOMAIN files' : files'[i].name \in Archive =>
              i \in DOMAIN files /\ files'[i].name = files[i].name
    BY <1>1, <1>7, MovesNames DEF Moves
  <2>2. ASSUME NEW i \in DOMAIN files, files'[i].name \in Archive, files'[i].name = files[i].name
        PROVE  \A k \in 0..files[i].name.n - 1 :
                  \E m \in DOMAIN files' : files'[m].name = [files[i].name EXCEPT !.n = k]
    <3> SUFFICES ASSUME NEW k \in 0..files[i].name.n - 1
                 PROVE  \E m \in DOMAIN files' : files'[m].name = [files[i].name EXCEPT !.n = k]
      OBVIOUS
    <3>1. PICK m \in DOMAIN files : files[m].name = [files[i].name EXCEPT !.n = k]
      BY <1>6, <2>2
    <3>2. k \in 0..MaxLines
      BY <2>2, ArchiveFields, Numbers
    <3>3. files[m].name \in Archive /\ files[m].name.day = files[i].name.day
      BY <2>2, <3>1, <3>2, ArchiveFields
    <3>4. files'[m].name = files[m].name
      <4>1. CASE Stays \/ Gets \/ files' = files
        BY <4>1 DEF Stays, Gets
      <4>2. CASE Flushes
        BY <4>2 DEF Flushes, Arrives
      <4>3. CASE Prunes
        <5>1. PICK cutoff : Removes(cutoff)
          BY <4>3 DEF Prunes
        <5>2. i \notin OldOnes(cutoff)
          BY <2>2, <5>1, Numbers DEF Removes
        <5>3. m \notin OldOnes(cutoff)
          BY <2>2, <3>3, <5>2 DEF OldOnes
        <5>4. QED
          BY <5>1, <5>3 DEF Removes
      <4>4. CASE Opens
        BY <4>1, <4>4, OpensTheNewest
      <4>5. QED
        BY <1>7, <4>1, <4>2, <4>3, <4>4 DEF Moves
    <3>5. QED
      BY <2>1, <3>1, <3>4
  <2>3. \A i \in DOMAIN files' : files'[i].name \in Archive => StampFits(i)'
    <3> SUFFICES ASSUME NEW i \in DOMAIN files', files'[i].name \in Archive
                 PROVE  StampFits(i)'
      OBVIOUS
    <3>1. i \in DOMAIN files /\ files'[i].name = files[i].name
      BY <2>1
    <3>3. /\ Reached(files', writer', files'[i].name.day)
          /\ files'[i].name.time = 0 => Reached(files', writer', files'[i].name.day + 1)
      BY <1>4, <3>1
    <3>4. files'[i].name.day = now'.day => files'[i].name.time <= now'.time
      BY <1>5, <3>1
    <3>5. \A k \in 0..files'[i].name.n - 1 :
             \E m \in DOMAIN files' : files'[m].name = [files'[i].name EXCEPT !.n = k]
      BY <2>2, <3>1
    <3>6. QED
      BY <3>3, <3>4, <3>5 DEF StampFits, Sealed, NamedAs
  <2>4. \A cutoff \in pruning' : Reached(files', writer', cutoff)
    <3>1. \A cutoff \in pruning' : cutoff \in Int /\ Reached(files, writer, cutoff)
      BY <1>7 DEF Moves, StampsInv, KeptInv, AgesInv, Ages
    <3>2. QED
      BY <1>2, <3>1
  <2>5. QED
    BY <2>3, <2>4 DEF StampsInv
<1>8. CASE \E path : Makes(path)
  <2>1. PICK path : Makes(path)
    BY <1>8
  <2>2. /\ writer # None /\ StampOf(path) /\ writer' # None /\ writer'.day = now.day
        /\ Adds(writer'.file)
        /\ files'[writer.file].name = path
        /\ \A j \in DOMAIN files \ {writer.file} : files'[j].name = files[j].name
        /\ DayChanged \/ SizeBreached
        /\ now' = now
    BY <2>1 DEF Makes, Rolls
  <2>3. /\ writer.file = Len(files) /\ Len(files) \in DOMAIN files
        /\ writer.day \in Int /\ writer.day <= now.day
    BY <2>2, WriterIsNewest
  <2>4. /\ DOMAIN files' = DOMAIN files \cup {Len(files) + 1}
        /\ files'[Len(files) + 1].name = Live /\ files'[Len(files) + 1].at = now.day
    BY <2>2 DEF Adds
  <2>5. Len(files') = Len(files) + 1 /\ files' # <<>>
    <3>1. Len(files') = Len(files) + 1 /\ Len(files) \in Nat /\ Len(<<>>) = 0
      BY <1>3, <2>4, OneMore
    <3>2. QED
      BY <3>1
  <2>6. /\ path \in Archive /\ path.day = writer.day
        /\ path.time = IF SizeBreached THEN now.time ELSE 0
        /\ \A k \in 0..path.n - 1 :
              \E m \in DOMAIN files : files[m].name = [path EXCEPT !.n = k]
    BY <2>2 DEF StampOf, NamedAs
  <2>7. ASSUME NEW d \in Int, d <= now.day  PROVE Reached(files', writer', d)
    BY <2>2, <2>4, <2>5, <2>7 DEF Reached
  <2>8. ASSUME NEW name \in Archive, \E m \in DOMAIN files : files[m].name = name
        PROVE  \E m \in DOMAIN files' : files'[m].name = name
    <3>1. PICK m \in DOMAIN files : files[m].name = name
      BY <2>8
    <3>2. m # writer.file
      BY <2>3, <3>1, Numbers DEF NewestInv
    <3>3. QED
      BY <2>2, <2>4, <3>1, <3>2
  <2>9. ASSUME NEW name \in Archive,
               \A k \in 0..name.n - 1 : \E m \in DOMAIN files : files[m].name = [name EXCEPT !.n = k]
        PROVE  \A k \in 0..name.n - 1 : \E m \in DOMAIN files' : files'[m].name = [name EXCEPT !.n = k]
    <3> SUFFICES ASSUME NEW k \in 0..name.n - 1
                 PROVE  \E m \in DOMAIN files' : files'[m].name = [name EXCEPT !.n = k]
      OBVIOUS
    <3>1. k \in 0..MaxLines
      BY ArchiveFields, Numbers
    <3>2. [name EXCEPT !.n = k] \in Archive
      BY <3>1, ArchiveFields
    <3>3. QED
      BY <2>8, <2>9, <3>2
  <2>10. PICK f : f = writer.file
    OBVIOUS
  <2>11. StampFits(f)'
    <3>1. f = writer.file /\ files'[f].name = path
      BY <2>2, <2>10
    <3>2. path.day \in Int /\ path.day <= now.day
      BY <2>3, <2>6
    <3>3. path.time = 0 => path.day < now.day
      <4>1. path.time = 0 => DayChanged
        BY <2>2, <2>6, ClockFacts
      <4>2. DayChanged => path.day # now.day
        BY <2>6 DEF DayChanged
      <4>3. QED
        BY <1>3, <3>2, <4>1, <4>2
    <3>4. path.day = now.day => path.time = now.time
      BY <2>2, <2>6 DEF DayChanged
    <3>5. \A k \in 0..path.n - 1 : \E m \in DOMAIN files' : files'[m].name = [path EXCEPT !.n = k]
      BY <2>6, <2>9
    <3>6. /\ Reached(files', writer', path.day)
          /\ path.time = 0 => Reached(files', writer', path.day + 1)
      BY <1>3, <2>7, <3>2, <3>3
    <3>7. QED
      BY <1>3, <2>2, <3>1, <3>4, <3>5, <3>6 DEF StampFits, Sealed, NamedAs
  <2>12. \A i \in DOMAIN files \ {writer.file} : files[i].name \in Archive => StampFits(i)'
    <3> SUFFICES ASSUME NEW i \in DOMAIN files \ {writer.file}, files[i].name \in Archive
                 PROVE  StampFits(i)'
      OBVIOUS
    <3>1. files'[i].name = files[i].name
      BY <2>2
    <3>3. \A k \in 0..files[i].name.n - 1 :
             \E m \in DOMAIN files' : files'[m].name = [files[i].name EXCEPT !.n = k]
      BY <1>6, <2>9
    <3>4. QED
      BY <1>4, <1>5, <3>1, <3>3 DEF StampFits, Sealed, NamedAs
  <2>13. \A j \in DOMAIN files \ {f} : files'[j].name = files[j].name
    BY <2>2, <2>10
  <2>14. \A i \in DOMAIN files' : files'[i].name \in Archive => StampFits(i)'
    BY <2>4, <2>10, <2>11, <2>12, <2>13, Numbers
  <2>15. \A cutoff \in pruning' : Reached(files', writer', cutoff)
    <3>1. \A cutoff \in pruning' : cutoff \in pruning \/ cutoff = now.day - Retention
      BY <2>1 DEF Makes
    <3>2. \A cutoff \in pruning : cutoff \in Int /\ Reached(files, writer, cutoff)
      BY DEF StampsInv, KeptInv, AgesInv, Ages
    <3>3. Reached(files', writer', now.day - Retention)
      BY <1>3, <2>7
    <3>4. QED
      BY <1>2, <3>1, <3>2, <3>3
  <2>16. QED
    BY <2>14, <2>15 DEF StampsInv
<1>9. QED
  BY <1>1, <1>7, <1>8

\* The time by which archives of a day are listed.
TimeKey(name) == IF name.time = 0 /\ name.n = 0 THEN LastTime + 1 ELSE name.time

LEMMA BeforeIs ==
    ASSUME NEW a \in Archive, NEW b \in Archive
    PROVE  /\ TimeKey(a) \in Nat /\ TimeKey(b) \in Nat
           /\ SuffixOrder[a.n] \in Nat /\ SuffixOrder[b.n] \in Nat
           /\ Before(a, b) <=> \/ a.day < b.day
                               \/ a.day = b.day /\ TimeKey(a) < TimeKey(b)
                               \/ /\ a.day = b.day /\ TimeKey(a) = TimeKey(b)
                                  /\ SuffixOrder[a.n] < SuffixOrder[b.n]
<1>1. /\ Key(a)[1] = a.day /\ Key(a)[2] = TimeKey(a) /\ Key(a)[3] = SuffixOrder[a.n]
      /\ Key(b)[1] = b.day /\ Key(b)[2] = TimeKey(b) /\ Key(b)[3] = SuffixOrder[b.n]
  BY DEF Key, TimeKey
<1>2. /\ TimeKey(a) \in Nat /\ TimeKey(b) \in Nat
      /\ SuffixOrder[a.n] \in Nat /\ SuffixOrder[b.n] \in Nat
  <2>1. /\ a.time \in 0..LastTime /\ b.time \in 0..LastTime /\ LastTime \in Nat
        /\ a.n \in 0..MaxLines /\ b.n \in 0..MaxLines
    BY ArchiveFields, Numbers
  <2>2. QED
    BY <2>1, SuffixAssumption DEF TimeKey
<1>3. Live \notin {a, b}
  BY Numbers
<1>4. 1..3 = {1, 2, 3} /\ 1..1 - 1 = {} /\ 1..2 - 1 = {1} /\ 1..3 - 1 = {1, 2}
  OBVIOUS
<1> DEFINE k == Key(a)
           l == Key(b)
<1>5. Before(a, b) <=> \E i \in 1..3 : k[i] < l[i] /\ \A j \in 1..i - 1 : k[j] = l[j]
  BY <1>3 DEF Before
<1> HIDE DEF k, l
<1>6. (\E i \in 1..3 : k[i] < l[i] /\ \A j \in 1..i - 1 : k[j] = l[j]) <=>
         \/ k[1] < l[1]
         \/ k[2] < l[2] /\ k[1] = l[1]
         \/ k[3] < l[3] /\ k[1] = l[1] /\ k[2] = l[2]
  BY <1>4
<1>7. QED
  BY <1>1, <1>2, <1>5, <1>6 DEF k, l

\* The archive that a roll makes is listed after those there are, and has a name of its own.
LEMMA ListedLast ==
    ASSUME KeptInv, NewestInv, StampsInv, writer # None,
           NEW path, StampOf(path), DayChanged \/ SizeBreached,
           NEW i \in DOMAIN files, files[i].name \in Archive
    PROVE  /\ files[i].name # path
           /\ Misplaces(path) \/ Before(files[i].name, path)
<1>1. /\ path \in Archive /\ path.day = writer.day
      /\ path.time = IF SizeBreached THEN now.time ELSE 0
      /\ \A m \in DOMAIN files : files[m].name # path
      /\ \A k \in 0..path.n - 1 : \E m \in DOMAIN files : files[m].name = [path EXCEPT !.n = k]
  BY DEF StampOf, NamedAs
<1>2. StampFits(i)
  BY DEF StampsInv
<1> PICK name \in Archive : name = files[i].name
  OBVIOUS
<1>3. /\ name.day <= writer.day
      /\ name.time = 0 => name.day + 1 <= writer.day
      /\ name.day = now.day => name.time <= now.time
      /\ \A k \in 0..name.n - 1 : \E m \in DOMAIN files : files[m].name = [name EXCEPT !.n = k]
  BY <1>2 DEF StampFits, Reached, Sealed, NamedAs
<1>4. writer.day \in Int /\ writer.day <= now.day /\ now.time \in 1..LastTime
  BY WriterIsNewest, ClockFacts
<1>5. /\ name.day \in Int /\ path.day \in Int /\ name.time \in 0..LastTime /\ name.n \in Nat
      /\ path.n \in Nat /\ LastTime \in Nat /\ path.n \in 0..MaxLines
  BY <1>1, ArchiveFields, Numbers
<1>6. CASE name.day < writer.day
  BY <1>1, <1>6, BeforeIs
<1>7. CASE ~(name.day < writer.day)
  <2>1. name.day = writer.day
    BY <1>3, <1>4, <1>5, <1>7
  <2>2. name.time # 0
    BY <1>3, <1>4, <1>5, <1>7
  <2>3. TimeKey(name) = name.time
    BY <2>2 DEF TimeKey
  <2>4. CASE ~SizeBreached
    <3>1. path.time = 0
      BY <1>1, <2>4
    <3>2. path.n = 0
      <4>1. SUFFICES ASSUME 0 \in 0..path.n - 1  PROVE FALSE
        BY <1>5
      <4>2. PICK m \in DOMAIN files : files[m].name = [path EXCEPT !.n = 0]
        BY <1>1, <4>1
      <4>3. path \in [day : Day, time : 0..LastTime, n : 0..MaxLines]
        BY <1>1 DEF Archive
      <4>4. /\ files[m].name \in Archive /\ files[m].name.time = 0
            /\ files[m].name.day = writer.day
        <5>1. 0 \in 0..MaxLines
          BY Numbers
        <5>2. QED
          BY <1>1, <3>1, <4>2, <4>3, <5>1 DEF Archive
      <4>5. Reached(files, writer, files[m].name.day + 1)
        BY <4>4 DEF StampsInv, StampFits, Sealed
      <4>6. QED
        BY <1>4, <4>4, <4>5 DEF Reached
    <3>3. TimeKey(path) = LastTime + 1
      BY <3>1, <3>2 DEF TimeKey
    <3>4. Before(name, path)
      BY <1>1, <1>5, <2>1, <2>3, <3>3, BeforeIs
    <3>5. QED
      BY <1>1, <3>4
  <2>5. CASE SizeBreached /\ ~DayChanged
    <3>1. path.time = now.time /\ writer.day = now.day
      BY <1>1, <2>5 DEF DayChanged
    <3>2. TimeKey(path) = now.time /\ name.time <= now.time
      BY <1>3, <1>4, <2>1, <3>1 DEF TimeKey
    <3>3. CASE name.time = now.time
      <4>1. name \in [day : Day, time : 0..LastTime, n : 0..MaxLines]
        BY DEF Archive
      <4>2. path \in [day : Day, time : 0..LastTime, n : 0..MaxLines]
        BY <1>1 DEF Archive
      <4>3. [name EXCEPT !.n = path.n] = path
        BY <1>1, <2>1, <3>1, <3>3, <4>1, <4>2
      <4>4. path.n \notin 0..name.n - 1
        BY <1>1, <1>3, <4>3
      <4>5. path.n # name.n
        BY <1>1, <2>1, <3>1, <3>3, <4>1, <4>2
      <4>6. name.n < path.n
        BY <1>5, <4>4, <4>5
      <4>7. path.n < 10 => SuffixOrder[name.n] < SuffixOrder[path.n]
        BY <1>5, <4>6, ArchiveFields, SuffixAssumption
      <4>8. path.n < 10 => Before(name, path)
        BY <1>1, <2>1, <2>3, <3>2, <3>3, <4>7, BeforeIs
      <4>9. QED
        BY <1>1, <1>5, <4>8 DEF Misplaces
    <3>4. CASE name.time # now.time
      <4>1. name.time < now.time
        BY <1>4, <1>5, <3>2, <3>4
      <4>2. Before(name, path)
        BY <1>1, <2>1, <2>3, <3>2, <4>1, BeforeIs
      <4>3. QED
        BY <1>1, <4>2
    <3>5. QED
      BY <3>3, <3>4
  <2>6. QED
    BY <1>1, <2>4, <2>5 DEF Misplaces
<1>8. QED
  BY <1>6, <1>7

LEMMA ListedKept ==
    ASSUME KeptInv, NewestInv, StampsInv, ListedInv, [Next]_vars
    PROVE  ListedInv'
<1>1. KeptInv' /\ (Moves \/ \E path : Makes(path))
  BY Shapes
<1>2. CASE Moves
  <2>1. /\ misplaced' = misplaced
        /\ \A i \in DOMAIN files' : files'[i].name \in Archive =>
              i \in DOMAIN files /\ files'[i].name = files[i].name
    BY <1>1, <1>2, MovesNames DEF Moves
  <2>2. QED
    BY <2>1 DEF ListedInv
<1>3. CASE \E path : Makes(path)
  <2>1. PICK path : Makes(path)
    BY <1>3
  <2>2. /\ writer # None /\ StampOf(path) /\ Adds(writer'.file)
        /\ files'[writer.file].name = path
        /\ \A j \in DOMAIN files \ {writer.file} : files'[j].name = files[j].name
        /\ misplaced' = IF Misplaces(path) THEN misplaced \cup {writer.file} ELSE misplaced
        /\ DayChanged \/ SizeBreached
    BY <2>1 DEF Makes, Rolls
  <2>3. writer.file = Len(files)
    BY <2>2, WriterIsNewest
  <2>4. /\ DOMAIN files' = DOMAIN files \cup {Len(files) + 1}
        /\ files'[Len(files) + 1].name = Live
    BY <2>2 DEF Adds
  <2> SUFFICES ASSUME NEW i \in DOMAIN files', NEW j \in DOMAIN files', i < j,
                      files'[i].name \in Archive, files'[j].name \in Archive
               PROVE  /\ files'[i].name # files'[j].name
                      /\ j \notin misplaced' => Before(files'[i].name, files'[j].name)
    BY DEF ListedInv
  <2>5. i \in DOMAIN files /\ j \in DOMAIN files
    BY <2>4, Numbers
  <2>6. i # writer.file /\ files'[i].name = files[i].name
    BY <2>2, <2>3, <2>5, NewestFile
  <2>7. CASE j = writer.file
    BY <2>2, <2>5, <2>6, <2>7, ListedLast
  <2>8. CASE j # writer.file
    <3>1. files'[j].name = files[j].name /\ misplaced \subseteq misplaced'
      BY <2>2, <2>5, <2>8
    <3>2. QED
      BY <2>5, <2>6, <3>1 DEF ListedInv
  <2>9. QED
    BY <2>7, <2>8
<1>4. QED
  BY <1>1, <1>2, <1>3

\* The live file is the newest, archives are listed in the order in which they were made but for
\* those that are misplaced, and lines go to files in the order of write(): whatever rolls,
\* runs, crashes and prunes there are (log/writer.ts, archiveSortKey in log/reader.ts).
THEOREM OrderInvariant == Spec => []OrderInv
<1>1. Init => OrderInv
  <2> SUFFICES ASSUME Init PROVE OrderInv
    OBVIOUS
  <2>1. files = <<>> /\ DOMAIN files = {} /\ misplaced = {} /\ pruning = {}
    BY DEF Init
  <2>2. QED
    BY <2>1 DEF OrderInv, NewestInv, StampsInv, ListedInv, InodesInv
<1>2. KeptInv /\ OrderInv /\ [Next]_vars => OrderInv'
  BY NewestKept, StampsKept, ListedKept, InodesKept DEF OrderInv
<1>3. QED
  BY <1>1, <1>2, KeptInvariant, PTL DEF Spec

-----------------------------------------------------------------------------
(* What a command reads. *)

\* What was printed is in a file.
PrintedInv == \A line \in ToSet(printed) : \E i : InFile(files, line, i)

\* A name to be read is that of a file, or of one that was pruned and will not be used again.
TodoInv ==
    \A name \in viewer.todo :
        IF name = Live THEN files # <<>> ELSE NamedAs(name) # {} \/ Sealed(name.day)

\* What was printed was in files before those to be read.
AheadInv ==
    \A i \in DOMAIN files : files[i].name \in viewer.todo =>
        \A line \in ToSet(printed), j \in DOMAIN files : InFile(files, line, j) =>
            i # j /\ (j \notin misplaced => j < i)

\* What was listed is printed, or to be read, unless a file to be read is gone.
CoverInv ==
    \A line \in listed :
        \/ line \in ToSet(printed)
        \/ \E i : InFile(files, line, i) /\ files[i].name \in viewer.todo
        \/ \E name \in viewer.todo : NamedAs(name) = {}

\* A tailer has not printed what is after its offset, nor anything of another file.
TailInv ==
    /\ viewer.offset = 0 \/ (viewer.file \in DOMAIN files /\ viewer.offset <= Size(viewer.file))
    /\ \A i \in DOMAIN files : files[i].name = Live =>
          \A k \in DOMAIN files[i].lines :
              k > viewer.offset \/ i # viewer.file => files[i].lines[k] \notin ToSet(printed)

ReadInv ==
    /\ PrintedInv
    /\ viewer.pc \in {"idle", "rescan"} => printed = <<>>
    /\ viewer.pc = "read" => TodoInv /\ AheadInv /\ CoverInv
    /\ viewer.pc = "follow" => TailInv

-----------------------------------------------------------------------------
(* The segment that is read next. *)

LEMMA KeyTells ==
    ASSUME NEW a \in Archive, NEW b \in Archive,
           a.day = b.day, TimeKey(a) = TimeKey(b), SuffixOrder[a.n] = SuffixOrder[b.n]
    PROVE  a = b
<1>1. /\ a \in [day : Day, time : 0..LastTime, n : 0..MaxLines]
      /\ b \in [day : Day, time : 0..LastTime, n : 0..MaxLines]
  BY DEF Archive
<1>2. LastTime \in Nat /\ a.time \in 0..LastTime /\ b.time \in 0..LastTime
  BY <1>1, Numbers
<1>3. a.time = b.time
  BY <1>2 DEF TimeKey
<1>4. a.n = b.n
  BY <1>1, SuffixAssumption DEF IsInjective
<1>5. QED
  BY <1>1, <1>3, <1>4

LEMMA OldestIs ==
    ASSUME NEW names, names \subseteq Archive \cup {Live}, names # {}
    PROVE  /\ Oldest(names) \in names
           /\ \A b \in names \ {Oldest(names)} : Before(Oldest(names), b)
<1>1. SUFFICES \E a \in names : \A b \in names \ {a} : Before(a, b)
  BY <1>1 DEF Oldest
<1> DEFINE A == names \cap Archive
<1>2. CASE A = {}
  <2>1. names = {Live}
    BY <1>2
  <2>2. QED
    BY <2>1
<1>3. CASE A # {}
  <2> DEFINE D == {a.day : a \in A}
  <2>1. D \in SUBSET Nat /\ D # {}
    <3>1. \A a \in A : a.day \in Nat
      BY ArchiveFields, Numbers DEF Day
    <3>2. QED
      BY <1>3, <3>1
  <2>2. PICK d \in D : \A y \in D : d <= y
    <3> HIDE DEF D
    <3>1. QED
      BY <2>1, LeastNumber
  <2> DEFINE B == {a \in A : a.day = d}
             T == {TimeKey(a) : a \in B}
  <2>3. T \in SUBSET Nat /\ T # {}
    <3>1. B # {}
      BY <2>2
    <3>2. \A a \in B : TimeKey(a) \in Nat
      BY BeforeIs
    <3>3. QED
      BY <3>1, <3>2
  <2>4. PICK t \in T : \A y \in T : t <= y
    <3> HIDE DEF T
    <3>1. QED
      BY <2>3, LeastNumber
  <2> DEFINE C == {a \in B : TimeKey(a) = t}
             N == {SuffixOrder[a.n] : a \in C}
  <2>5. N \in SUBSET Nat /\ N # {}
    <3>1. C # {}
      BY <2>4
    <3>2. \A a \in C : SuffixOrder[a.n] \in Nat
      BY BeforeIs
    <3>3. QED
      BY <3>1, <3>2
  <2>6. PICK n \in N : \A y \in N : n <= y
    <3> HIDE DEF N
    <3>1. QED
      BY <2>5, LeastNumber
  <2>7. PICK a \in C : SuffixOrder[a.n] = n
    BY <2>6
  <2>8. a \in names /\ a \in Archive /\ a.day = d /\ TimeKey(a) = t
    BY <2>7
  <2>9. \A b \in names \ {a} : Before(a, b)
    <3> SUFFICES ASSUME NEW b \in names \ {a}
                 PROVE  Before(a, b)
      OBVIOUS
    <3>1. CASE b = Live
      BY <2>8, <3>1, Numbers DEF Before
    <3>2. CASE b \in Archive
      <4>1. b \in A /\ a.day <= b.day
        BY <2>2, <2>8, <3>2
      <4>2. a.day = b.day => b \in B /\ TimeKey(a) <= TimeKey(b)
        BY <2>4, <2>8, <4>1
      <4>3. a.day = b.day /\ TimeKey(a) = TimeKey(b) => b \in C /\ SuffixOrder[a.n] <= SuffixOrder[b.n]
        BY <2>6, <2>7, <2>8, <4>2
      <4>4. ~(/\ a.day = b.day /\ TimeKey(a) = TimeKey(b)
              /\ SuffixOrder[a.n] = SuffixOrder[b.n])
        BY <2>8, <3>2, KeyTells
      <4>5. /\ a.day \in Int /\ b.day \in Int
            /\ SuffixOrder[a.n] \in Nat /\ SuffixOrder[b.n] \in Nat
            /\ TimeKey(a) \in Nat /\ TimeKey(b) \in Nat
        BY <2>8, <3>2, ArchiveFields, BeforeIs
      <4>6. \/ a.day < b.day
            \/ a.day = b.day /\ TimeKey(a) < TimeKey(b)
            \/ a.day = b.day /\ TimeKey(a) = TimeKey(b) /\ SuffixOrder[a.n] < SuffixOrder[b.n]
        <5> HIDE DEF A, B, C
        <5>1. QED
          BY <4>1, <4>2, <4>3, <4>4, <4>5
      <4>7. QED
        BY <2>8, <3>2, <4>6, BeforeIs
    <3>3. QED
      BY <3>1, <3>2
  <2>10. QED
    BY <2>8, <2>9
<1>4. QED
  BY <1>2, <1>3

LEMMA BeforeIsOneWay ==
    ASSUME NEW a \in Archive \cup {Live}, NEW b \in Archive \cup {Live}, Before(a, b)
    PROVE  a # Live /\ ~Before(b, a)
<1>1. a # Live
  BY DEF Before
<1>2. CASE b = Live
  BY <1>2 DEF Before
<1>3. CASE b # Live
  <2>1. a \in Archive /\ b \in Archive
    BY <1>1, <1>3
  <2>2. /\ a.day \in Int /\ b.day \in Int
        /\ SuffixOrder[a.n] \in Nat /\ SuffixOrder[b.n] \in Nat
    BY <2>1, ArchiveFields, BeforeIs
  <2>3. /\ TimeKey(a) \in Nat /\ TimeKey(b) \in Nat
        /\ \/ a.day < b.day
           \/ a.day = b.day /\ TimeKey(a) < TimeKey(b)
           \/ a.day = b.day /\ TimeKey(a) = TimeKey(b) /\ SuffixOrder[a.n] < SuffixOrder[b.n]
    BY <2>1, BeforeIs
  <2>4. ~(\/ b.day < a.day
          \/ b.day = a.day /\ TimeKey(b) < TimeKey(a)
          \/ b.day = a.day /\ TimeKey(b) = TimeKey(a) /\ SuffixOrder[b.n] < SuffixOrder[a.n])
    BY <2>2, <2>3
  <2>5. ~Before(b, a)
    BY <2>1, <2>4, BeforeIs
  <2>6. QED
    BY <1>1, <2>5
<1>4. QED
  BY <1>1, <1>2, <1>3

\* Files with a name have names of their own.
LEMMA NameIsOneFile ==
    ASSUME KeptInv, NewestInv, ListedInv, NEW i \in DOMAIN files, NEW j \in DOMAIN files,
           files[i].name = files[j].name, files[i].name # Gone
    PROVE  i = j
<1>1. i \in Int /\ j \in Int /\ files[i].name \in Archive \cup {Live, Gone}
  BY NewestFile, FileFields
<1>2. CASE files[i].name = Live
  BY <1>2 DEF NewestInv
<1>3. CASE files[i].name \in Archive
  <2>1. ~(i < j) /\ ~(j < i)
    BY <1>3 DEF ListedInv
  <2>2. QED
    BY <1>1, <2>1
<1>4. QED
  BY <1>1, <1>2, <1>3

\* Lines stay in the files they are in.
LEMMA LinesStay ==
    ASSUME KeptInv, NewestInv, [Next]_vars
    PROVE  /\ \A line, i : InFile(files, line, i) => InFile(files', line, i)
           /\ \A line, i, j : InFile(files', line, i) /\ InFile(files, line, j) => i = j
<1>1. KeptInv' /\ (Moves \/ \E path : Makes(path))
  BY Shapes
<1>2. \A line, i : InFile(files, line, i) => InFile(files', line, i)
  <2>1. CASE Stays \/ Gets
    BY <2>1 DEF Stays, Gets
  <2>2. CASE Flushes
    BY <2>2 DEF Flushes, Arrives, FileGets
  <2>3. CASE Prunes \/ Opens
    BY <2>3 DEF Prunes, Removes, Opens, SameLines
  <2>4. CASE \E path : Makes(path)
    BY <2>4 DEF Makes, Rolls, SameLines
  <2>5. QED
    BY <1>1, <2>1, <2>2, <2>3, <2>4 DEF Moves
<1>3. Once(files', ended', writer')
  BY <1>1 DEF KeptInv, LinesInv
<1>4. QED
  BY <1>2, <1>3 DEF Once

-----------------------------------------------------------------------------
(* What a command reads, when the directory changes under it. *)

LEMMA TypesOfView ==
    ASSUME TypeOK
    PROVE  ViewTypes
  BY DEF TypeOK, ViewTypes

\* No archive takes a name that a command waits to read.
LEMMA PathIsNotAwaited ==
    ASSUME TodoInv, writer # None, NEW path, StampOf(path), writer.day \in Int
    PROVE  path \notin viewer.todo
<1> SUFFICES ASSUME path \in viewer.todo  PROVE FALSE
  OBVIOUS
<1>1. path \in Archive /\ path.day = writer.day /\ NamedAs(path) = {}
  BY DEF StampOf
<1>2. Sealed(path.day)
  BY <1>1, Numbers DEF TodoInv
<1>3. QED
  BY <1>1, <1>2 DEF Sealed, Reached

\* An archive keeps its name, unless its day is over for good.
LEMMA ArchiveStays ==
    ASSUME KeptInv, NewestInv, StampsInv, [Next]_vars,
           NEW i \in DOMAIN files, files[i].name \in Archive
    PROVE  /\ i \in DOMAIN files'
           /\ \/ files'[i].name = files[i].name
              \/ files'[i].name = Gone /\ Reached(files', writer', files[i].name.day + 1)
<1>1. KeptInv' /\ (Moves \/ \E path : Makes(path))
  BY Shapes
<1>2. CASE Stays \/ Gets \/ files' = files
  BY <1>2 DEF Stays, Gets
<1>3. CASE Flushes
  BY <1>3 DEF Flushes, Arrives
<1>4. CASE Prunes
  <2>1. PICK cutoff : Removes(cutoff)
    BY <1>4 DEF Prunes
  <2>2. CASE i \in OldOnes(cutoff)
    <3>1. files'[i].name = Gone /\ files[i].name.day < cutoff /\ cutoff \in pruning
      BY <2>1, <2>2 DEF Removes, OldOnes
    <3>2. cutoff \in Int /\ files[i].name.day \in Int /\ files[i].name.day + 1 \in Int
      BY <3>1, ArchiveFields DEF KeptInv, AgesInv, Ages
    <3>3. Reached(files, writer, cutoff)
      BY <3>1 DEF StampsInv
    <3>4. Reached(files', writer', cutoff)
      BY <3>2, <3>3, ReachedKept
    <3>5. Reached(files', writer', files[i].name.day + 1)
      <4>1. files' # <<>> /\ files'[Len(files')].at \in Int
        BY <1>1, <3>4, FileFields DEF KeptInv, DaemonTypes, Reached, Day
      <4>2. writer' # None => writer'.day \in Int
        BY <1>1, WriterFields DEF KeptInv, DaemonTypes, Day
      <4>3. QED
        BY <3>1, <3>2, <3>4, <4>1, <4>2 DEF Reached
    <3>6. QED
      BY <2>1, <3>1, <3>5 DEF Removes
  <2>3. CASE i \notin OldOnes(cutoff)
    BY <2>1, <2>3 DEF Removes
  <2>4. QED
    BY <2>2, <2>3
<1>5. CASE Opens
  <2>1. files' = files
    BY <1>5, OpensTheNewest
  <2>2. QED
    BY <1>2, <2>1
<1>6. CASE \E path : Makes(path)
  <2>1. PICK path : Makes(path)
    BY <1>6
  <2>2. /\ writer # None /\ Adds(writer'.file)
        /\ \A j \in DOMAIN files \ {writer.file} : files'[j].name = files[j].name
    BY <2>1 DEF Makes, Rolls
  <2>3. i # writer.file
    BY <2>2, WriterIsNewest, Numbers DEF NewestInv
  <2>4. QED
    BY <2>2, <2>3 DEF Adds
<1>7. QED
  BY <1>1, <1>2, <1>3, <1>4, <1>5, <1>6 DEF Moves

\* What becomes of the files, for one that was there and for one that is added.
LEMMA WhatFilesBecome ==
    ASSUME KeptInv, NewestInv, StampsInv, [Next]_vars
    PROVE  /\ \A i \in DOMAIN files :
                 \/ files'[i].name \in {files[i].name, Gone}
                 \/ i = Len(files) /\ writer # None /\ StampOf(files'[i].name) /\ i = writer.file
           /\ \A i \in DOMAIN files' \ DOMAIN files :
                 /\ i = Len(files) + 1 /\ files'[i].name = Live /\ files'[i].lines = <<>>
                 /\ (files = <<>> \/ writer # None)
           /\ DOMAIN files \subseteq DOMAIN files'
           /\ misplaced \subseteq misplaced'
<1>1. KeptInv' /\ (Moves \/ \E path : Makes(path))
  BY Shapes
<1>2. CASE \E path : Makes(path)
  <2>1. PICK path : Makes(path)
    BY <1>2
  <2>2. /\ writer # None /\ Adds(writer'.file) /\ StampOf(path)
        /\ files'[writer.file].name = path
        /\ \A j \in DOMAIN files \ {writer.file} : files'[j].name = files[j].name
    BY <2>1 DEF Makes, Rolls
  <2>3. writer.file = Len(files)
    BY <2>2, WriterIsNewest
  <2>4. misplaced \subseteq misplaced'
    BY <2>1 DEF Makes, Rolls
  <2>5. /\ DOMAIN files' = DOMAIN files \cup {Len(files) + 1}
        /\ files'[Len(files) + 1].name = Live /\ files'[Len(files) + 1].lines = <<>>
    BY <2>2 DEF Adds
  <2>6. QED
    BY <2>2, <2>3, <2>4, <2>5
<1>3. CASE Moves
  <2>1. /\ misplaced' = misplaced /\ DOMAIN files \subseteq DOMAIN files'
        /\ \/ DOMAIN files' = DOMAIN files
           \/ files = <<>> /\ DOMAIN files = {} /\ \E new : Adds(new)
    BY <1>1, <1>3, MovesNames DEF Moves
  <2>2. \A i \in DOMAIN files : files'[i].name \in {files[i].name, Gone}
    <3>1. CASE Stays \/ Gets \/ files' = files
      BY <3>1 DEF Stays, Gets
    <3>2. CASE Flushes
      BY <3>2 DEF Flushes, Arrives
    <3>3. CASE Prunes
      BY <3>3 DEF Prunes, Removes
    <3>4. CASE Opens
      BY <3>1, <3>4, OpensTheNewest
    <3>5. QED
      BY <1>3, <3>1, <3>2, <3>3, <3>4 DEF Moves
  <2>3. \A i \in DOMAIN files' \ DOMAIN files :
           /\ i = Len(files) + 1 /\ files'[i].name = Live /\ files'[i].lines = <<>>
           /\ (files = <<>> \/ writer # None)
    <3>1. CASE DOMAIN files' = DOMAIN files
      BY <3>1
    <3>2. CASE files = <<>> /\ DOMAIN files = {} /\ \E new : Adds(new)
      <4>1. PICK new : Adds(new)
        BY <3>2
      <4>2. /\ DOMAIN files' = DOMAIN files \cup {new} /\ new = Len(files) + 1
            /\ files'[new].name = Live /\ files'[new].lines = <<>>
        BY <4>1 DEF Adds
      <4>3. QED
        BY <3>2, <4>2
    <3>3. QED
      BY <2>1, <3>1, <3>2
  <2>4. QED
    BY <2>1, <2>2, <2>3
<1>4. QED
  BY <1>1, <1>2, <1>3

LEMMA PrintedKept ==
    ASSUME KeptInv, NewestInv, PrintedInv, printed' = printed, [Next]_vars
    PROVE  PrintedInv'
  BY LinesStay DEF PrintedInv

LEMMA TodoKept ==
    ASSUME KeptInv, NewestInv, StampsInv, ViewTypes, TodoInv, viewer' = viewer, [Next]_vars
    PROVE  TodoInv'
<1> SUFFICES ASSUME NEW name \in viewer.todo
             PROVE  IF name = Live THEN files' # <<>>
                    ELSE NamedAs(name)' # {} \/ Sealed(name.day)'
  BY DEF TodoInv
<1>1. name \in Archive \cup {Live}
  BY ViewerFields
<1>2. CASE name = Live
  <2>1. files # <<>>
    BY <1>2 DEF TodoInv
  <2>2. Len(files) \in DOMAIN files'
    BY <2>1, NewestFile, WhatFilesBecome
  <2>3. QED
    BY <1>2, <2>2
<1>3. CASE name \in Archive /\ NamedAs(name) # {}
  <2>1. PICK i \in DOMAIN files : files[i].name = name
    BY <1>3 DEF NamedAs
  <2>2. i \in DOMAIN files' /\ (files'[i].name = name \/ Sealed(name.day)')
    BY <1>3, <2>1, ArchiveStays DEF Sealed
  <2>3. name # Live
    BY <1>3, Numbers
  <2>4. QED
    BY <2>2, <2>3 DEF NamedAs
<1>4. CASE name \in Archive /\ NamedAs(name) = {}
  <2>1. Sealed(name.day) /\ name.day + 1 \in Int
    BY <1>4, ArchiveFields DEF TodoInv
  <2>2. Sealed(name.day)'
    BY <2>1, ReachedKept DEF Sealed
  <2>3. QED
    BY <1>4, <2>2, Numbers
<1>5. QED
  BY <1>1, <1>2, <1>3, <1>4

\* A file whose name is awaited had it before, or is new and empty.
LEMMA AwaitedFile ==
    ASSUME KeptInv, NewestInv, StampsInv, ViewTypes, TodoInv, [Next]_vars,
           NEW i \in DOMAIN files', files'[i].name \in viewer.todo
    PROVE  \/ i \in DOMAIN files /\ files'[i].name = files[i].name
           \/ i = Len(files) + 1 /\ i \notin DOMAIN files
<1>1. files'[i].name # Gone
  BY ViewerFields, Numbers
<1>2. CASE i \in DOMAIN files
  <2>1. ~(writer # None /\ StampOf(files'[i].name))
    BY PathIsNotAwaited, WriterIsNewest
  <2>2. QED
    BY <1>1, <1>2, <2>1, WhatFilesBecome
<1>3. CASE i \notin DOMAIN files
  BY <1>3, WhatFilesBecome
<1>4. QED
  BY <1>2, <1>3

LEMMA AheadKept ==
    ASSUME KeptInv, NewestInv, StampsInv, ViewTypes, PrintedInv, TodoInv, AheadInv,
           viewer' = viewer, printed' = printed, [Next]_vars
    PROVE  AheadInv'
<1> SUFFICES ASSUME NEW i \in DOMAIN files', files'[i].name \in viewer.todo,
                    NEW line \in ToSet(printed), NEW j \in DOMAIN files', InFile(files', line, j)
             PROVE  i # j /\ (j \notin misplaced' => j < i)
  BY DEF AheadInv
<1>1. InFile(files, line, j) /\ j \in DOMAIN files
  <2>1. PICK m : InFile(files, line, m)
    BY DEF PrintedInv
  <2>2. m = j
    BY <2>1, LinesStay
  <2>3. QED
    BY <2>1, <2>2 DEF InFile
<1>2. CASE i \in DOMAIN files /\ files'[i].name = files[i].name
  <2>1. i # j /\ (j \notin misplaced => j < i)
    BY <1>1, <1>2 DEF AheadInv
  <2>2. misplaced \subseteq misplaced'
    BY WhatFilesBecome
  <2>3. QED
    BY <2>1, <2>2
<1>3. CASE i = Len(files) + 1 /\ i \notin DOMAIN files
  BY <1>1, <1>3, NewestFile
<1>4. QED
  BY <1>2, <1>3, AwaitedFile

-----------------------------------------------------------------------------
(* The order of what is printed. *)

\* Line k may be printed before line l: it was written before, or is in the same file, or in one
\* that is misplaced.
Rank(fs, mx, k, l) ==
    \E i, j : /\ InFile(fs, k, i) /\ InFile(fs, l, j)
              /\ k < l \/ (k # l /\ (i = j \/ i \in mx))

Ranked(fs, mx, s) == \A a, b \in DOMAIN s : a < b => Rank(fs, mx, s[a], s[b])

LEMMA HomeIs ==
    ASSUME KeptInv, NEW line, NEW i, InFile(files, line, i)
    PROVE  HomeOf(line) = i
<1>1. \A j \in DOMAIN files : line \in ToSet(files[j].lines) => j = i
  BY DEF KeptInv, LinesInv, Once, InFile
<1>2. i \in DOMAIN files /\ line \in ToSet(files[i].lines)
  BY DEF InFile
<1>3. QED
  BY <1>1, <1>2 DEF HomeOf

LEMMA RankedIsInOrder ==
    ASSUME KeptInv, Ranked(files, misplaced, printed)
    PROVE  InOrder
<1> SUFFICES ASSUME NEW a \in DOMAIN printed, NEW b \in DOMAIN printed, a < b
             PROVE  \/ printed[a] < printed[b]
                    \/ printed[a] # printed[b] /\ Unordered(printed[a], printed[b])
  BY DEF InOrder
<1>1. Rank(files, misplaced, printed[a], printed[b])
  BY DEF Ranked
<1>2. PICK i, j : /\ InFile(files, printed[a], i) /\ InFile(files, printed[b], j)
                  /\ \/ printed[a] < printed[b]
                     \/ printed[a] # printed[b] /\ (i = j \/ i \in misplaced)
  BY <1>1 DEF Rank
<1>3. HomeOf(printed[a]) = i /\ HomeOf(printed[b]) = j
  BY <1>2, HomeIs
<1>4. QED
  BY <1>2, <1>3 DEF Unordered

\* What is added to a sequence.
LEMMA ConcatHas ==
    ASSUME NEW S, NEW s \in Seq(S), NEW t \in Seq(S)
    PROVE  /\ s \o t \in Seq(S) /\ ToSet(s \o t) = ToSet(s) \cup ToSet(t)
           /\ \A a \in DOMAIN (s \o t) :
                 \/ a \in DOMAIN s /\ (s \o t)[a] = s[a]
                 \/ a > Len(s) /\ a - Len(s) \in DOMAIN t /\ (s \o t)[a] = t[a - Len(s)]
<1>1. /\ s \o t \in Seq(S) /\ Len(s \o t) = Len(s) + Len(t)
      /\ Len(s) \in Nat /\ Len(t) \in Nat
      /\ DOMAIN s = 1..Len(s) /\ DOMAIN t = 1..Len(t) /\ DOMAIN (s \o t) = 1..Len(s) + Len(t)
  OBVIOUS
<1>2. \A a \in 1..Len(s) + Len(t) : (s \o t)[a] = IF a <= Len(s) THEN s[a] ELSE t[a - Len(s)]
  OBVIOUS
<1>3. \A a \in DOMAIN (s \o t) :
         \/ a \in DOMAIN s /\ (s \o t)[a] = s[a]
         \/ a > Len(s) /\ a - Len(s) \in DOMAIN t /\ (s \o t)[a] = t[a - Len(s)]
  <2> SUFFICES ASSUME NEW a \in 1..Len(s) + Len(t)
               PROVE  \/ a \in DOMAIN s /\ (s \o t)[a] = s[a]
                      \/ a > Len(s) /\ a - Len(s) \in DOMAIN t /\ (s \o t)[a] = t[a - Len(s)]
    BY <1>1
  <2>1. CASE a <= Len(s)
    <3>1. a \in 1..Len(s)
      BY <1>1, <2>1
    <3>2. QED
      BY <1>1, <1>2, <2>1, <3>1
  <2>2. CASE ~(a <= Len(s))
    <3>1. a > Len(s) /\ a - Len(s) \in 1..Len(t)
      BY <1>1, <2>2
    <3>2. QED
      BY <1>1, <1>2, <2>2, <3>1
  <2>3. QED
    BY <2>1, <2>2
<1>4. \A a \in DOMAIN s : a \in DOMAIN (s \o t) /\ (s \o t)[a] = s[a]
  <2>1. \A a \in 1..Len(s) : a \in 1..Len(s) + Len(t) /\ a <= Len(s)
    BY <1>1
  <2>2. QED
    BY <1>1, <1>2, <2>1
<1>5. \A a \in DOMAIN t : a + Len(s) \in DOMAIN (s \o t) /\ (s \o t)[a + Len(s)] = t[a]
  <2>1. \A a \in 1..Len(t) : /\ a + Len(s) \in 1..Len(s) + Len(t) /\ ~(a + Len(s) <= Len(s))
                             /\ (a + Len(s)) - Len(s) = a
    BY <1>1
  <2>2. QED
    BY <1>1, <1>2, <2>1
<1>6. ToSet(s \o t) = ToSet(s) \cup ToSet(t)
  <2> DEFINE st == s \o t
  <2>1. /\ \A a \in DOMAIN st : st[a] \in ToSet(s) \cup ToSet(t)
        /\ \A a \in DOMAIN s : s[a] \in ToSet(st)
        /\ \A a \in DOMAIN t : t[a] \in ToSet(st)
    <3> HIDE DEF st
    <3>1. \A a \in DOMAIN st : (\E b \in DOMAIN s : st[a] = s[b]) \/ (\E b \in DOMAIN t : st[a] = t[b])
      BY <1>3 DEF st
    <3>2. \A a \in DOMAIN s : a \in DOMAIN st /\ st[a] = s[a]
      BY <1>4 DEF st
    <3>3. \A a \in DOMAIN t : a + Len(s) \in DOMAIN st /\ st[a + Len(s)] = t[a]
      BY <1>5 DEF st
    <3>4. QED
      BY <3>1, <3>2, <3>3 DEF ToSet
  <2>2. ToSet(st) = ToSet(s) \cup ToSet(t)
    <3> HIDE DEF st
    <3>1. QED
      BY <2>1 DEF ToSet
  <2>3. QED
    BY <2>2
<1>7. QED
  BY <1>1, <1>3, <1>6

LEMMA RankedConcat ==
    ASSUME NEW fs, NEW mx, NEW S, NEW s \in Seq(S), NEW t \in Seq(S),
           Ranked(fs, mx, s), Ranked(fs, mx, t),
           \A k \in ToSet(s), l \in ToSet(t) : Rank(fs, mx, k, l)
    PROVE  Ranked(fs, mx, s \o t)
<1> DEFINE st == s \o t
<1>1. /\ \A a \in DOMAIN st : \/ a \in DOMAIN s /\ st[a] = s[a]
                              \/ a > Len(s) /\ a - Len(s) \in DOMAIN t /\ st[a] = t[a - Len(s)]
      /\ DOMAIN st \subseteq Int /\ DOMAIN s = 1..Len(s) /\ Len(s) \in Nat
  <2>1. st \in Seq(S) /\ DOMAIN s = 1..Len(s) /\ Len(s) \in Nat
    BY ConcatHas
  <2>2. DOMAIN st \subseteq Int
    BY <2>1
  <2>3. QED
    BY <2>1, <2>2, ConcatHas
<1> HIDE DEF st
<1> SUFFICES ASSUME NEW a \in DOMAIN st, NEW b \in DOMAIN st, a < b
             PROVE  Rank(fs, mx, st[a], st[b])
  BY DEF Ranked, st
<1>2. a \in Int /\ b \in Int
  BY <1>1
<1>3. CASE a \in DOMAIN s /\ st[a] = s[a] /\ b \in DOMAIN s /\ st[b] = s[b]
  BY <1>3 DEF Ranked
<1>4. CASE a \in DOMAIN s /\ st[a] = s[a] /\ b - Len(s) \in DOMAIN t /\ st[b] = t[b - Len(s)]
  BY <1>4 DEF ToSet
<1>5. CASE /\ a - Len(s) \in DOMAIN t /\ st[a] = t[a - Len(s)]
           /\ b - Len(s) \in DOMAIN t /\ st[b] = t[b - Len(s)]
  <2>1. a - Len(s) < b - Len(s)
    BY <1>1, <1>2
  <2>2. QED
    BY <1>5, <2>1 DEF Ranked
<1>6. CASE a > Len(s) /\ b \in DOMAIN s
  BY <1>1, <1>2, <1>6
<1>7. QED
  BY <1>1, <1>3, <1>4, <1>5, <1>6

\* The lines of a file from some offset on, and those of all of it.
LEMMA RestIsRanked ==
    ASSUME KeptInv, NEW i \in DOMAIN files, NEW from \in Nat, NEW mx
    PROVE  LET rest == SubSeq(files[i].lines, from + 1, Size(i))
           IN  /\ rest \in Seq(Line) /\ Ranked(files, mx, rest)
               /\ \A line \in ToSet(rest) :
                     /\ InFile(files, line, i)
                     /\ \E k \in DOMAIN files[i].lines : k > from /\ files[i].lines[k] = line
<1>1. files[i].lines \in Seq(Line) /\ Size(i) = Len(files[i].lines) /\ Size(i) \in Int
  BY SizeIsBounded
<1>2. PICK rest : rest = SubSeq(files[i].lines, from + 1, Size(i))
  OBVIOUS
<1>3. rest \in Seq(Line)
  BY <1>2, RestOfFile
<1>4. \A k \in from + 1 .. Size(i) : k \in 1..Len(files[i].lines)
  BY <1>1
<1>5. \A k \in from + 1 .. Size(i) : files[i].lines[k] \in Line
  BY <1>1, <1>4
<1>6. /\ DOMAIN rest = 1..Len(rest) /\ Len(rest) \in Nat
      /\ Len(rest) = IF from + 1 <= Size(i) THEN Size(i) - (from + 1) + 1 ELSE 0
      /\ \A k \in 1..Size(i) - (from + 1) + 1 : rest[k] = files[i].lines[from + 1 + k - 1]
  <2>1. from + 1 \in Int
    OBVIOUS
  <2>2. /\ Len(rest) = IF from + 1 <= Size(i) THEN Size(i) - (from + 1) + 1 ELSE 0
        /\ \A k \in 1..Size(i) - (from + 1) + 1 : rest[k] = files[i].lines[from + 1 + k - 1]
    BY <1>1, <1>2, <1>5, <2>1, SubSeqProperties
  <2>3. QED
    BY <1>3, <2>2
<1>7. \A a \in DOMAIN rest : /\ a \in Int /\ a + from \in DOMAIN files[i].lines /\ a + from > from
                             /\ rest[a] = files[i].lines[a + from]
  <2> SUFFICES ASSUME NEW a \in 1..Len(rest)
               PROVE  /\ a \in Int /\ a + from \in 1..Len(files[i].lines) /\ a + from > from
                      /\ rest[a] = files[i].lines[a + from]
    BY <1>1, <1>6
  <2>1. a \in 1..Size(i) - (from + 1) + 1 /\ from + 1 + a - 1 = a + from
    BY <1>1, <1>6
  <2>2. a + from \in 1..Len(files[i].lines) /\ a + from > from
    BY <1>1, <2>1
  <2>3. QED
    BY <1>6, <2>1, <2>2
<1>8. \A line \in ToSet(rest) :
         /\ InFile(files, line, i)
         /\ \E k \in DOMAIN files[i].lines : k > from /\ files[i].lines[k] = line
  BY <1>7 DEF ToSet, InFile
<1>9. IsInjective(files[i].lines)
  BY DEF KeptInv, LinesInv, Distinct
<1>10. Ranked(files, mx, rest)
  <2> SUFFICES ASSUME NEW a \in DOMAIN rest, NEW b \in DOMAIN rest, a < b
               PROVE  Rank(files, mx, rest[a], rest[b])
    BY DEF Ranked
  <2>1. rest[a] # rest[b]
    <3>1. a + from # b + from /\ a \in Int /\ b \in Int
      BY <1>7
    <3>2. files[i].lines[a + from] # files[i].lines[b + from]
      BY <1>7, <1>9, <3>1 DEF IsInjective
    <3>3. QED
      BY <1>7, <3>2
  <2>2. InFile(files, rest[a], i) /\ InFile(files, rest[b], i)
    BY <1>8 DEF ToSet
  <2>3. QED
    BY <2>1, <2>2 DEF Rank
<1>11. QED
  BY <1>2, <1>3, <1>8, <1>10

LEMMA FileIsRanked ==
    ASSUME KeptInv, NEW i \in DOMAIN files, NEW mx
    PROVE  /\ files[i].lines \in Seq(Line) /\ Ranked(files, mx, files[i].lines)
           /\ \A line : line \in ToSet(files[i].lines) <=> InFile(files, line, i)
<1>1. files[i].lines \in Seq(Line) /\ IsInjective(files[i].lines)
  BY SizeIsBounded DEF KeptInv, LinesInv, Distinct
<1>2. \A line : line \in ToSet(files[i].lines) <=> InFile(files, line, i)
  BY DEF InFile
<1>3. Ranked(files, mx, files[i].lines)
  <2> SUFFICES ASSUME NEW a \in DOMAIN files[i].lines, NEW b \in DOMAIN files[i].lines, a < b
               PROVE  Rank(files, mx, files[i].lines[a], files[i].lines[b])
    BY DEF Ranked
  <2>1. a # b
    BY <1>1
  <2>2. files[i].lines[a] # files[i].lines[b]
    BY <1>1, <2>1 DEF IsInjective
  <2>3. InFile(files, files[i].lines[a], i) /\ InFile(files, files[i].lines[b], i)
    BY DEF InFile, ToSet
  <2>4. QED
    BY <2>2, <2>3 DEF Rank
<1>4. QED
  BY <1>1, <1>2, <1>3

LEMMA RankedKept ==
    ASSUME KeptInv, NewestInv, StampsInv, Ranked(files, misplaced, printed), printed' = printed,
           [Next]_vars
    PROVE  Ranked(files', misplaced', printed')
<1>1. misplaced \subseteq misplaced'
  BY WhatFilesBecome
<1>2. \A k, l : Rank(files, misplaced, k, l) => Rank(files', misplaced', k, l)
  <2> SUFFICES ASSUME NEW k, NEW l, Rank(files, misplaced, k, l)
               PROVE  Rank(files', misplaced', k, l)
    OBVIOUS
  <2>1. PICK i, j : /\ InFile(files, k, i) /\ InFile(files, l, j)
                    /\ k < l \/ (k # l /\ (i = j \/ i \in misplaced))
    BY DEF Rank
  <2>2. InFile(files', k, i) /\ InFile(files', l, j)
    BY <2>1, LinesStay
  <2>3. QED
    BY <1>1, <2>1, <2>2 DEF Rank
<1>3. QED
  BY <1>2 DEF Ranked

-----------------------------------------------------------------------------
(* The daemon's steps, and what a command has read. *)

\* A step that is no command's.
DaemonOnly == Daemon \/ Tick \/ UNCHANGED vars

LEMMA DaemonShows ==
    ASSUME KeptInv, NewestInv, DaemonOnly
    PROVE  /\ viewer' = viewer /\ printed' = printed /\ listed' \subseteq listed
           /\ \A i \in DOMAIN files : files[i].name = Live =>
                 files'[i].name = Live \/ listed' \cap ToSet(files[i].lines) = {}
<1>1. viewer' = viewer /\ printed' = printed /\ listed' \subseteq listed
  BY DEF DaemonOnly, Daemon, Tick, vars, viewVars, Open, Write, Roll, End, Flush, FlushEnded, Prune, Crash
<1>2. CASE files' = files
  BY <1>1, <1>2
<1>3. CASE Roll
  <2>1. writer # None /\ listed' = listed \ ToSet(files[writer.file].lines)
    BY <1>3 DEF Roll, Accepts
  <2>2. \A i \in DOMAIN files : files[i].name = Live => i = writer.file
    BY <2>1, WriterIsNewest DEF NewestInv
  <2>3. listed' \cap ToSet(files[writer.file].lines) = {}
    BY <2>1
  <2>4. QED
    BY <1>1, <2>2, <2>3
<1>4. CASE Open
  <2>1. files' = files \/ DOMAIN files = {}
    BY <1>4, OpenKeeps, OpensTheNewest
  <2>2. QED
    BY <1>1, <1>2, <2>1
<1>5. CASE Flush \/ FlushEnded
  <2>1. PICK f, h : Arrives(f, h)
    BY <1>5, FlushKeeps, FlushEndedKeeps DEF Flushes
  <2>2. \A i \in DOMAIN files : files'[i].name = files[i].name
    BY <2>1 DEF Arrives
  <2>3. QED
    BY <1>1, <2>2
<1>6. CASE Prune
  <2>1. PICK cutoff : Removes(cutoff)
    BY <1>6, PruneKeeps DEF Prunes
  <2>2. \A i \in DOMAIN files : files[i].name = Live => i \notin OldOnes(cutoff)
    BY Numbers DEF OldOnes
  <2>3. \A i \in DOMAIN files : files[i].name = Live => files'[i].name = Live
    BY <2>1, <2>2 DEF Removes
  <2>4. QED
    BY <1>1, <2>3
<1>7. Write \/ End \/ Crash \/ Tick \/ UNCHANGED vars => files' = files
  BY DEF Write, End, Crash, Tick, vars
<1>8. QED
  BY <1>2, <1>3, <1>4, <1>5, <1>6, <1>7 DEF DaemonOnly, Daemon

\* Files only get lines, at their ends.
LEMMA LinesAreAppended ==
    ASSUME KeptInv, NewestInv, [Next]_vars, NEW i \in DOMAIN files
    PROVE  /\ i \in DOMAIN files' /\ Len(files[i].lines) <= Len(files'[i].lines)
           /\ \A k \in DOMAIN files[i].lines :
                 k \in DOMAIN files'[i].lines /\ files'[i].lines[k] = files[i].lines[k]
<1>1. KeptInv' /\ (Moves \/ \E path : Makes(path))
  BY Shapes
<1>2. files[i].lines \in Seq(Line) /\ Len(files[i].lines) \in Nat
  BY SizeIsBounded
<1>3. ASSUME i \in DOMAIN files', files'[i].lines = files[i].lines
      PROVE  /\ i \in DOMAIN files' /\ Len(files[i].lines) <= Len(files'[i].lines)
             /\ \A k \in DOMAIN files[i].lines :
                   k \in DOMAIN files'[i].lines /\ files'[i].lines[k] = files[i].lines[k]
  BY <1>2, <1>3
<1>4. CASE Flushes
  <2>1. PICK f, h : Arrives(f, h)
    BY <1>4 DEF Flushes
  <2>2. CASE i = f
    <3>1. h \in Line /\ i \in DOMAIN files' /\ files'[i].lines = Append(files[i].lines, h)
      BY <2>1, <2>2 DEF Arrives
    <3>2. PICK s \in Seq(Line) : s = files[i].lines
      BY <1>2
    <3>3. /\ Len(s) <= Len(Append(s, h))
          /\ \A k \in DOMAIN s : k \in DOMAIN Append(s, h) /\ Append(s, h)[k] = s[k]
      BY <3>1
    <3>4. QED
      BY <3>1, <3>2, <3>3
  <2>3. CASE i # f
    BY <1>3, <2>1, <2>3 DEF Arrives
  <2>4. QED
    BY <2>2, <2>3
<1>5. CASE Stays \/ Gets
  BY <1>3, <1>5 DEF Stays, Gets
<1>6. CASE Prunes
  <2>1. PICK cutoff : Removes(cutoff)
    BY <1>6 DEF Prunes
  <2>2. QED
    BY <1>3, <2>1 DEF Removes
<1>7. CASE Opens
  <2>1. files' = files
    BY <1>7, OpensTheNewest
  <2>2. QED
    BY <1>3, <2>1
<1>8. CASE \E path : Makes(path)
  <2>1. PICK path : Makes(path)
    BY <1>8
  <2>2. Adds(writer'.file) /\ files'[i].lines = files[i].lines
    BY <2>1 DEF Makes, Rolls
  <2>3. QED
    BY <1>3, <2>2 DEF Adds
<1>9. QED
  BY <1>1, <1>4, <1>5, <1>6, <1>7, <1>8 DEF Moves

LEMMA CoverKept ==
    ASSUME KeptInv, NewestInv, StampsInv, ListedInv, ViewTypes, TodoInv, CoverInv, DaemonOnly
    PROVE  CoverInv'
<1>1. /\ [Next]_vars /\ viewer' = viewer /\ printed' = printed /\ listed' \subseteq listed
      /\ \A i \in DOMAIN files : files[i].name = Live =>
            files'[i].name = Live \/ listed' \cap ToSet(files[i].lines) = {}
  BY DaemonShows DEF DaemonOnly, Next
<1> SUFFICES ASSUME NEW line \in listed'
             PROVE  \/ line \in ToSet(printed)
                    \/ \E i : InFile(files', line, i) /\ files'[i].name \in viewer.todo
                    \/ \E name \in viewer.todo : NamedAs(name)' = {}
  BY <1>1 DEF CoverInv
<1>2. \A name \in viewer.todo : name \in Archive \cup {Live} /\ name # Gone
  BY ViewerFields, Numbers
<1>3. CASE line \in ToSet(printed)
  BY <1>3
<1>4. ASSUME NEW i, InFile(files, line, i), files[i].name \in viewer.todo
      PROVE  \/ \E j : InFile(files', line, j) /\ files'[j].name \in viewer.todo
             \/ \E name \in viewer.todo : NamedAs(name)' = {}
  <2>1. i \in DOMAIN files /\ i \in DOMAIN files' /\ InFile(files', line, i)
    BY <1>1, <1>4, LinesStay, LinesAreAppended DEF InFile
  <2>2. CASE files'[i].name = files[i].name
    BY <1>4, <2>1, <2>2
  <2>3. CASE files'[i].name # files[i].name
    <3>1. files[i].name # Live
      BY <1>1, <1>4, <2>1, <2>3 DEF InFile
    <3>2. ASSUME NEW j \in DOMAIN files', files'[j].name = files[i].name
          PROVE  FALSE
      <4>1. CASE j \in DOMAIN files /\ files'[j].name = files[j].name
        <5>1. j = i
          BY <1>2, <1>4, <2>1, <3>2, <4>1, NameIsOneFile
        <5>2. QED
          BY <2>3, <3>2, <5>1
      <4>2. CASE j \notin DOMAIN files
        BY <1>1, <3>1, <3>2, <4>2, WhatFilesBecome
      <4>3. QED
        BY <1>1, <1>4, <3>2, <4>1, <4>2, AwaitedFile
    <3>3. PICK name \in viewer.todo : name = files[i].name
      BY <1>4
    <3>4. NamedAs(name)' = {}
      BY <3>2, <3>3 DEF NamedAs
    <3>5. QED
      BY <3>3, <3>4
  <2>4. QED
    BY <2>2, <2>3
<1>5. ASSUME NEW name \in viewer.todo, NamedAs(name) = {}
      PROVE  NamedAs(name)' = {}
  <2>1. name # Live
    <3> SUFFICES ASSUME name = Live PROVE FALSE
      OBVIOUS
    <3>1. files # <<>>
      BY DEF TodoInv
    <3>2. Len(files) \in DOMAIN files /\ files[Len(files)].name = Live
      BY <3>1, NewestFile DEF NewestInv
    <3>3. QED
      BY <1>5, <3>2 DEF NamedAs
  <2>2. ASSUME NEW j \in DOMAIN files', files'[j].name = name
        PROVE  FALSE
    <3>1. CASE j \in DOMAIN files /\ files'[j].name = files[j].name
      BY <1>5, <2>2, <3>1 DEF NamedAs
    <3>2. CASE j \notin DOMAIN files
      BY <1>1, <2>1, <2>2, <3>2, WhatFilesBecome
    <3>3. QED
      BY <1>1, <2>2, <3>1, <3>2, AwaitedFile
  <2>3. QED
    BY <2>2 DEF NamedAs
<1>6. line \in listed
  BY <1>1
<1>7. QED
  BY <1>3, <1>4, <1>5, <1>6 DEF CoverInv

LEMMA TailKept ==
    ASSUME KeptInv, NewestInv, StampsInv, ViewTypes, PrintedInv, TailInv,
           viewer' = viewer, printed' = printed, [Next]_vars
    PROVE  TailInv'
<1>1. KeptInv'
  BY Shapes
<1>2. viewer.offset = 0 \/ (viewer.file \in DOMAIN files' /\ viewer.offset <= Len(files'[viewer.file].lines))
  <2>1. CASE viewer.offset = 0
    BY <2>1
  <2>2. CASE viewer.file \in DOMAIN files /\ viewer.offset <= Size(viewer.file)
    <3>1. viewer.offset \in Int
      BY ViewerFields
    <3>2. /\ viewer.file \in DOMAIN files'
          /\ Len(files[viewer.file].lines) <= Len(files'[viewer.file].lines)
      BY <2>2, LinesAreAppended
    <3>3. Len(files[viewer.file].lines) \in Int /\ Len(files'[viewer.file].lines) \in Int
      BY <1>1, <2>2, <3>2, FileFields DEF KeptInv, DaemonTypes
    <3>4. QED
      BY <2>2, <3>1, <3>2, <3>3 DEF Size
  <2>3. QED
    BY <2>1, <2>2 DEF TailInv
<1>3. ASSUME NEW i \in DOMAIN files', files'[i].name = Live,
             NEW k \in DOMAIN files'[i].lines, k > viewer.offset \/ i # viewer.file,
             files'[i].lines[k] \in ToSet(printed)
      PROVE  FALSE
  <2>1. PICK line : line = files'[i].lines[k]
    OBVIOUS
  <2>2. InFile(files', line, i)
    BY <2>1 DEF InFile, ToSet
  <2>3. PICK m : InFile(files, line, m)
    BY <1>3, <2>1 DEF PrintedInv
  <2>4. InFile(files, line, i) /\ i \in DOMAIN files
    <3>1. m = i
      BY <2>2, <2>3, LinesStay
    <3>2. QED
      BY <2>3, <3>1 DEF InFile
  <2>5. PICK n \in DOMAIN files[i].lines : files[i].lines[n] = line
    BY <2>4 DEF InFile, ToSet
  <2>6. n \in DOMAIN files'[i].lines /\ files'[i].lines[n] = line
    BY <2>4, <2>5, LinesAreAppended
  <2>7. n = k
    <3>1. IsInjective(files'[i].lines)
      BY <1>1 DEF KeptInv, LinesInv, Distinct
    <3>2. QED
      BY <2>1, <2>6, <3>1 DEF IsInjective
  <2>8. files[i].name = Live
    BY <1>3, <2>4, WhatFilesBecome, Numbers DEF StampOf
  <2>9. QED
    BY <1>3, <2>1, <2>4, <2>5, <2>7, <2>8 DEF TailInv
<1>4. QED
  BY <1>2, <1>3 DEF TailInv, Size

\* What a command has read, when the daemon takes a step.
LEMMA DaemonKeepsReading ==
    ASSUME KeptInv, OrderInv, ViewTypes, ReadInv, Ranked(files, misplaced, printed), DaemonOnly
    PROVE  ReadInv' /\ Ranked(files', misplaced', printed')
<1>1. NewestInv /\ StampsInv /\ ListedInv
  BY DEF OrderInv
<1>2. [Next]_vars /\ viewer' = viewer /\ printed' = printed
  BY <1>1, DaemonShows DEF DaemonOnly, Next
<1>3. Ranked(files', misplaced', printed') /\ PrintedInv'
  BY <1>1, <1>2, RankedKept, PrintedKept DEF ReadInv
<1>4. ASSUME viewer.pc = "read"  PROVE TodoInv' /\ AheadInv' /\ CoverInv'
  <2>1. TodoInv /\ AheadInv /\ CoverInv /\ PrintedInv
    BY <1>4 DEF ReadInv
  <2>2. QED
    BY <1>1, <1>2, <2>1, TodoKept, AheadKept, CoverKept
<1>5. ASSUME viewer.pc = "follow"  PROVE TailInv'
  <2>1. TailInv /\ PrintedInv
    BY <1>5 DEF ReadInv
  <2>2. QED
    BY <1>1, <1>2, <2>1, TailKept
<1>6. viewer.pc \in {"idle", "rescan"} => printed = <<>>
  BY DEF ReadInv
<1>7. QED
  BY <1>2, <1>3, <1>4, <1>5, <1>6 DEF ReadInv

-----------------------------------------------------------------------------
(* The commands' steps. *)

\* What a command read, and that it printed it in the order of writing.
ReadingInv == ReadInv /\ Ranked(files, misplaced, printed)

\* Nothing was printed when a command begins.
LEMMA NothingPrinted ==
    ASSUME printed' = <<>>
    PROVE  PrintedInv' /\ Ranked(files', misplaced', printed')
  BY EmptyHasNothing DEF PrintedInv, Ranked

LEMMA LogsReads ==
    ASSUME KeptInv, OrderInv, ViewTypes, ReadingInv, NEW cmd \in Commands, Logs(cmd)
    PROVE  ReadingInv'
<1> DEFINE there == Archives \cup NamedAs(Live)
           names == {files[i].name : i \in there}
<1>1. /\ files' = files /\ printed' = printed /\ printed = <<>>
      /\ viewer' = [viewer EXCEPT !.cmd = cmd, !.pc = "read", !.todo = names]
      /\ listed' = UNION {ToSet(files[i].lines) : i \in there}
  BY DEF Logs, ReadingInv, ReadInv
<1>2. viewer \in Viewers
  BY ViewerFields
<1>3. viewer'.pc = "read" /\ viewer'.todo = names
  <2> HIDE DEF names
  <2>1. QED
    BY <1>1, <1>2 DEF Viewers
<1>4. \A i \in DOMAIN files : i \in there <=> files[i].name # Gone
  BY FileFields, Numbers DEF Archives, NamedAs
<1>5. there \subseteq DOMAIN files
  BY DEF Archives, NamedAs
<1>6. TodoInv'
  <2> SUFFICES ASSUME NEW i \in there
               PROVE  IF files[i].name = Live THEN files # <<>> ELSE NamedAs(files[i].name) # {}
    BY <1>1, <1>3 DEF TodoInv, NamedAs
  <2>1. i \in DOMAIN files
    BY <1>5
  <2>2. files # <<>>
    BY <2>1, EmptyHasNothing
  <2>3. QED
    BY <2>1, <2>2 DEF NamedAs
<1>7. AheadInv'
  BY <1>1, EmptyHasNothing DEF AheadInv
<1>8. CoverInv'
  <2> SUFFICES ASSUME NEW line \in listed'
               PROVE  \E i : InFile(files, line, i) /\ files[i].name \in names
    BY <1>1, <1>3 DEF CoverInv
  <2>1. PICK i \in there : line \in ToSet(files[i].lines)
    BY <1>1
  <2>2. QED
    BY <1>5, <2>1 DEF InFile
<1>9. QED
  BY <1>1, <1>3, <1>6, <1>7, <1>8, NothingPrinted DEF ReadingInv, ReadInv

\* A segment is read whole, and was before those that remain.
LEMMA SegmentReads ==
    ASSUME KeptInv, OrderInv, ViewTypes, ReadingInv, ReadSegment
    PROVE  ReadingInv'
<1>1. PICK name : name = Oldest(viewer.todo)
  OBVIOUS
<1>2. /\ viewer.pc = "read" /\ viewer.todo # {} /\ files' = files /\ misplaced' = misplaced /\ listed' = listed
      /\ IF NamedAs(name) = {}
         THEN viewer' = [viewer EXCEPT !.pc = "failed"] /\ printed' = printed
         ELSE /\ viewer' = [viewer EXCEPT !.todo = viewer.todo \ {name}]
              /\ printed' = printed \o files[TheFile(name)].lines
  BY <1>1 DEF ReadSegment
<1>3. viewer \in Viewers /\ viewer.todo \subseteq Archive \cup {Live} /\ printed \in Seq(Line)
  BY ViewerFields DEF ViewTypes
<1>4. PrintedInv /\ TodoInv /\ AheadInv /\ CoverInv /\ Ranked(files, misplaced, printed)
  BY <1>2 DEF ReadingInv, ReadInv
<1>5. NewestInv /\ ListedInv /\ InodesInv
  BY DEF OrderInv
<1>6. CASE NamedAs(name) = {}
  <2>1. viewer'.pc = "failed"
    BY <1>2, <1>3, <1>6 DEF Viewers
  <2>2. PrintedInv' /\ Ranked(files', misplaced', printed')
    BY <1>2, <1>4, <1>6 DEF PrintedInv
  <2>3. QED
    BY <2>1, <2>2 DEF ReadingInv, ReadInv
<1>7. CASE NamedAs(name) # {}
  <2>1. PICK f \in DOMAIN files : f = TheFile(name) /\ files[f].name = name
    BY <1>7, NamedFile
  <2>2. viewer'.pc = "read" /\ viewer'.todo = viewer.todo \ {name}
    BY <1>2, <1>3, <1>7 DEF Viewers
  <2>3. printed' = printed \o files[f].lines
    BY <1>2, <1>7, <2>1
  <2>4. /\ name \in viewer.todo /\ name \in Archive \cup {Live} /\ name # Gone
        /\ \A b \in viewer.todo \ {name} : Before(name, b)
    BY <1>1, <1>2, <1>3, OldestIs, Numbers
  <2>5. /\ files[f].lines \in Seq(Line) /\ Ranked(files, misplaced, files[f].lines)
        /\ \A line : line \in ToSet(files[f].lines) <=> InFile(files, line, f)
    BY FileIsRanked
  <2>6. ToSet(printed') = ToSet(printed) \cup ToSet(files[f].lines)
    BY <1>3, <2>3, <2>5, ConcatHas
  <2>7. Ranked(files', misplaced', printed')
    <3>1. ASSUME NEW k \in ToSet(printed), NEW l \in ToSet(files[f].lines)
          PROVE  Rank(files, misplaced, k, l)
      <4>1. PICK j : InFile(files, k, j)
        BY <1>4 DEF PrintedInv
      <4>2. InFile(files, l, f) /\ j \in DOMAIN files
        BY <2>5, <4>1 DEF InFile
      <4>3. f # j /\ (j \notin misplaced => j < f)
        BY <1>4, <2>1, <2>4, <4>1, <4>2 DEF AheadInv
      <4>4. k # l
        BY <4>1, <4>2, <4>3 DEF KeptInv, LinesInv, Once
      <4>5. j < f => k < l
        BY <1>5, <4>1, <4>2 DEF InodesInv, On
      <4>6. QED
        BY <4>1, <4>2, <4>3, <4>4, <4>5 DEF Rank
    <3>2. Ranked(files, misplaced, printed \o files[f].lines)
      BY <1>3, <1>4, <2>5, <3>1, RankedConcat
    <3>3. QED
      BY <1>2, <2>3, <3>2
  <2>8. PrintedInv'
    BY <1>2, <1>4, <2>5, <2>6 DEF PrintedInv
  <2>9. TodoInv'
    BY <1>2, <1>4, <2>2, CommandsOnlyRead DEF TodoInv, NamedAs, Sealed, Command
  <2>10. AheadInv'
    <3> SUFFICES ASSUME NEW i \in DOMAIN files, files[i].name \in viewer.todo \ {name},
                        NEW line \in ToSet(printed) \cup ToSet(files[f].lines),
                        NEW j \in DOMAIN files, InFile(files, line, j)
                 PROVE  i # j /\ (j \notin misplaced => j < i)
      BY <1>2, <2>2, <2>6 DEF AheadInv
    <3>1. CASE line \in ToSet(printed)
      BY <1>4, <3>1 DEF AheadInv
    <3>2. CASE line \in ToSet(files[f].lines)
      <4>1. j = f
        BY <2>5, <3>2 DEF KeptInv, LinesInv, Once
      <4>2. i # f /\ Before(name, files[i].name)
        BY <2>1, <2>4
      <4>3. /\ name # Live /\ ~Before(files[i].name, name)
            /\ name \in Archive /\ files[i].name \in Archive \cup {Live}
        BY <1>3, <2>4, <4>2, BeforeIsOneWay
      <4>4. i \in Int /\ f \in Int /\ i <= Len(files) /\ f <= Len(files) /\ Len(files) \in Int
        BY NewestFile
      <4>5. CASE files[i].name = Live
        <5>1. i = Len(files)
          BY <1>5, <4>5 DEF NewestInv
        <5>2. QED
          BY <4>1, <4>2, <4>4, <5>1
      <4>6. CASE files[i].name \in Archive
        <5>1. i < f => f \in misplaced
          BY <1>5, <2>1, <4>3, <4>6 DEF ListedInv
        <5>2. QED
          BY <4>1, <4>2, <4>4, <5>1
      <4>7. QED
        BY <4>3, <4>5, <4>6
    <3>3. QED
      BY <3>1, <3>2
  <2>11. CoverInv'
    <3> SUFFICES ASSUME NEW line \in listed
                 PROVE  \/ line \in ToSet(printed) \cup ToSet(files[f].lines)
                        \/ \E i : InFile(files, line, i) /\ files[i].name \in viewer.todo \ {name}
                        \/ \E other \in viewer.todo \ {name} : NamedAs(other) = {}
      BY <1>2, <2>2, <2>6 DEF CoverInv, NamedAs
    <3>1. CASE line \in ToSet(printed)
      BY <3>1
    <3>2. ASSUME NEW i, InFile(files, line, i), files[i].name \in viewer.todo
          PROVE  \/ line \in ToSet(files[f].lines)
                 \/ InFile(files, line, i) /\ files[i].name \in viewer.todo \ {name}
      <4>1. CASE files[i].name = name
        <5>1. i = f
          BY <1>5, <2>1, <2>4, <3>2, <4>1, NameIsOneFile DEF InFile
        <5>2. QED
          BY <3>2, <5>1 DEF InFile
      <4>2. CASE files[i].name # name
        BY <3>2, <4>2
      <4>3. QED
        BY <4>1, <4>2
    <3>3. ASSUME NEW other \in viewer.todo, NamedAs(other) = {}
          PROVE  other \in viewer.todo \ {name} /\ NamedAs(other) = {}
      BY <1>7, <3>3
    <3>4. QED
      BY <1>4, <3>1, <3>2, <3>3 DEF CoverInv
  <2>12. QED
    BY <2>2, <2>7, <2>8, <2>9, <2>10, <2>11 DEF ReadingInv, ReadInv
<1>8. QED
  BY <1>6, <1>7

\* A tailer that prints the rest of the live file prints what was not printed, and is younger.
LEMMA RestReads ==
    ASSUME KeptInv, OrderInv, ViewTypes, PrintedInv, Ranked(files, misplaced, printed),
           NEW i \in DOMAIN files, files[i].name = Live, NEW from \in Nat,
           \A k \in DOMAIN files[i].lines : k > from => files[i].lines[k] \notin ToSet(printed),
           files' = files, misplaced' = misplaced,
           printed' = printed \o SubSeq(files[i].lines, from + 1, Size(i)),
           viewer'.pc = "follow", viewer'.file = i, viewer'.offset = Size(i)
    PROVE  ReadingInv'
<1>1. NewestInv /\ InodesInv /\ printed \in Seq(Line)
  BY DEF OrderInv, ViewTypes
<1>2. PICK rest \in Seq(Line) : rest = SubSeq(files[i].lines, from + 1, Size(i))
  BY RestOfFile
<1>3. /\ rest \in Seq(Line) /\ Ranked(files, misplaced, rest)
      /\ \A line \in ToSet(rest) :
            /\ InFile(files, line, i)
            /\ \E k \in DOMAIN files[i].lines : k > from /\ files[i].lines[k] = line
  BY <1>2, RestIsRanked
<1>4. printed' = printed \o rest /\ ToSet(printed') = ToSet(printed) \cup ToSet(rest)
  <2>1. printed' = printed \o rest
    BY <1>2
  <2>2. ToSet(printed \o rest) = ToSet(printed) \cup ToSet(rest)
    BY <1>1, ConcatHas
  <2>3. QED
    BY <2>1, <2>2
<1>5. PrintedInv'
  BY <1>3, <1>4 DEF PrintedInv
<1>6. ASSUME NEW k \in ToSet(printed), NEW l \in ToSet(rest)
      PROVE  Rank(files, misplaced, k, l)
  <2>1. PICK j : InFile(files, k, j)
    BY DEF PrintedInv
  <2>2. InFile(files, l, i) /\ k # l
    BY <1>3
  <2>3. j \in Int /\ i \in Int /\ j <= i
    <3>1. j \in DOMAIN files /\ i = Len(files)
      BY <1>1, <2>1 DEF InFile, NewestInv
    <3>2. QED
      BY <3>1, NewestFile
  <2>4. j < i => k < l
    BY <1>1, <2>1, <2>2 DEF InodesInv, On, InFile
  <2>5. k < l \/ (k # l /\ j = i)
    BY <2>2, <2>3, <2>4
  <2>6. QED
    BY <2>1, <2>2, <2>5 DEF Rank
<1>7. Ranked(files', misplaced', printed')
  BY <1>1, <1>3, <1>4, <1>6, RankedConcat
<1>8. TailInv'
  <2>1. Size(i) \in Int /\ Size(i) = Len(files[i].lines) /\ DOMAIN files[i].lines = 1..Size(i)
    BY SizeIsBounded
  <2>2. \A j \in DOMAIN files : files[j].name = Live => j = i
    BY <1>1 DEF NewestInv
  <2>3. \A k \in DOMAIN files[i].lines : ~(k > Size(i))
    BY <2>1
  <2>4. viewer'.file \in DOMAIN files' /\ viewer'.offset <= Len(files'[viewer'.file].lines)
    BY <2>1
  <2>5. \A j \in DOMAIN files' : files'[j].name = Live =>
           \A k \in DOMAIN files'[j].lines :
              k > viewer'.offset \/ j # viewer'.file => files'[j].lines[k] \notin ToSet(printed')
    BY <2>2, <2>3
  <2>6. QED
    BY <2>4, <2>5 DEF TailInv, Size
<1>9. QED
  BY <1>5, <1>7, <1>8 DEF ReadingInv, ReadInv

LEMMA FollowsReads ==
    ASSUME KeptInv, OrderInv, ViewTypes, PrintedInv, Ranked(files, misplaced, printed),
           NEW cmd, NEW offset \in Nat, Follows(cmd, offset), offset = AtEnd \/ printed = <<>>
    PROVE  ReadingInv'
<1>1. files' = files /\ misplaced' = misplaced
  BY DEF Follows
<1>2. CASE NamedAs(Live) = {}
  <2>1. /\ printed' = printed
        /\ viewer' = [cmd |-> cmd, pc |-> "follow", todo |-> {}, file |-> None, offset |-> 0]
    BY <1>2 DEF Follows
  <2>2. viewer'.pc = "follow" /\ viewer'.offset = 0
    BY <2>1
  <2>3. PrintedInv' /\ Ranked(files', misplaced', printed')
    BY <1>1, <2>1 DEF PrintedInv
  <2>4. \A i \in DOMAIN files : files[i].name # Live
    BY <1>2 DEF NamedAs
  <2>5. TailInv'
    BY <1>1, <2>2, <2>4 DEF TailInv
  <2>6. QED
    BY <2>2, <2>3, <2>5 DEF ReadingInv, ReadInv
<1>3. CASE NamedAs(Live) # {}
  <2>1. PICK i \in DOMAIN files : i = TheFile(Live) /\ files[i].name = Live
    BY <1>3, NamedFile
  <2>2. /\ viewer' = [cmd |-> cmd, pc |-> "follow", todo |-> {}, file |-> i, offset |-> Size(i)]
        /\ printed' = printed \o SubSeq(files[i].lines, offset + 1, Size(i))
    BY <1>3, <2>1 DEF Follows
  <2>3. viewer'.pc = "follow" /\ viewer'.file = i /\ viewer'.offset = Size(i)
    BY <2>2
  <2>4. \A k \in DOMAIN files[i].lines : k > offset => files[i].lines[k] \notin ToSet(printed)
    <3>1. CASE printed = <<>>
      BY <3>1, EmptyHasNothing
    <3>2. CASE offset = AtEnd
      <4>1. offset = Size(i)
        BY <1>3, <2>1, <3>2 DEF AtEnd
      <4>2. DOMAIN files[i].lines = 1..Size(i) /\ Size(i) \in Int
        BY SizeIsBounded
      <4>3. QED
        BY <4>1, <4>2
    <3>3. QED
      BY <3>1, <3>2
  <2>5. QED
    BY <1>1, <2>1, <2>2, <2>3, <2>4, RestReads
<1>4. QED
  BY <1>2, <1>3

\* What the tailer polls was not printed: a file smaller than the offset is another one.
LEMMA PollReads ==
    ASSUME KeptInv, OrderInv, ViewTypes, ReadingInv, Poll
    PROVE  ReadingInv'
<1>1. PICK i \in DOMAIN files : i = TheFile(Live) /\ files[i].name = Live
  BY NamedFile DEF Poll
<1>2. PICK from : from = IF Size(i) < viewer.offset THEN 0 ELSE viewer.offset
  OBVIOUS
<1>3. /\ viewer.pc = "follow" /\ files' = files /\ misplaced' = misplaced
      /\ printed' = printed \o SubSeq(files[i].lines, from + 1, Size(i))
      /\ viewer' = [viewer EXCEPT !.file = i, !.offset = Size(i)]
  BY <1>1, <1>2 DEF Poll
<1>4. viewer \in Viewers /\ viewer.offset \in Nat /\ from \in Nat
  BY <1>2, ViewerFields
<1>5. viewer'.pc = "follow" /\ viewer'.file = i /\ viewer'.offset = Size(i)
  BY <1>3, <1>4 DEF Viewers
<1>6. TailInv /\ PrintedInv /\ Ranked(files, misplaced, printed)
  BY <1>3 DEF ReadingInv, ReadInv
<1>7. \A k \in DOMAIN files[i].lines : k > from => files[i].lines[k] \notin ToSet(printed)
  <2>1. CASE i # viewer.file
    BY <1>1, <1>6, <2>1 DEF TailInv
  <2>2. CASE i = viewer.file
    <3>1. Size(i) \in Nat
      BY SizeIsBounded
    <3>2. from = viewer.offset
      BY <1>2, <1>4, <1>6, <2>2, <3>1 DEF TailInv
    <3>3. QED
      BY <1>1, <1>6, <3>2 DEF TailInv
  <2>3. QED
    BY <2>1, <2>2
<1>8. QED
  BY <1>1, <1>3, <1>4, <1>5, <1>6, <1>7, RestReads

\* A command that prints nothing, and neither reads nor follows when it did not.
LEMMA CommandsRead ==
    ASSUME KeptInv, OrderInv, ViewTypes, ReadingInv, Command
    PROVE  ReadingInv'
<1>1. PrintedInv /\ Ranked(files, misplaced, printed) /\ viewer \in Viewers
  BY ViewerFields DEF ReadingInv, ReadInv
<1>2. AtEnd \in Nat
  BY NamedFile, SizeIsBounded DEF AtEnd
<1>3. files' = files /\ misplaced' = misplaced
  BY CommandsOnlyRead
<1>4. CASE HistoryEnds
  <2>1. CASE viewer.cmd = "follow"
    <3>1. Follows("follow", AtEnd)
      BY <1>4, <2>1 DEF HistoryEnds
    <3>2. QED
      BY <1>1, <1>2, <3>1, FollowsReads
  <2>2. CASE viewer.cmd # "follow"
    <3>1. viewer' = [viewer EXCEPT !.pc = "done"] /\ printed' = printed
      BY <1>4, <2>2 DEF HistoryEnds
    <3>2. viewer'.pc = "done"
      BY <1>1, <3>1 DEF Viewers
    <3>3. PrintedInv' /\ Ranked(files', misplaced', printed')
      BY <1>1, <1>3, <3>1 DEF PrintedInv
    <3>4. QED
      BY <3>2, <3>3 DEF ReadingInv, ReadInv
  <2>3. QED
    BY <2>1, <2>2
<1>5. CASE Monitor
  <2>1. CASE NamedAs(Live) # {}
    <3>1. Follows("tail", AtEnd)
      BY <1>5, <2>1 DEF Monitor
    <3>2. QED
      BY <1>1, <1>2, <3>1, FollowsReads
  <2>2. CASE NamedAs(Live) = {}
    <3>1. /\ viewer' = [viewer EXCEPT !.cmd = "tail", !.pc = "rescan"]
          /\ printed' = printed /\ printed = <<>>
      BY <1>5, <2>2 DEF Monitor, ReadingInv, ReadInv
    <3>2. viewer'.pc = "rescan"
      BY <1>1, <3>1 DEF Viewers
    <3>3. QED
      BY <3>1, <3>2, NothingPrinted DEF ReadingInv, ReadInv
  <2>3. QED
    BY <2>1, <2>2
<1>6. CASE Rescan
  <2>1. Follows("tail", 0) /\ printed = <<>>
    BY <1>6 DEF Rescan, ReadingInv, ReadInv
  <2>2. QED
    BY <1>1, <2>1, FollowsReads
<1>7. QED
  BY <1>4, <1>5, <1>6, LogsReads, SegmentReads, PollReads DEF Command

LEMMA ReadingIsWhole ==
    ASSUME KeptInv, ReadingInv
    PROVE  PrintsTheHistory
<1>1. InOrder
  BY RankedIsInOrder DEF ReadingInv
<1>2. Whole
  BY DEF Whole, ReadingInv, ReadInv, CoverInv
<1>3. QED
  BY <1>1, <1>2 DEF PrintsTheHistory

\* What a command has printed was in files before those it has still to read, none of it is after
\* a tailer's offset, and what was listed is printed or to be read (log/reader.ts, log/tail.ts).
THEOREM ReadingInvariant == Spec => []ReadingInv
<1>1. Init => ReadingInv
  <2> SUFFICES ASSUME Init PROVE ReadingInv
    OBVIOUS
  <2>1. printed = <<>> /\ viewer.pc = "idle"
    BY DEF Init
  <2>2. QED
    BY <2>1, EmptyHasNothing DEF ReadingInv, ReadInv, PrintedInv, Ranked
<1>2. KeptInv /\ OrderInv /\ TypeOK /\ ReadingInv /\ [Next]_vars => ReadingInv'
  <2> SUFFICES ASSUME KeptInv, OrderInv, TypeOK, ReadingInv, [Next]_vars
               PROVE  ReadingInv'
    OBVIOUS
  <2>1. ViewTypes
    BY TypesOfView
  <2>2. CASE DaemonOnly
    BY <2>1, <2>2, DaemonKeepsReading DEF ReadingInv
  <2>3. CASE Command
    BY <2>1, <2>3, CommandsRead
  <2>4. QED
    BY <2>2, <2>3 DEF Next, DaemonOnly
<1>3. QED
  BY <1>1, <1>2, KeptInvariant, OrderInvariant, TypeCorrect, PTL DEF Spec

\* `pid logs` prints the history in the order in which it was written and no line twice, and
\* `-f` goes on where it ends, whatever the daemon does meanwhile; of the lines that were on disk
\* when it began it prints all, or fails (log/reader.ts, log/tail.ts).
THEOREM PrintsTheHistoryTheorem == Spec => []PrintsTheHistory
  BY ReadingIsWhole, KeptInvariant, ReadingInvariant, PTL

\* What an archive holds was written before what those listed after it hold (log/reader.ts:10),
\* unless it was made by a roll that met both its conditions, or its suffix has two digits
\* (log/writer.ts:143, archiveSortKey).
ChronologicalButMisplaced ==
    \A i \in Archives \ misplaced, j \in Archives :
        Before(files[i].name, files[j].name) =>
            \A k \in ToSet(files[i].lines), l \in ToSet(files[j].lines) : k < l

THEOREM SegmentsTheorem == Spec => []ChronologicalButMisplaced
<1>1. KeptInv /\ OrderInv => ChronologicalButMisplaced
  <2> SUFFICES ASSUME KeptInv, OrderInv, 
                      NEW i \in Archives \ misplaced, NEW j \in Archives,
                      Before(files[i].name, files[j].name),
                      NEW k \in ToSet(files[i].lines), NEW l \in ToSet(files[j].lines)
               PROVE  k < l
    BY DEF ChronologicalButMisplaced
  <2>1. /\ i \in DOMAIN files /\ j \in DOMAIN files /\ i \in Int /\ j \in Int
        /\ files[i].name \in Archive /\ files[j].name \in Archive
    <3>1. \A m \in Archives : m \in DOMAIN files /\ files[m].name \notin {Live, Gone}
      BY DEF Archives
    <3>2. QED
      BY <3>1, NewestFile, FileFields DEF KeptInv, DaemonTypes
  <2>2. ~Before(files[j].name, files[i].name)
    BY <2>1, BeforeIsOneWay
  <2>3. i # j
    BY <2>2
  <2>4. ~(j < i)
    BY <2>1, <2>2 DEF OrderInv, ListedInv
  <2>5. i < j
    BY <2>1, <2>3, <2>4
  <2>6. QED
    BY <2>1, <2>5 DEF OrderInv, InodesInv, On, InFile
<1>2. QED
  BY <1>1, KeptInvariant, OrderInvariant, PTL

===============================================================================
