--------------------------- MODULE TestRunsProofs ---------------------------
(***************************************************************************)
(* Theorems about the program around the tests.  One process, for any list *)
(* of tests with any plugins of any length, and any number of threads,     *)
(* prints and characters: what a test has deferred is done and the times   *)
(* of its trace go up, wherever an assertion or a signal cuts it short;    *)
(* and the flags of the threads and the terminal are consistent in every   *)
(* interleaving.  The test bench, for any number of workers and of tests:  *)
(* its invariant, that each test is run once, and that the verdict is that *)
(* of the tests.  And main, for every command line: it makes a model only  *)
(* when the command line is right, and the model runs as it says.          *)
(***************************************************************************)
EXTENDS MCTestRuns, TestbenchInv, FiniteSetTheorems, SequenceTheorems,
        WellFoundedInduction, TLAPS

-----------------------------------------------------------------------------
(* TestRun: the inductive invariant                                        *)

Plugin   == TR!Switch \cup {"SKIP"}
Deferred == TR!Switch \cup {"post"}
File     == [open : BOOLEAN, count : Nat, last : Nat]

TestTypes ==
  /\ doing \in {"begin", "plugins", "body", "clock", "defers", "report", "end", "handler", "dead"}
  /\ test \in Nat \ {0} /\ plugins \in Seq(Plugin)
  /\ defer_list \in Seq(Deferred) /\ left \in Seq(Deferred) /\ ran \in Seq(Deferred)
  /\ fst \in File
  /\ ordered \in BOOLEAN

\* What is left is the bottom of the list, and what is above it has run,
\* from the top down, as the last of what has run.
Stack ==
  doing \in {"defers", "handler", "dead"} =>
    /\ Len(left) <= Len(defer_list)
    /\ Len(defer_list) <= Len(left) + Len(ran)
    /\ \A i \in 1 .. Len(left) : left[i] = defer_list[i]
    /\ \A i \in Len(left) + 1 .. Len(defer_list) :
         ran[Len(ran) + Len(left) + 1 - i] = defer_list[i]

Through == doing = "dead" => left = <<>>

\* The last time of an open file is not after that of this cycle, or half a
\* cycle after it between the edges of a cycle that is traced.
Times ==
  fst.open =>
    /\ fst.last <= TR!fst_time(fst) + 1
    /\ (doing = "clock" /\ "TRACE" \in on) \/ doing = "handler" \/ fst.last <= TR!fst_time(fst)

\* A file is open only while the function that closes it is deferred.
Closes ==
  fst.open =>
    /\ doing \in {"plugins", "body", "clock", "defers", "handler"}
    /\ doing \in {"plugins", "body", "clock"} =>
         \E i \in 1 .. Len(defer_list) : defer_list[i] = "TRACE"
    /\ doing = "defers" => \E i \in 1 .. Len(left) : left[i] = "TRACE"

TestInv == TestTypes /\ Stack /\ Through /\ Times /\ Closes /\ ordered

-----------------------------------------------------------------------------
(* Sequences                                                               *)

\* The beginning of a list.
LEMMA FirstFacts ==
  ASSUME NEW S, NEW l \in Seq(S), NEW n \in 0 .. Len(l)
  PROVE  /\ SubSeq(l, 1, n) \in Seq(S) /\ Len(SubSeq(l, 1, n)) = n
         /\ \A i \in 1 .. n : SubSeq(l, 1, n)[i] = l[i]
<1>1. Len(l) \in Nat /\ \A i \in 1 .. n : l[i] \in S
  BY LenProperties, ElementOfSeq
<1>2. n \in Int /\ 1 \in Int
  BY <1>1
<1>3. /\ SubSeq(l, 1, n) \in Seq(S)
      /\ Len(SubSeq(l, 1, n)) = IF 1 <= n THEN n - 1 + 1 ELSE 0
      /\ \A i \in 1 .. n - 1 + 1 : SubSeq(l, 1, n)[i] = l[1 + i - 1]
  BY <1>1, <1>2, SubSeqProperties
<1>4. QED
  BY <1>1, <1>3

\* The last of a list and the others.
LEMMA LastFacts ==
  ASSUME NEW S, NEW l \in Seq(S), l # <<>>
  PROVE  /\ Len(l) \in Nat \ {0}
         /\ TR!NextDefer(l) = l[Len(l)] /\ TR!NextDefer(l) \in S
         /\ TR!Others(l) \in Seq(S) /\ Len(TR!Others(l)) = Len(l) - 1
         /\ \A i \in 1 .. Len(l) - 1 : TR!Others(l)[i] = l[i]
<1>1. Len(l) \in Nat \ {0}
  BY EmptySeq
<1>2. \A i \in 1 .. Len(l) : l[i] \in S
  BY ElementOfSeq
<1> DEFINE n == Len(l) - 1
<1>3. /\ SubSeq(l, 1, n) \in Seq(S) /\ Len(SubSeq(l, 1, n)) = n
      /\ \A i \in 1 .. n : SubSeq(l, 1, n)[i] = l[i]
  <2>1. n \in 0 .. Len(l)
    BY <1>1
  <2> HIDE DEF n
  <2>2. QED
    BY <2>1, FirstFacts
<1>4. QED
  BY <1>1, <1>2, <1>3 DEF TR!NextDefer, TR!Others, TR!Last, TR!Front

\* One element more.
LEMMA AppendFacts ==
  ASSUME NEW S, NEW l \in Seq(S), NEW x \in S
  PROVE  /\ Append(l, x) \in Seq(S) /\ Len(Append(l, x)) = Len(l) + 1
         /\ \A i \in 1 .. Len(l) : Append(l, x)[i] = l[i]
         /\ Append(l, x)[Len(l) + 1] = x
  OBVIOUS

\* A list turned round.
LEMMA ReverseFacts ==
  ASSUME NEW S, NEW l \in Seq(S)
  PROVE  /\ TR!Reverse(l) \in Seq(S) /\ Len(TR!Reverse(l)) = Len(l)
         /\ \A i \in 1 .. Len(l) : TR!Reverse(l)[i] = l[Len(l) + 1 - i]
<1>1. Len(l) \in Nat /\ \A i \in 1 .. Len(l) : l[i] \in S
  BY LenProperties, ElementOfSeq
<1>2. TR!Reverse(l) = [i \in 1 .. Len(l) |-> l[(Len(l) - i) + 1]]
  BY DEF TR!Reverse
<1>3. TR!Reverse(l) \in [1 .. Len(l) -> S]
  BY <1>1, <1>2
<1>4. TR!Reverse(l) \in Seq(S)
  BY <1>1, <1>3, SeqDef
<1>5. Len(TR!Reverse(l)) \in Nat /\ 1 .. Len(TR!Reverse(l)) = 1 .. Len(l)
  BY <1>3, <1>4, LenProperties
<1>6. Len(TR!Reverse(l)) = Len(l)
  BY <1>1, <1>5
<1>7. QED
  BY <1>1, <1>2, <1>4, <1>6

\* A dump changes the last time only.
LEMMA DumpFacts ==
  ASSUME NEW f \in File, NEW offset \in Nat
  PROVE  /\ TR!fst_time(f) \in Nat
         /\ TR!Dump(f, offset) \in File /\ TR!Dump(f, offset).open = f.open
         /\ TR!Dump(f, offset).last = TR!fst_time(f) + offset
         /\ TR!fst_time(TR!Dump(f, offset)) = TR!fst_time(f)
  BY DEF File, TR!Dump, TR!fst_time, TR!FST_TRACE_TIME_SCALE

\* What Stack says when nothing is left is what DefersRun says.
LEMMA WholeStack ==
  ASSUME NEW S, NEW d \in Seq(S), NEW r \in Seq(S), Len(d) <= Len(r),
         \A i \in 1 .. Len(d) : r[Len(r) + 1 - i] = d[i]
  PROVE  TR!IsSuffix(TR!Reverse(d), r)
<1> DEFINE d1 == TR!Reverse(d)
           d2 == TR!Reverse(d1)
           r1 == TR!Reverse(r)
<1>1. /\ Len(d) \in Nat /\ Len(r) \in Nat
      /\ d1 \in Seq(S) /\ Len(d1) = Len(d) /\ \A i \in 1 .. Len(d) : d1[i] = d[Len(d) + 1 - i]
      /\ r1 \in Seq(S) /\ Len(r1) = Len(r) /\ \A i \in 1 .. Len(r) : r1[i] = r[Len(r) + 1 - i]
  BY LenProperties, ReverseFacts
<1>2. d2 \in Seq(S) /\ Len(d2) = Len(d) /\ \A i \in 1 .. Len(d) : d2[i] = d1[Len(d) + 1 - i]
  BY <1>1, ReverseFacts
<1> HIDE DEF d1, d2, r1
<1>3. \A i \in 1 .. Len(d) : d2[i] = r1[i]
  <2>1. SUFFICES ASSUME NEW i \in 1 .. Len(d) PROVE d2[i] = r1[i]
    OBVIOUS
  <2>2. Len(d) + 1 - i \in 1 .. Len(d) /\ i \in 1 .. Len(r) /\ Len(d) + 1 - (Len(d) + 1 - i) = i
    BY <1>1
  <2>3. d2[i] = d[i]
    BY <1>1, <1>2, <2>2
  <2>4. QED
    BY <1>1, <2>2, <2>3
<1>4. SubSeq(d2, 1, Len(d)) \in Seq(S) /\ SubSeq(r1, 1, Len(d)) \in Seq(S)
      /\ Len(SubSeq(d2, 1, Len(d))) = Len(d) /\ Len(SubSeq(r1, 1, Len(d))) = Len(d)
      /\ \A i \in 1 .. Len(d) : SubSeq(d2, 1, Len(d))[i] = SubSeq(r1, 1, Len(d))[i]
  BY <1>1, <1>2, <1>3, FirstFacts
<1>5. SubSeq(d2, 1, Len(d)) = SubSeq(r1, 1, Len(d))
  BY <1>4, SeqEqual
<1>6. QED
  BY <1>1, <1>2, <1>5 DEF TR!IsSuffix, TR!IsPrefix, d1, d2, r1
-----------------------------------------------------------------------------
(* The actions                                                             *)

\* Nothing is deferred and no file is open before the first test.
LEMMA TestStart == TR!TestRunAssumption /\ TR!Init => TestInv
  BY DEF TR!TestRunAssumption, TR!Init, TestInv, TestTypes, Stack, Through, Times, Closes,
         TR!fst_time, Plugin, Deferred, File

\* A test begins with post_fn on its list.
LEMMA BeginTestInv ==
  ASSUME TR!TestRunAssumption, TestInv, TR!BeginTest
  PROVE  TestInv'
<1>1. Tests[test] \in Seq(Plugin)
  BY ElementOfSeq, LenProperties DEF TR!BeginTest, TR!TestRunAssumption, TestInv, TestTypes, Plugin
<1>2. <<"post">> \in Seq(Deferred) /\ <<>> \in Seq(Deferred)
  BY DEF Deferred
<1>3. TestTypes'
  BY <1>1, <1>2 DEF TR!BeginTest, TR!trace, TestInv, TestTypes
<1>4. Stack' /\ Through'
  BY LenProperties DEF TR!BeginTest, TestInv, TestTypes, Stack, Through
<1>5. Times' /\ Closes' /\ ordered'
  BY DEF TR!BeginTest, TR!trace, TestInv, TestTypes, Times, Closes
<1>6. QED
  BY <1>3, <1>4, <1>5 DEF TestInv

\* What a plugin switches on is on the list before the next one is looked at,
\* and a file is opened only when none is.
LEMMA EnableInv ==
  ASSUME TestInv, TR!Enable
  PROVE  TestInv'
<1>1. Head(plugins) \in TR!Switch /\ Tail(plugins) \in Seq(Plugin)
  BY HeadTailProperties DEF TR!Enable, TestInv, TestTypes, Plugin
<1>2. PICK x \in Deferred : x = Head(plugins)
  BY <1>1 DEF Deferred
<1>3. /\ Append(defer_list, x) \in Seq(Deferred) /\ Len(Append(defer_list, x)) = Len(defer_list) + 1
      /\ \A i \in 1 .. Len(defer_list) : Append(defer_list, x)[i] = defer_list[i]
      /\ Append(defer_list, x)[Len(defer_list) + 1] = x
      /\ Len(defer_list) \in Nat
  BY AppendFacts, LenProperties DEF TestInv, TestTypes
<1>4. CASE x # "TRACE"
  <2>1. TestTypes' /\ Stack' /\ Through' /\ ordered'
    BY <1>1, <1>2, <1>3, <1>4 DEF TR!Enable, TR!trace, TestInv, TestTypes, Stack, Through
  <2>2. Times'
    BY <1>2, <1>4 DEF TR!Enable, TR!trace, TestInv, Times
  <2>3. Closes'
    BY <1>2, <1>3, <1>4 DEF TR!Enable, TR!trace, TestInv, Closes
  <2>4. QED
    BY <2>1, <2>2, <2>3 DEF TestInv
<1>5. CASE x = "TRACE" /\ fst.open
  <2>1. TestTypes' /\ Through' /\ ordered'
    BY <1>1, <1>2, <1>5 DEF TR!Enable, TR!trace, TestInv, TestTypes, Through
  <2>2. Stack'
    BY <1>2, <1>3, <1>5, LenProperties DEF TR!Enable, TestInv, TestTypes, Stack
  <2>3. Times' /\ Closes'
    BY <1>2, <1>5 DEF TR!Enable, TR!trace, TestInv, Times, Closes
  <2>4. QED
    BY <2>1, <2>2, <2>3 DEF TestInv
<1>6. CASE x = "TRACE" /\ ~fst.open
  <2>1. fst' = [open |-> TRUE, count |-> 0, last |-> 0] /\ UNCHANGED <<ordered, doing, left>>
        /\ defer_list' = Append(defer_list, "TRACE")
    BY <1>2, <1>6 DEF TR!Enable, TR!StartFst
  <2>2. TestTypes' /\ Stack' /\ Through' /\ ordered'
    BY <1>1, <1>2, <1>3, <1>6, <2>1 DEF TR!Enable, File, TestInv, TestTypes, Stack, Through
  <2>3. Times'
    BY <2>1 DEF Times, TR!fst_time, TR!FST_TRACE_TIME_SCALE
  <2>4. Closes'
    BY <1>2, <1>3, <1>6, <2>1 DEF TR!Enable, TestInv, Closes
  <2>5. QED
    BY <2>2, <2>3, <2>4 DEF TestInv
<1>7. QED
  BY <1>4, <1>5, <1>6

\* The times of a cycle: one after the falling edge, then the next ten.
LEMMA TickInv ==
  ASSUME TestInv, TR!EnterBody \/ TR!TickLow \/ TR!TickHigh \/ TR!EnableFstTrace
  PROVE  TestInv'
<1>1. CASE TR!EnterBody
  BY <1>1 DEF TR!EnterBody, TR!defers, TR!trace, TestInv, TestTypes, Stack, Through, Times, Closes
<1>2. CASE TR!TickLow
  <2>1. CASE TR!Tracing
    <3>1. /\ fst' \in File /\ fst'.open /\ TR!fst_time(fst') = TR!fst_time(fst)
          /\ fst'.last = TR!fst_time(fst) + 1 /\ TR!fst_time(fst) \in Nat
      <4>1. fst' = TR!Dump(fst, 1) /\ fst.open /\ fst \in File
        BY <1>2, <2>1 DEF TR!TickLow, TR!Tracing, TestInv, TestTypes
      <4>2. QED
        BY <4>1, DumpFacts
    <3>2. TR!Ordered(fst, 1)
      BY <1>2, <2>1, <3>1 DEF TR!TickLow, TR!Tracing, TR!Ordered, TestInv, TestTypes, Times, File
    <3>3. ordered'
      BY <1>2, <2>1, <3>2 DEF TR!TickLow
    <3>4. TestTypes' /\ Stack' /\ Through' /\ Closes'
      BY <1>2, <2>1, <3>1, <3>3 DEF TR!TickLow, TR!Tracing, TR!defers, TestInv, TestTypes, Stack,
                                    Through, Closes
    <3>5. Times'
      BY <1>2, <2>1, <3>1 DEF TR!TickLow, TR!Tracing, Times
    <3>6. QED
      BY <3>3, <3>4, <3>5 DEF TestInv
  <2>2. CASE ~TR!Tracing
    BY <1>2, <2>2 DEF TR!TickLow, TR!defers, TR!trace, TestInv, TestTypes, Stack, Through, Times,
                      Closes
  <2>3. QED
    BY <2>1, <2>2
<1>3. CASE TR!TickHigh
  <2>1. TR!Advance \in File /\ TR!Advance.open = fst.open /\ TR!Advance.last = fst.last
        /\ TR!fst_time(TR!Advance) \in Nat /\ TR!fst_time(fst) \in Nat
        /\ TR!fst_time(TR!Advance) = IF "TRACE" \in on THEN TR!fst_time(fst) + 10
                                     ELSE TR!fst_time(fst)
    <3>1. CASE "TRACE" \in on
      <4>1. TR!Advance = [fst EXCEPT !.count = fst.count + 1]
        BY <3>1 DEF TR!Advance
      <4>2. /\ fst \in File /\ fst.count \in Nat
            /\ TR!Advance \in File /\ TR!Advance.open = fst.open /\ TR!Advance.last = fst.last
            /\ TR!Advance.count = fst.count + 1
        BY <4>1 DEF File, TestInv, TestTypes
      <4>3. QED
        BY <3>1, <4>2 DEF TR!fst_time, TR!FST_TRACE_TIME_SCALE
    <3>2. CASE "TRACE" \notin on
      BY <3>2 DEF TR!Advance, TR!fst_time, TR!FST_TRACE_TIME_SCALE, File, TestInv, TestTypes
    <3>3. QED
      BY <3>1, <3>2
  <2>2. /\ fst' \in File /\ fst'.open = fst.open
        /\ fst'.open => TR!fst_time(fst') \in Nat /\ fst'.last <= TR!fst_time(fst')
    <3>1. CASE TR!Tracing
      <4>1. fst' = TR!Dump(TR!Advance, 0)
        BY <1>3, <3>1 DEF TR!TickHigh
      <4>2. /\ TR!Dump(TR!Advance, 0) \in File /\ TR!Dump(TR!Advance, 0).open = TR!Advance.open
            /\ TR!Dump(TR!Advance, 0).last = TR!fst_time(TR!Advance) + 0
            /\ TR!fst_time(TR!Dump(TR!Advance, 0)) = TR!fst_time(TR!Advance)
        BY <2>1, DumpFacts
      <4>3. QED
        BY <2>1, <4>1, <4>2
    <3>2. CASE ~TR!Tracing
      <4>1. fst' = TR!Advance /\ doing = "clock"
        BY <1>3, <3>2 DEF TR!TickHigh
      <4>2. fst.open => fst.last <= TR!fst_time(fst) /\ TR!fst_time(TR!Advance) = TR!fst_time(fst)
        BY <2>1, <3>2, <4>1 DEF TR!Tracing, TestInv, Times
      <4>3. QED
        BY <2>1, <4>1, <4>2
    <3>3. QED
      BY <3>1, <3>2
  <2>3. TR!Tracing => TR!Ordered(TR!Advance, 0)
    BY <1>3, <2>1 DEF TR!Tracing, TR!Ordered, TR!TickHigh, TestInv, TestTypes, Times, File
  <2>4. ordered'
    BY <1>3, <2>3 DEF TR!TickHigh, TestInv
  <2>5. TestTypes' /\ Stack' /\ Through' /\ Closes'
    BY <1>3, <2>2, <2>4 DEF TR!TickHigh, TR!defers, TestInv, TestTypes, Stack, Through, Closes
  <2>6. Times'
    BY <2>2 DEF Times, File
  <2>7. QED
    BY <2>4, <2>5, <2>6 DEF TestInv
<1>4. CASE TR!EnableFstTrace
  BY <1>4 DEF TR!EnableFstTrace, TR!control, TR!defers, TR!trace, TestInv, TestTypes, Stack,
              Through, Times, Closes
<1>5. QED
  BY <1>1, <1>2, <1>3, <1>4

\* Whoever begins to run the functions begins with the whole list.
LEMMA WholeListInv ==
  ASSUME TestInv, TR!Leave \/ TR!Abort
  PROVE  TestInv'
<1>1. Len(defer_list) \in Nat /\ Len(ran) \in Nat
  BY LenProperties DEF TestInv, TestTypes
<1>2. CASE TR!Leave
  BY <1>1, <1>2 DEF TR!Leave, TR!trace, TestInv, TestTypes, Stack, Through, Times, Closes
<1>3. CASE TR!Abort
  BY <1>1, <1>3 DEF TR!Abort, TR!trace, TestInv, TestTypes, Stack, Through, Times, Closes,
                    TR!fst_time
<1>4. QED
  BY <1>2, <1>3

\* The file is closed with a time of its own.
LEMMA StopFacts ==
  ASSUME TestInv, TR!stop_fst_trace
  PROVE  fst' \in File /\ ~fst'.open /\ ordered'
<1>1. CASE fst.open
  <2>1. /\ TR!Dump(fst, TR!FST_TRACE_TIME_SCALE) \in File
        /\ TR!fst_time(fst) \in Nat
    BY DumpFacts DEF TR!FST_TRACE_TIME_SCALE, TestInv, TestTypes
  <2>2. fst' \in File /\ ~fst'.open
    BY <1>1, <2>1 DEF TR!stop_fst_trace, TR!StopFst, File
  <2>3. TR!Ordered(fst, TR!FST_TRACE_TIME_SCALE)
    BY <1>1, <2>1 DEF TR!Ordered, TR!FST_TRACE_TIME_SCALE, TestInv, TestTypes, Times, File
  <2>4. ordered'
    BY <1>1, <2>3 DEF TR!stop_fst_trace, TR!StopFst
  <2>5. QED
    BY <2>2, <2>4
<1>2. CASE ~fst.open
  BY <1>2 DEF TR!stop_fst_trace, TR!trace, TestInv, TestTypes
<1>3. QED
  BY <1>1, <1>2

\* One function is taken from the top of what is left.
LEMMA RunDeferInv ==
  ASSUME TestInv, TR!RunDefer
  PROVE  TestInv'
<1> DEFINE m == Len(left)
           r == Len(ran)
           x == TR!NextDefer(left)
<1>1. /\ m \in Nat \ {0} /\ x = left[m] /\ x \in Deferred
      /\ left' \in Seq(Deferred) /\ Len(left') = m - 1
      /\ \A i \in 1 .. m - 1 : left'[i] = left[i]
  BY LastFacts DEF TR!RunDefer, TestInv, TestTypes
<1>2. /\ r \in Nat /\ Len(defer_list) \in Nat
      /\ ran' \in Seq(Deferred) /\ Len(ran') = r + 1
      /\ \A i \in 1 .. r : ran'[i] = ran[i]
      /\ ran'[r + 1] = x
  BY <1>1, AppendFacts, LenProperties DEF TR!RunDefer, TestInv, TestTypes
<1>3. fst' \in File /\ ordered'
      /\ (IF x = "TRACE" THEN ~fst'.open ELSE fst' = fst)
  BY StopFacts DEF TR!RunDefer, TR!trace, TestInv, TestTypes
<1>4. UNCHANGED <<TR!control, defer_list>> /\ doing \in {"defers", "handler"}
  BY DEF TR!RunDefer
<1> HIDE DEF m, r, x
<1>5. TestTypes'
  BY <1>1, <1>2, <1>3, <1>4 DEF TR!control, TestInv, TestTypes
<1>6. Stack'
  <2>1. m <= Len(defer_list) /\ Len(defer_list) <= m + r
    BY <1>4 DEF TestInv, Stack, m, r
  <2>2. ASSUME NEW i \in 1 .. m - 1 PROVE left'[i] = defer_list[i]
    BY <1>1, <1>4, <2>2 DEF TestInv, Stack, m
  <2>3. ASSUME NEW i \in m .. Len(defer_list) PROVE ran'[r + 1 + (m - 1) + 1 - i] = defer_list[i]
    <3>1. CASE i = m
      BY <1>1, <1>2, <1>4, <2>1, <3>1 DEF TestInv, Stack, m
    <3>2. CASE i # m
      <4>1. i \in m + 1 .. Len(defer_list) /\ r + m + 1 - i \in 1 .. r
        BY <1>1, <1>2, <2>1, <2>3, <3>2
      <4>2. ran[r + m + 1 - i] = defer_list[i]
        BY <1>4, <4>1 DEF TestInv, Stack, m, r
      <4>3. r + 1 + (m - 1) + 1 - i = r + m + 1 - i
        BY <1>1, <1>2
      <4>4. QED
        BY <1>2, <4>1, <4>2, <4>3
    <3>3. QED
      BY <3>1, <3>2
  <2>4. (m - 1) + 1 = m
    BY <1>1
  <2>5. QED
    BY <1>1, <1>2, <1>4, <2>1, <2>2, <2>3, <2>4 DEF Stack
<1>7. Through'
  BY <1>4 DEF TR!control, Through
<1>8. Times'
  BY <1>3, <1>4 DEF TR!RunDefer, TR!control, TestInv, TestTypes, Times, TR!fst_time
<1>9. Closes'
  BY <1>1, <1>3, <1>4 DEF TR!control, TestInv, Closes, m
<1>10. QED
  BY <1>3, <1>5, <1>6, <1>7, <1>8, <1>9 DEF TestInv

\* When nothing is left no file is open.
LEMMA EndTestInv ==
  ASSUME TestInv, TR!Cleared \/ TR!Report \/ TR!End \/ TR!Die
  PROVE  TestInv'
<1>1. CASE TR!Cleared
  <2>1. ~fst.open
    BY <1>1 DEF TR!Cleared, TestInv, Closes
  <2>2. QED
    BY <1>1, <2>1 DEF TR!Cleared, TR!trace, TestInv, TestTypes, Stack, Through, Times, Closes
<1>2. CASE TR!Report
  BY <1>2 DEF TR!Report, TR!defers, TR!trace, TestInv, TestTypes, Stack, Through, Times, Closes
<1>3. CASE TR!End
  <2>1. ~fst'.open /\ fst' \in File /\ ordered'
    BY <1>3, StopFacts DEF TR!End
  <2>2. QED
    BY <1>3, <2>1 DEF TR!End, TR!defers, TestInv, TestTypes, Stack, Through, Times, Closes
<1>4. CASE TR!Die
  <2>1. ~fst'.open /\ fst' \in File /\ ordered'
    BY <1>4, StopFacts DEF TR!Die
  <2>2. QED
    BY <1>4, <2>1 DEF TR!Die, TR!defers, TestInv, TestTypes, Stack, Through, Times, Closes
<1>5. QED
  BY <1>1, <1>2, <1>3, <1>4

-----------------------------------------------------------------------------

\* Any step of the process.
LEMMA TestStep ==
  ASSUME TR!TestRunAssumption, TestInv, [TR!Next]_(TR!vars)
  PROVE  TestInv'
<1>1. CASE TR!Run
  BY <1>1, BeginTestInv, EnableInv, TickInv, WholeListInv, RunDeferInv, EndTestInv DEF TR!Run
<1>2. CASE UNCHANGED TR!vars
  BY <1>2 DEF TR!vars, TR!control, TR!defers, TR!trace, TestInv, TestTypes, Stack, Through, Times,
              Closes, TR!fst_time
<1>3. QED
  BY <1>1, <1>2 DEF TR!Next, TR!Stopped

\* What is deferred and the trace file are consistent wherever a test is
\* (testbench.cpp:21-36, model.cpp:44-98).
THEOREM TestRunInvariant ==
  ASSUME TR!TestRunAssumption
  PROVE  TR!Spec => []TestInv
<1>1. TR!Init => TestInv
  BY TestStart
<1>2. TestInv /\ [TR!Next]_(TR!vars) => TestInv'
  BY TestStep
<1>3. QED
  BY <1>1, <1>2, PTL DEF TR!Spec

\* What Stack and Through say at the end.
LEMMA DefersFromInv == TestInv => TR!DefersRun
<1> SUFFICES ASSUME TestInv, doing = "dead" \/ (doing = "defers" /\ left = <<>>)
             PROVE  TR!IsSuffix(TR!Reverse(defer_list), ran)
  BY DEF TR!DefersRun
<1>1. left = <<>> /\ Len(left) = 0 /\ doing \in {"defers", "dead"}
  BY EmptySeq DEF TestInv, Through
<1>2. /\ Len(defer_list) \in Nat /\ Len(ran) \in Nat
      /\ defer_list \in Seq(Deferred) /\ ran \in Seq(Deferred)
  BY LenProperties DEF TestInv, TestTypes
<1>3. /\ Len(defer_list) <= Len(ran)
      /\ \A i \in 1 .. Len(defer_list) : ran[Len(ran) + 1 - i] = defer_list[i]
  BY <1>1, <1>2 DEF TestInv, Stack
<1>4. QED
  BY <1>2, <1>3, WholeStack

\* What a test deferred is run, the last first, however it ends
\* (testbench.cpp:21-36,236-243,276-280).
THEOREM TestRunDefers ==
  ASSUME TR!TestRunAssumption
  PROVE  TR!Spec => []TR!DefersRun
<1>1. TestInv => TR!DefersRun
  BY DefersFromInv
<1>2. QED
  BY <1>1, TestRunInvariant, PTL

\* The times of a trace go up, and its file is closed when the test is over
\* or the process ends (model.cpp:44-98).
THEOREM TestRunTimes ==
  ASSUME TR!TestRunAssumption
  PROVE  TR!Spec => []TR!TraceTimes
<1>1. TestInv => TR!TraceTimes
  BY DEF TestInv, Closes, TR!TraceTimes
<1>2. QED
  BY <1>1, TestRunInvariant, PTL

-----------------------------------------------------------------------------
(* StatusLine: the inductive invariant                                     *)

Reporting == {"header", "opening", "words", "closing", "notes"}

StatusTypes ==
  /\ main \in {"idle", "test", "message", "char", "abort", "dead"} \cup Reporting
  /\ uses \in {"lines", "chars"}
  /\ handle \in Threads \cup {NoThread}
  /\ thread \in [Threads -> {"none", "check", "fn", "enter", "print", "sleep", "final"}]
  /\ flag \in [Threads -> {"freed", "run", "stop"}]
  /\ in_status_line \in BOOLEAN /\ status_enabled \in BOOLEAN
  /\ line \in {"empty", "status", "text", "piece", "cut"}
  /\ covered \subseteq {"piece", "cut"}
  /\ badFlag \in BOOLEAN /\ overwritten \in BOOLEAN

\* A flag lives as long as its thread, and says "run" for the thread of the
\* running test alone.
Flags ==
  /\ main = "idle" <=> handle = NoThread
  /\ \A w \in Threads :
       /\ thread[w] = "none" <=> flag[w] = "freed"
       /\ handle = w <=> flag[w] = "run"
       /\ thread[w] = "final" => flag[w] = "stop"

\* A program with a UART has status lines or characters on the terminal, and
\* never both; what looks like a status line is known to be one.
Terminal ==
  /\ main = "char" => uses = "chars"
  /\ line = "status" => in_status_line
  /\ in_status_line => line = "status"
  /\ uses = "chars" /\ ~status_enabled =>
       line # "status" /\ \A w \in Threads : thread[w] \notin {"enter", "print"}
  /\ line = "text" => uses = "chars" /\ ~status_enabled

\* Lines that are not finished, and may be covered: the message of an
\* assertion, between its calls, and what the buffer has cut.
Unfinished ==
  /\ line = "piece" => main \in {"words", "closing"}
  /\ line = "cut" => uses = "chars" /\ status_enabled
  /\ "piece" \in covered => main \in {"words", "closing", "notes", "abort", "dead"}
  /\ "cut" \in covered => uses = "chars" /\ status_enabled

StatusInv == StatusTypes /\ Flags /\ Terminal /\ Unfinished /\ ~badFlag /\ ~overwritten

\* What a thread does by itself: it takes a step of its own loop.
ThreadStep(w) ==
  \/ SL!Check(w) \/ SL!Look(w) \/ SL!EnterStatus(w) \/ SL!PrintStatus(w) \/ SL!Wake(w) \/ SL!Finish(w)

-----------------------------------------------------------------------------

\* Before the first test there are no threads and nothing is printed.
LEMMA StatusStart == SL!StatusLineAssumption /\ SL!Init => StatusInv
  BY DEF SL!StatusLineAssumption, SL!Init, SL!threads, SL!terminal, StatusInv, StatusTypes,
         Reporting, Flags, Terminal, Unfinished

\* at_interval makes a thread and its flag together.
LEMMA StartThreadInv ==
  ASSUME SL!StatusLineAssumption, StatusInv, NEW w \in Threads, SL!Start(w)
  PROVE  StatusInv'
  BY DEF SL!StatusLineAssumption, SL!Start, SL!terminal, StatusInv, StatusTypes, Reporting, Flags,
         Terminal, Unfinished

\* stop() reaches a flag that its thread has not freed.
LEMMA StopThreadInv ==
  ASSUME SL!StatusLineAssumption, StatusInv, SL!Stop
  PROVE  StatusInv'
<1>1. handle \in Threads /\ flag[handle] = "run"
  BY DEF SL!Stop, StatusInv, StatusTypes, Flags
<1>2. StatusTypes' /\ Terminal' /\ Unfinished' /\ ~badFlag' /\ ~overwritten'
  BY <1>1 DEF SL!Stop, SL!StoppedFlag, SL!terminal, StatusInv, StatusTypes, Reporting, Terminal,
     Unfinished
<1>3. Flags'
  BY <1>1 DEF SL!StatusLineAssumption, SL!Stop, SL!StoppedFlag, StatusInv, StatusTypes, Flags
<1>4. QED
  BY <1>2, <1>3 DEF StatusInv

\* A thread that runs has a flag to look at and to free, and prints a status
\* only where no finished text stands.
LEMMA ThreadInv ==
  ASSUME SL!StatusLineAssumption, StatusInv, NEW w \in Threads, ThreadStep(w)
  PROVE  StatusInv'
<1>1. CASE SL!Check(w)
  BY <1>1 DEF SL!Check, SL!terminal, StatusInv, StatusTypes, Reporting, Flags, Terminal, Unfinished
<1>2. CASE SL!Look(w)
  BY <1>2 DEF SL!Look, SL!terminal, StatusInv, StatusTypes, Reporting, Flags, Terminal, Unfinished
<1>3. CASE SL!EnterStatus(w)
  BY <1>3 DEF SL!EnterStatus, SL!terminal, StatusInv, StatusTypes, Reporting, Flags, Terminal,
     Unfinished
<1>4. CASE SL!PrintStatus(w)
  <2>1. line # "text" /\ ~(uses = "chars" /\ ~status_enabled)
    BY <1>4 DEF SL!PrintStatus, StatusInv, Terminal
  <2>2. /\ covered' \subseteq {"piece", "cut"}
        /\ "piece" \in covered' => "piece" \in covered \/ line = "piece"
        /\ "cut" \in covered' => "cut" \in covered \/ line = "cut"
    BY <1>4, <2>1 DEF SL!PrintStatus, StatusInv, StatusTypes
  <2>3. Unfinished'
    BY <1>4, <2>2 DEF SL!PrintStatus, StatusInv, Unfinished
  <2>4. StatusTypes' /\ Flags' /\ Terminal' /\ ~badFlag' /\ ~overwritten'
    BY <1>4, <2>1, <2>2 DEF SL!PrintStatus, StatusInv, StatusTypes, Reporting, Flags, Terminal
  <2>5. QED
    BY <2>3, <2>4 DEF StatusInv
<1>5. CASE SL!Wake(w)
  BY <1>5 DEF SL!Wake, SL!terminal, StatusInv, StatusTypes, Reporting, Flags, Terminal, Unfinished
<1>6. CASE SL!Finish(w)
  BY <1>6 DEF SL!Finish, SL!terminal, StatusInv, StatusTypes, Reporting, Flags, Terminal, Unfinished
<1>7. QED
  BY <1>1, <1>2, <1>3, <1>4, <1>5, <1>6 DEF ThreadStep

\* Text takes the place of a status line and of nothing else.
LEMMA PutTextInv ==
  ASSUME StatusInv, NEW ends \in {"empty", "piece", "cut"}, SL!PutText(ends)
  PROVE  in_status_line' = FALSE /\ line' = ends /\ covered' = covered /\ overwritten' = FALSE
<1>1. in_status_line \in BOOLEAN /\ overwritten = FALSE
      /\ (line = "status" => in_status_line) /\ (in_status_line => line = "status")
  BY DEF StatusInv, StatusTypes, Terminal
<1>2. /\ in_status_line' = (in_status_line /\ ~in_status_line)
      /\ overwritten' = (overwritten \/ (IF in_status_line THEN line # "status"
                                         ELSE line = "status"))
      /\ line' = ends /\ covered' = covered
  BY DEF SL!PutText, SL!Wipes
<1> QED BY <1>1, <1>2

\* The calls of a line, of a report and of a message have their order.
LEMMA MessageNext ==
  ASSUME StatusInv, SL!Message
  PROVE  /\ main \in Reporting \cup {"message"}
         /\ main' \in Reporting \cup {"test", "abort"}
         /\ main \in {"opening", "words"} <=> main' \in {"words", "closing"}
         /\ main \in {"words", "closing", "notes"} => main' \in {"closing", "notes", "abort"}
<1>1. main \in {"message", "header", "opening", "words", "closing", "notes"}
      /\ main' \in SL!After[main]
  BY DEF SL!Message, SL!Texts, SL!After
<1>2. /\ main = "message" => main' \in {"test"}
      /\ main = "header" => main' \in {"header", "opening", "notes"}
      /\ main = "opening" => main' \in {"words"}
      /\ main = "words" => main' \in {"closing"}
      /\ main = "closing" => main' \in {"notes"}
      /\ main = "notes" => main' \in {"notes", "abort"}
  BY <1>1 DEF SL!After
<1> QED BY <1>1, <1>2 DEF Reporting

\* The main thread wipes the status line before it prints text.
LEMMA MessageInv ==
  ASSUME StatusInv, SL!Message
  PROVE  StatusInv'
<1>1. /\ main \in {"opening", "words"} => SL!PutText("piece")
      /\ main \notin {"opening", "words"} => SL!PutText("empty")
  BY DEF SL!Message, SL!EndsLine
<1>2. /\ in_status_line' = FALSE /\ covered' = covered /\ overwritten' = FALSE
      /\ line' \in {"empty", "piece"}
      /\ line' = "piece" => main \in {"opening", "words"}
  BY <1>1, PutTextInv
<1>3. /\ UNCHANGED <<uses, handle, thread, flag, badFlag, status_enabled>>
  BY DEF SL!Message, SL!threads
<1>4. StatusTypes'
  BY <1>2, <1>3, MessageNext DEF StatusInv, StatusTypes, Reporting
<1>5. Flags'
  <2>1. main # "idle" /\ main' # "idle"
    BY MessageNext DEF Reporting
  <2> QED BY <1>3, <2>1 DEF StatusInv, Flags
<1>6. Terminal'
  <2>1. main' # "char"
    BY MessageNext DEF Reporting
  <2> QED BY <1>2, <1>3, <2>1 DEF StatusInv, Terminal
<1>7. Unfinished'
  <2>1. line' # "cut"
    BY <1>2
  <2>2. "piece" \in covered => main \in {"words", "closing", "notes"}
    BY MessageNext DEF StatusInv, Unfinished, Reporting
  <2>3. "piece" \in covered' => main' \in {"words", "closing", "notes", "abort", "dead"}
    BY <1>2, <2>2, MessageNext
  <2>4. line' = "piece" => main' \in {"words", "closing"}
    BY <1>2, MessageNext
  <2>5. "cut" \in covered' => uses' = "chars" /\ status_enabled'
    BY <1>2, <1>3 DEF StatusInv, Unfinished
  <2> QED BY <2>1, <2>3, <2>4, <2>5 DEF Unfinished
<1> QED BY <1>2, <1>3, <1>4, <1>5, <1>6, <1>7 DEF StatusInv

\* So does a UART's line, when it goes out.
LEMMA NotifyCharInv ==
  ASSUME StatusInv, NEW n \in BOOLEAN, SL!NotifyChar(n)
  PROVE  StatusInv'
<1>1. /\ main = "char" /\ main' = "test" /\ status_enabled /\ uses = "chars"
      /\ UNCHANGED <<uses, handle, thread, flag, badFlag, status_enabled>>
  BY DEF SL!NotifyChar, SL!threads, StatusInv, Terminal
<1>2. \/ SL!PutText("empty") \/ SL!PutText("cut")
      \/ UNCHANGED <<in_status_line, line, overwritten, covered>>
  BY DEF SL!NotifyChar
<1>3. \/ /\ in_status_line' = FALSE /\ covered' = covered /\ overwritten' = FALSE
         /\ line' \in {"empty", "cut"}
      \/ UNCHANGED <<in_status_line, line, overwritten, covered>>
  BY <1>2, PutTextInv
<1>4. StatusTypes'
  BY <1>1, <1>3 DEF StatusInv, StatusTypes
<1>5. Flags'
  BY <1>1 DEF StatusInv, Flags
<1>6. Terminal'
  BY <1>1, <1>3 DEF StatusInv, Terminal
<1>7. Unfinished'
  BY <1>1, <1>3 DEF StatusInv, Unfinished
<1>8. ~badFlag' /\ ~overwritten'
  BY <1>1, <1>3 DEF StatusInv
<1> QED BY <1>4, <1>5, <1>6, <1>7, <1>8 DEF StatusInv

\* The rest of what the main thread does with the terminal.
LEMMA PrintInv ==
  ASSUME StatusInv, \/ SL!Call \/ SL!Fail \/ SL!Lock \/ SL!Message \/ SL!Exit
                    \/ \E n \in BOOLEAN : SL!NotifyChar(n) \/ SL!NotifyCharNow(n)
  PROVE  StatusInv'
<1>1. CASE SL!Call
  BY <1>1 DEF SL!Call, SL!threads, SL!terminal, StatusInv, StatusTypes, Flags, Terminal, Unfinished
<1>2. CASE SL!Fail
  BY <1>2 DEF SL!Fail, SL!threads, SL!terminal, StatusInv, StatusTypes, Reporting, Flags, Terminal,
     Unfinished
<1>3. CASE SL!Lock
  BY <1>3 DEF SL!Lock, SL!threads, SL!terminal, StatusInv, StatusTypes, Flags, Terminal, Unfinished
<1>4. CASE SL!Exit
  BY <1>4 DEF SL!Exit, SL!threads, SL!terminal, StatusInv, StatusTypes, Flags, Terminal, Unfinished
<1>5. ASSUME NEW n \in BOOLEAN, SL!NotifyCharNow(n)
      PROVE  StatusInv'
  BY <1>5 DEF SL!NotifyCharNow, SL!threads, StatusInv, StatusTypes, Flags, Terminal, Unfinished
<1>6. QED
  BY <1>1, <1>2, <1>3, <1>4, <1>5, MessageInv, NotifyCharInv

\* The switch is set by programs that print lines only.
LEMMA SwitchInv ==
  ASSUME StatusInv, SL!DisableStatus \/ SL!EnableStatus \/ UNCHANGED SL!vars
  PROVE  StatusInv'
<1>1. CASE SL!DisableStatus
  BY <1>1 DEF SL!DisableStatus, SL!threads, SL!terminal, StatusInv, StatusTypes, Flags, Terminal,
     Unfinished
<1>2. CASE SL!EnableStatus
  BY <1>2 DEF SL!EnableStatus, SL!threads, SL!terminal, StatusInv, StatusTypes, Flags, Terminal,
     Unfinished
<1>3. CASE UNCHANGED SL!vars
  BY <1>3 DEF SL!vars, SL!threads, SL!terminal, StatusInv, StatusTypes, Flags, Terminal, Unfinished
<1>4. QED
  BY <1>1, <1>2, <1>3

\* Any step of any thread.
LEMMA StatusStep ==
  ASSUME SL!StatusLineAssumption, StatusInv, [SL!Next]_(SL!vars)
  PROVE  StatusInv'
<1>1. ASSUME NEW w \in Threads, SL!Start(w) \/ ThreadStep(w) PROVE StatusInv'
  BY <1>1, StartThreadInv, ThreadInv
<1>2. CASE SL!Stop
  BY <1>2, StopThreadInv
<1>3. CASE \/ SL!Call \/ SL!Fail \/ SL!Lock \/ SL!Message \/ SL!Exit
           \/ \E n \in BOOLEAN : SL!NotifyChar(n) \/ SL!NotifyCharNow(n)
  BY <1>3, PrintInv
<1>4. CASE SL!DisableStatus \/ SL!EnableStatus \/ UNCHANGED SL!vars
  BY <1>4, SwitchInv
<1>5. QED
  BY <1>1, <1>2, <1>3, <1>4 DEF SL!Next, ThreadStep

\* The flags and the terminal are consistent in every interleaving of the
\* main thread and the threads of its tests (common.cpp:167-382).
THEOREM StatusInvariant ==
  ASSUME SL!StatusLineAssumption
  PROVE  SL!Spec => []StatusInv
<1>1. SL!Init => StatusInv
  BY StatusStart
<1>2. StatusInv /\ [SL!Next]_(SL!vars) => StatusInv'
  BY StatusStep
<1>3. QED
  BY <1>1, <1>2, PTL DEF SL!Spec

\* No freed flag is read or written, whenever tests end (common.cpp:304-382).
THEOREM StatusFlags ==
  ASSUME SL!StatusLineAssumption
  PROVE  SL!Spec => []SL!FlagLive
<1>1. StatusInv => SL!FlagLive
  BY DEF StatusInv, SL!FlagLive
<1>2. QED
  BY <1>1, StatusInvariant, PTL

\* No text stands behind a status line, and only the unfinished lines of a
\* report and of a UART's full buffer are ever covered by one
\* (common.cpp:167-257, common.h:260-264).
THEOREM StatusLines ==
  ASSUME SL!StatusLineAssumption
  PROVE  SL!Spec => []SL!StatusApart
<1>1. StatusInv => SL!StatusApart
  BY DEF StatusInv, StatusTypes, Unfinished, SL!StatusApart
<1>2. QED
  BY <1>1, StatusInvariant, PTL

-----------------------------------------------------------------------------
(* The suite: the other parts leave these variables alone                  *)

LEMMA TestRunInSuite ==
  /\ AllInit => TestInv
  /\ TestInv /\ [AllNext]_allVars => TestInv'
<1>1. AllInit => TestInv
  BY SuiteAssumption, TestStart DEF AllInit
<1>2. TestInv /\ [AllNext]_allVars => TestInv'
  <2> SUFFICES ASSUME TestInv, [AllNext]_allVars PROVE TestInv'
    OBVIOUS
  <2>1. [TR!Next]_(TR!vars)
    BY DEF AllNext, allVars, Master, Process, OneTest, Logging, CommandLine, Ended,
           testRunVars, TR!vars, TR!control, TR!defers, TR!trace
  <2> QED BY SuiteAssumption, <2>1, TestStep
<1> QED BY <1>1, <1>2

LEMMA StatusInSuite ==
  /\ AllInit => StatusInv
  /\ StatusInv /\ [AllNext]_allVars => StatusInv'
<1>1. AllInit => StatusInv
  BY SuiteAssumption, StatusStart DEF AllInit
<1>2. StatusInv /\ [AllNext]_allVars => StatusInv'
  <2> SUFFICES ASSUME StatusInv, [AllNext]_allVars PROVE StatusInv'
    OBVIOUS
  <2>1. [SL!Next]_(SL!vars)
    BY DEF AllNext, allVars, Master, Process, OneTest, Logging, CommandLine, Ended,
           statusVars, SL!vars, SL!threads, SL!terminal
  <2> QED BY SuiteAssumption, <2>1, StatusStep
<1> QED BY <1>1, <1>2

\* TestRun's DefersRun, in the program around the tests
\* (testbench.cpp:21-36,236-243,276-280).
THEOREM DefersRunHolds == AllSpec => []DefersRun
<1>1. TestInv => DefersRun
  BY DefersFromInv DEF DefersRun
<1> QED BY <1>1, TestRunInSuite, PTL DEF AllSpec

\* TestRun's TraceTimes, in the program around the tests (model.cpp:44-98).
THEOREM TraceTimesHolds == AllSpec => []TraceTimes
<1>1. TestInv => TraceTimes
  BY DEF TestInv, Closes, TraceTimes, TR!TraceTimes
<1> QED BY <1>1, TestRunInSuite, PTL DEF AllSpec

\* StatusLine's FlagLive, in the program around the tests
\* (common.cpp:304-382).
THEOREM FlagLiveHolds == AllSpec => []FlagLive
<1>1. StatusInv => FlagLive
  BY DEF StatusInv, FlagLive, SL!FlagLive
<1> QED BY <1>1, StatusInSuite, PTL DEF AllSpec

\* StatusLine's StatusApart, in the program around the tests
\* (common.cpp:167-257).
THEOREM StatusApartHolds == AllSpec => []StatusApart
<1>1. StatusInv => StatusApart
  BY DEF StatusInv, StatusTypes, Unfinished, StatusApart, SL!StatusApart
<1> QED BY <1>1, StatusInSuite, PTL DEF AllSpec

-----------------------------------------------------------------------------
(* Testbench: what an action finds and leaves, given the invariant         *)

\* A byte is only sent into an empty pipe.
LEMMA AskEffect ==
  ASSUME Inv, NEW w \in Worker, Ask(w)
  PROVE  /\ st[w] = "ask" /\ w < spawned /\ task[w] = NoTest /\ resp[w] = <<>>
         /\ req' = [req EXCEPT ![w] = 1]
         /\ st' = [st EXCEPT ![w] = "wait"]
         /\ UNCHANGED <<outcome, task, resp, pc, ready, spawned, open, closed, first,
                        dispatched, exited, passed, failed, reaped, ended>>
<1>1. st[w] = "ask" /\ req[w] = 0 /\ w < spawned /\ task[w] = NoTest /\ resp[w] = <<>>
  BY SizesAssumption DEF Ask, Inv, TypeOK, Workers, WorkerOK, Empty, Worker
<1>2. QED
  BY <1>1 DEF Ask, Goto, masterVars

\* What w finds when it takes the order o, and leaves.
TakeOf(w, o) ==
  /\ resp[w] = <<o>> /\ req[w] = 0 /\ task[w] = NoTest /\ ~first[w] /\ w < spawned
  /\ st[w] = "wait"
  /\ resp' = [resp EXCEPT ![w] = <<>>]
  /\ task' = [task EXCEPT ![w] = o]
  /\ st' = [st EXCEPT ![w] = IF o = Exit THEN "exit" ELSE "run"]
  /\ UNCHANGED <<outcome, req, pc, ready, spawned, open, closed, first,
                 dispatched, exited, passed, failed, reaped, ended>>

\* A worker takes the one order that is in its pipe.
LEMMA TakeEffect ==
  ASSUME Inv, NEW w \in Worker, TakeOrder(w)
  PROVE  \E o \in Test \cup {Exit} : TakeOf(w, o)
<1>1. PICK o \in Test \cup {Exit} : resp[w] = <<o>>
  BY DEF TakeOrder, Inv, TypeOK
<1>2. Head(resp[w]) = o /\ Tail(resp[w]) = <<>>
  BY <1>1
<1>3. o < 0 <=> o = Exit
  BY SizesAssumption DEF Test, Exit
<1>4. req[w] = 0 /\ task[w] = NoTest /\ ~first[w] /\ w < spawned
  BY SizesAssumption DEF TakeOrder, Inv, Workers, WorkerOK, TypeOK, Worker
<1>5. QED
  BY <1>1, <1>2, <1>3, <1>4 DEF TakeOrder, TakeOf, Goto, masterVars

\* A worker finds its pipe closed only after a failure.
LEMMA EofEffect ==
  ASSUME Inv, NEW w \in Worker, NoMoreOrders(w)
  PROVE  /\ Abandoned /\ st[w] = "wait" /\ w < spawned
         /\ st' = [st EXCEPT ![w] = "exit"]
         /\ UNCHANGED <<outcome, task, req, resp, pc, ready, spawned, open, closed, first,
                        dispatched, exited, passed, failed, reaped, ended>>
<1>1. st[w] = "wait" /\ task[w] = NoTest /\ resp[w] = <<>> /\ closed /\ w < spawned
  BY SizesAssumption DEF NoMoreOrders, OrderEof, Inv, Workers, WorkerOK, TypeOK, Worker
<1>2. failed
  <2> SUFFICES ASSUME ~failed PROVE FALSE
    BY DEF Inv, TypeOK
  <2>1. open = {}
    BY <1>1 DEF Inv, Phases
  <2>2. Leaves(w)
    BY <1>1, <2>1, SizesAssumption DEF Inv, Pipes, PipeOK, Worker, TypeOK
  <2>3. QED
    BY <1>1, <2>2 DEF Leaves, NoTest, Exit
<1>3. QED
  BY <1>1, <1>2 DEF NoMoreOrders, Goto, masterVars, Abandoned

\* A test that ends has not ended before.
LEMMA EndEffect ==
  ASSUME Inv, NEW w \in Worker, EndTest(w)
  PROVE  /\ task[w] \in Test /\ outcome[task[w]] = "pass" /\ Empty(w) /\ ~first[w]
         /\ st[w] = "run" /\ w < spawned /\ ended[task[w]] = 0
         /\ ended' = [ended EXCEPT ![task[w]] = 1]
         /\ task' = [task EXCEPT ![w] = NoTest]
         /\ st' = [st EXCEPT ![w] = "ask"]
         /\ UNCHANGED <<outcome, req, resp, pc, ready, spawned, open, closed, first,
                        dispatched, exited, passed, failed, reaped>>
<1>1. st[w] = "run" /\ task[w] \in Test /\ Empty(w) /\ w < spawned
  BY SizesAssumption DEF EndTest, Inv, Workers, WorkerOK, Worker, TypeOK
<1>2. ~first[w]
  BY <1>1, SizesAssumption DEF Inv, Workers, WorkerOK, Test, NoTest, TypeOK
<1>3. ended[task[w]] = 0
  BY <1>1 DEF Inv, Placed, TestOK, Holds
<1>4. QED
  BY <1>1, <1>2, <1>3 DEF EndTest, Goto, masterVars

\* A test that fails takes its worker with it.
LEMMA FailEffect ==
  ASSUME Inv, NEW w \in Worker, FailTest(w)
  PROVE  /\ task[w] \in Test /\ outcome[task[w]] = "fail" /\ Empty(w)
         /\ st[w] = "run" /\ w < spawned
         /\ st' = [st EXCEPT ![w] = "dead"]
         /\ UNCHANGED <<outcome, task, req, resp, pc, ready, spawned, open, closed, first,
                        dispatched, exited, passed, failed, reaped, ended>>
<1>1. st[w] = "run" /\ task[w] \in Test /\ Empty(w) /\ w < spawned
  BY SizesAssumption DEF FailTest, Inv, Workers, WorkerOK, Worker, TypeOK
<1>2. QED
  BY <1>1 DEF FailTest, Goto, masterVars

\* A worker leaves its loop when told to, or after a failure.
LEMMA ExitEffect ==
  ASSUME Inv, NEW w \in Worker, ExitWorker(w)
  PROVE  /\ (task[w] = Exit /\ Empty(w)) \/ Abandoned
         /\ st[w] = "exit" /\ w < spawned
         /\ st' = [st EXCEPT ![w] = "dead"]
         /\ UNCHANGED <<outcome, task, req, resp, pc, ready, spawned, open, closed, first,
                        dispatched, exited, passed, failed, reaped, ended>>
<1>1. st[w] = "exit" /\ ((task[w] = Exit /\ Empty(w)) \/ Abandoned) /\ w < spawned
  BY SizesAssumption DEF ExitWorker, Inv, Workers, WorkerOK, Worker, TypeOK
<1>2. QED
  BY <1>1 DEF ExitWorker, Goto, masterVars

\* Workers are forked before anything can fail.
LEMMA SpawnEffect ==
  ASSUME Inv, Spawn
  PROVE  /\ pc = "spawn" /\ spawned \in Worker /\ spawned < NWorkers
         /\ st[spawned] = "unborn" /\ task[spawned] = NoTest /\ Empty(spawned)
         /\ ~failed /\ ~closed
         /\ st' = [st EXCEPT ![spawned] = "ask"]
         /\ spawned' = spawned + 1
         /\ open' = open \cup {spawned}
         /\ pc' = IF spawned' = NWorkers THEN "select" ELSE "spawn"
         /\ UNCHANGED <<outcome, task, req, resp, ready, closed, first, dispatched, exited,
                        passed, failed, reaped, ended>>
<1>1. pc = "spawn" /\ spawned \in Worker /\ spawned < NWorkers /\ ~failed /\ ~closed
  BY SizesAssumption DEF Spawn, Inv, Phases, TypeOK, Worker
<1>2. st[spawned] = "unborn" /\ task[spawned] = NoTest /\ Empty(spawned)
  BY <1>1, SizesAssumption DEF Inv, Workers, WorkerOK, Worker
<1>3. QED
  BY <1>1, <1>2 DEF Spawn

\* What w is and what it is sent when it is served.
ServeOf(w) ==
  /\ pc = "serve" /\ ~closed /\ ~failed /\ reaped = 0 /\ spawned = NWorkers
  /\ w \in open /\ w \in ready
  /\ st[w] = "wait" /\ task[w] = NoTest /\ resp[w] = <<>> /\ req[w] = 1
  /\ req' = [req EXCEPT ![w] = 0]
  /\ first' = [first EXCEPT ![w] = FALSE]
  /\ passed' = IF first[w] THEN passed ELSE passed + 1
  /\ \/ /\ dispatched < Total /\ dispatched \in Test
        /\ dispatched' = dispatched + 1
        /\ resp' = [resp EXCEPT ![w] = <<dispatched>>]
        /\ exited' = exited /\ open' = open
     \/ /\ dispatched = Total /\ dispatched' = Total
        /\ resp' = [resp EXCEPT ![w] = <<Exit>>]
        /\ exited' = exited + 1 /\ open' = open \ {w}
  /\ ready' = ready \ {w}
  /\ pc' = IF ready' = {} THEN LoopHead(FALSE, exited') ELSE "serve"
  /\ UNCHANGED <<outcome, st, task, spawned, closed, failed, reaped, ended>>

\* A worker is served while it waits: writing to it never kills the master.
LEMMA ServeEffect == ASSUME Inv, NEW w \in Worker, Serve(w) PROVE ServeOf(w)
<1>1. pc = "serve" /\ ~closed /\ ~failed /\ reaped = 0 /\ spawned = NWorkers
  BY SizesAssumption DEF Serve, Inv, Phases, TypeOK
<1>2. w \in ready /\ w \in open /\ req[w] = 1
  BY SizesAssumption DEF Serve, Lowest, Inv, Pipes, PipeOK, TypeOK
<1>3. st[w] = "wait" /\ task[w] = NoTest /\ resp[w] = <<>>
  BY <1>1, <1>2, SizesAssumption DEF Inv, Workers, WorkerOK, Empty, Abandoned, TypeOK
<1>4. Append(resp[w], Order) = <<Order>> /\ req[w] - 1 = 0 /\ st[w] # "dead" /\ failed = FALSE
  BY <1>1, <1>2, <1>3 DEF Inv, TypeOK
<1>5. CASE dispatched < Total
  <2>1. dispatched \in Test /\ Order = dispatched /\ Order # Exit
    BY <1>5, SizesAssumption DEF Order, Exit, Inv, TypeOK, Test
  <2>2. QED
    BY <1>1, <1>2, <1>3, <1>4, <1>5, <2>1 DEF Serve, ServeOf, PassedNext, DispatchedNext
<1>6. CASE ~(dispatched < Total)
  <2>1. dispatched = Total /\ Order = Exit
    BY <1>6, SizesAssumption DEF Order, Inv, TypeOK
  <2>2. QED
    BY <1>1, <1>2, <1>3, <1>4, <1>6, <2>1 DEF Serve, ServeOf, PassedNext, DispatchedNext
<1>7. QED
  BY <1>5, <1>6

\* The master meets the end of a pipe only if a test has failed.
LEMMA ServeEofEffect ==
  ASSUME Inv, NEW w \in Worker, ServeEof(w)
  PROVE  /\ pc = "serve" /\ ~closed /\ reaped = 0 /\ spawned = NWorkers
         /\ \E t \in Test : outcome[t] = "fail"
         /\ failed' = TRUE /\ ready' = {} /\ pc' = "close"
         /\ UNCHANGED <<outcome, st, task, req, resp, spawned, open, closed, first, dispatched,
                        exited, passed, reaped, ended>>
<1>1. pc = "serve" /\ ~closed /\ reaped = 0 /\ spawned = NWorkers
  BY SizesAssumption DEF ServeEof, Inv, Phases, TypeOK
<1>2. w \in open /\ st[w] = "dead"
  BY SizesAssumption DEF ServeEof, Lowest, Inv, Pipes, PipeOK, Readable, RequestEof
<1>3. task[w] \in Test /\ outcome[task[w]] = "fail"
  BY <1>1, <1>2 DEF Inv, Workers, WorkerOK, Abandoned, Pipes, PipeOK, Leaves
<1>4. QED
  BY <1>1, <1>3 DEF ServeEof, LoopHead

\* A worker that is waited for has ended, or is killed after a failure.
LEMMA ReapEffect ==
  ASSUME Inv, Reap
  PROVE  /\ pc = "reap" /\ closed /\ spawned = NWorkers /\ reaped \in Worker /\ reaped < spawned
         /\ st[reaped] = "dead" \/ Abandoned
         /\ st' = [st EXCEPT ![reaped] = "dead"]
         /\ reaped' = reaped + 1
         /\ pc' = IF reaped' = NWorkers THEN "done" ELSE "reap"
         /\ UNCHANGED <<outcome, task, req, resp, ready, spawned, open, closed, first,
                        dispatched, exited, passed, failed, ended>>
<1>1. pc = "reap" /\ closed /\ spawned = NWorkers /\ reaped \in Worker /\ reaped < spawned
  BY SizesAssumption DEF Reap, Inv, Phases, TypeOK, Worker
<1>2. QED
  BY <1>1 DEF Reap, Kills, Goto, Abandoned

-----------------------------------------------------------------------------
(* Each part of the invariant is kept                                      *)

\* Types.
LEMMA TypeStep == Inv /\ [Next]_vars => TypeOK'
<1> SUFFICES ASSUME Inv, [Next]_vars PROVE TypeOK'
  OBVIOUS
<1>0. TypeOK
  BY DEF Inv
<1> USE <1>0 DEF TypeOK
<1>1. ASSUME NEW w \in Worker, Ask(w) PROVE TypeOK'
  BY <1>1, AskEffect
<1>2. ASSUME NEW w \in Worker, TakeOrder(w) PROVE TypeOK'
  BY <1>2, TakeEffect DEF TakeOf
<1>3. ASSUME NEW w \in Worker, NoMoreOrders(w) PROVE TypeOK'
  BY <1>3, EofEffect
<1>4. ASSUME NEW w \in Worker, EndTest(w) PROVE TypeOK'
  BY <1>4, EndEffect
<1>5. ASSUME NEW w \in Worker, FailTest(w) PROVE TypeOK'
  BY <1>5, FailEffect
<1>6. ASSUME NEW w \in Worker, ExitWorker(w) PROVE TypeOK'
  BY <1>6, ExitEffect
<1>7. CASE Spawn
  <2>1. spawned' \in 0 .. NWorkers /\ open' \in SUBSET Worker
    BY <1>7, SpawnEffect, SizesAssumption
  <2>2. QED
    BY <1>7, <2>1, SpawnEffect
<1>8. CASE SelectReady
  BY <1>8 DEF SelectReady
<1>9. ASSUME NEW w \in Worker, Serve(w) PROVE TypeOK'
  <2>0. ServeOf(w)
    BY <1>9, ServeEffect
  <2>1. dispatched' \in 0 .. Total /\ passed' \in Nat /\ exited' \in Nat
    BY <2>0, SizesAssumption DEF ServeOf, Test
  <2>2. pc' \in {"select", "serve", "close"}
    BY <2>0 DEF ServeOf, LoopHead
  <2>3. resp' \in [Worker -> {<<>>} \cup {<<o>> : o \in Test \cup {Exit}}]
    BY <2>0 DEF ServeOf
  <2>4. QED
    BY <2>0, <2>1, <2>2, <2>3 DEF ServeOf
<1>10. ASSUME NEW w \in Worker, ServeEof(w) PROVE TypeOK'
  BY <1>10, ServeEofEffect
<1>11. CASE CloseAll
  BY <1>11 DEF CloseAll
<1>12. CASE Reap
  <2>1. reaped' \in 0 .. NWorkers
    BY <1>12, ReapEffect, SizesAssumption DEF Worker
  <2>2. QED
    BY <1>12, <2>1, ReapEffect
<1>13. CASE UNCHANGED vars
  BY <1>13 DEF vars, masterVars
<1>14. QED
  BY <1>1, <1>2, <1>3, <1>4, <1>5, <1>6, <1>7, <1>8, <1>9, <1>10, <1>11, <1>12, <1>13
  DEF Next, MasterStep, WorkerStep

\* Sets of workers and of tests can be counted.
LEMMA FiniteSets ==
  /\ IsFiniteSet(Worker) /\ Cardinality(Worker) = NWorkers
  /\ IsFiniteSet(Test) /\ Cardinality(Test) = Total
  /\ \A S \in SUBSET Worker : IsFiniteSet(S) /\ Cardinality(S) \in Nat
  /\ \A S \in SUBSET Test : IsFiniteSet(S) /\ Cardinality(S) \in Nat
<1>1. IsFiniteSet(Worker) /\ Cardinality(Worker) = NWorkers
  BY FS_Interval, SizesAssumption DEF Worker
<1>2. IsFiniteSet(Test) /\ Cardinality(Test) = Total
  BY FS_Interval, SizesAssumption DEF Test
<1>3. ASSUME NEW S \in SUBSET Worker PROVE IsFiniteSet(S) /\ Cardinality(S) \in Nat
  BY <1>1, FS_Subset, FS_CardinalityType
<1>4. ASSUME NEW S \in SUBSET Test PROVE IsFiniteSet(S) /\ Cardinality(S) \in Nat
  BY <1>2, FS_Subset, FS_CardinalityType
<1>5. QED
  BY <1>1, <1>2, <1>3, <1>4

\* exited counts the workers that have their order to exit.
LEMMA ExitedStep == Inv /\ [Next]_vars => (exited = Cardinality(Exited))'
<1> SUFFICES ASSUME Inv, [Next]_vars PROVE exited' = Cardinality(Exited')
  OBVIOUS
<1>0. exited = Cardinality(Exited) /\ IsFiniteSet(Exited) /\ TypeOK
  BY FiniteSets DEF Inv, Counts, Exited
<1>a. UNCHANGED <<exited, spawned, open>> => exited' = Cardinality(Exited')
  BY <1>0 DEF Exited
<1>1. ASSUME NEW w \in Worker, WorkerStep(w) PROVE UNCHANGED <<exited, spawned, open>>
  BY <1>1 DEF WorkerStep, Ask, TakeOrder, NoMoreOrders, EndTest, FailTest, ExitWorker, masterVars
<1>2. CASE Spawn
  <2>1. Exited' = Exited
    BY <1>0, <1>2, SpawnEffect, SizesAssumption DEF Exited, TypeOK, Worker
  <2>2. QED
    BY <1>0, <1>2, <2>1, SpawnEffect
<1>3. ASSUME NEW w \in Worker, Serve(w) PROVE exited' = Cardinality(Exited')
  <2>0. ServeOf(w)
    BY <1>3, ServeEffect
  <2>1. CASE dispatched < Total
    BY <1>a, <2>0, <2>1, SizesAssumption DEF ServeOf
  <2>2. CASE ~(dispatched < Total)
    <3>1. Exited' = Exited \cup {w} /\ w \notin Exited /\ exited' = exited + 1
      BY <1>0, <2>0, <2>2, SizesAssumption DEF ServeOf, Exited, TypeOK, Worker
    <3>2. QED
      BY <1>0, <3>1, FS_AddElement
  <2>3. QED
    BY <2>1, <2>2
<1>4. SelectReady \/ (\E w \in Worker : ServeEof(w)) \/ CloseAll \/ Reap \/ UNCHANGED vars
        => UNCHANGED <<exited, spawned, open>>
  BY DEF SelectReady, ServeEof, CloseAll, Reap, vars, masterVars
<1>5. QED
  BY <1>a, <1>1, <1>2, <1>3, <1>4 DEF Next, MasterStep

\* Where the master is.
LEMMA PhasesStep == Inv /\ [Next]_vars => Phases'
<1> SUFFICES ASSUME Inv, [Next]_vars PROVE Phases'
  OBVIOUS
<1>0. Phases /\ TypeOK
  BY DEF Inv
<1> USE <1>0 DEF Phases
<1>1. ASSUME NEW w \in Worker, WorkerStep(w) PROVE Phases'
  BY <1>1 DEF WorkerStep, Ask, TakeOrder, NoMoreOrders, EndTest, FailTest, ExitWorker, masterVars
<1>2. CASE Spawn
  BY <1>2, SpawnEffect, SizesAssumption DEF TypeOK
<1>3. CASE SelectReady
  BY <1>3 DEF SelectReady
<1>4. ASSUME NEW w \in Worker, Serve(w) PROVE Phases'
  <2>0. ServeOf(w)
    BY <1>4, ServeEffect
  <2>1. CASE ready' # {}
    BY <2>0, <2>1, SizesAssumption DEF ServeOf
  <2>2. CASE ready' = {} /\ exited' < NWorkers
    BY <2>0, <2>2, SizesAssumption DEF ServeOf, LoopHead
  <2>3. CASE ready' = {} /\ ~(exited' < NWorkers)
    <3>1. Exited' \in SUBSET Worker /\ exited' = Cardinality(Exited')
      BY ExitedStep DEF Exited
    <3>2. exited' \in Nat /\ open' \in SUBSET Worker
      BY TypeStep DEF TypeOK
    <3>3. Exited' = Worker
      BY <2>3, <3>1, <3>2, FiniteSets, FS_Subset, SizesAssumption
    <3>4. open' = {}
      BY <3>2, <3>3 DEF Exited
    <3>5. QED
      BY <2>0, <2>3, <3>4, SizesAssumption DEF ServeOf, LoopHead
  <2>4. QED
    BY <2>1, <2>2, <2>3
<1>5. ASSUME NEW w \in Worker, ServeEof(w) PROVE Phases'
  BY <1>5, ServeEofEffect, SizesAssumption
<1>6. CASE CloseAll
  BY <1>6 DEF CloseAll
<1>7. CASE Reap
  BY <1>7, ReapEffect, SizesAssumption DEF TypeOK
<1>8. CASE UNCHANGED vars
  BY <1>8 DEF vars, masterVars
<1>9. QED
  BY <1>1, <1>2, <1>3, <1>4, <1>5, <1>6, <1>7, <1>8 DEF Next, MasterStep

\* What a worker and its pipes are like.
LEMMA WorkersStep == Inv /\ [Next]_vars => Workers'
<1> SUFFICES ASSUME Inv, [Next]_vars, NEW v \in Worker PROVE WorkerOK(v)'
  BY DEF Workers
<1>0. WorkerOK(v) /\ TypeOK /\ Phases
  BY DEF Inv, Workers
<1> DEFINE Same == /\ UNCHANGED <<outcome, spawned, failed, closed, reaped>>
                   /\ st'[v] = st[v] /\ task'[v] = task[v] /\ req'[v] = req[v]
                   /\ resp'[v] = resp[v] /\ first'[v] = first[v]
<1>a. Same => WorkerOK(v)'
  BY <1>0 DEF WorkerOK, Empty, Abandoned
<1> HIDE DEF Same
<1>1. ASSUME NEW w \in Worker, Ask(w) PROVE WorkerOK(v)'
  <2>1. CASE v = w
    BY <1>0, <1>1, <2>1, AskEffect DEF WorkerOK, TypeOK, NoTest
  <2>2. CASE v # w
    BY <1>0, <1>1, <1>a, <2>2, AskEffect DEF Same, TypeOK
  <2>3. QED BY <2>1, <2>2
<1>2. ASSUME NEW w \in Worker, TakeOrder(w) PROVE WorkerOK(v)'
  <2>0. PICK o \in Test \cup {Exit} : TakeOf(w, o)
    BY <1>2, TakeEffect
  <2>1. CASE v = w
    BY <1>0, <2>0, <2>1 DEF TakeOf, WorkerOK, TypeOK, Empty
  <2>2. CASE v # w
    BY <1>0, <1>a, <2>0, <2>2 DEF Same, TypeOK, TakeOf
  <2>3. QED BY <2>1, <2>2
<1>3. ASSUME NEW w \in Worker, NoMoreOrders(w) PROVE WorkerOK(v)'
  <2>1. CASE v = w
    BY <1>0, <1>3, <2>1, EofEffect DEF WorkerOK, TypeOK, Abandoned
  <2>2. CASE v # w
    BY <1>0, <1>3, <1>a, <2>2, EofEffect DEF Same, TypeOK
  <2>3. QED BY <2>1, <2>2
<1>4. ASSUME NEW w \in Worker, EndTest(w) PROVE WorkerOK(v)'
  <2>1. CASE v = w
    BY <1>0, <1>4, <2>1, EndEffect DEF WorkerOK, TypeOK, Empty
  <2>2. CASE v # w
    BY <1>0, <1>4, <1>a, <2>2, EndEffect DEF Same, TypeOK
  <2>3. QED BY <2>1, <2>2
<1>5. ASSUME NEW w \in Worker, FailTest(w) PROVE WorkerOK(v)'
  <2>1. CASE v = w
    BY <1>0, <1>5, <2>1, FailEffect DEF WorkerOK, TypeOK, Empty
  <2>2. CASE v # w
    BY <1>0, <1>5, <1>a, <2>2, FailEffect DEF Same, TypeOK
  <2>3. QED BY <2>1, <2>2
<1>6. ASSUME NEW w \in Worker, ExitWorker(w) PROVE WorkerOK(v)'
  <2>1. CASE v = w
    BY <1>0, <1>6, <2>1, ExitEffect DEF WorkerOK, TypeOK, Empty, Abandoned
  <2>2. CASE v # w
    BY <1>0, <1>6, <1>a, <2>2, ExitEffect DEF Same, TypeOK
  <2>3. QED BY <2>1, <2>2
<1>7. CASE Spawn
  <2>1. CASE v = spawned
    BY <1>0, <1>7, <2>1, SpawnEffect, SizesAssumption DEF WorkerOK, TypeOK, Phases, Empty
  <2>2. CASE v # spawned
    <3>1. st'[v] = st[v]
      BY <1>0, <1>7, <2>2, SpawnEffect DEF TypeOK
    <3>2. v >= spawned <=> v >= spawned'
      BY <1>0, <1>7, <2>2, SpawnEffect, SizesAssumption DEF TypeOK, Worker
    <3>3. QED
      BY <1>0, <1>7, <3>1, <3>2, SpawnEffect DEF WorkerOK, Empty, Abandoned
  <2>3. QED BY <2>1, <2>2
<1>8. CASE SelectReady
  BY <1>8, <1>a DEF SelectReady, Same
<1>9. ASSUME NEW w \in Worker, Serve(w) PROVE WorkerOK(v)'
  <2>0. ServeOf(w)
    BY <1>9, ServeEffect
  <2>1. CASE v = w
    <3>1. req'[v] = 0 /\ ~first'[v] /\ (resp'[v] = <<dispatched>> \/ resp'[v] = <<Exit>>)
      BY <1>0, <2>0, <2>1 DEF ServeOf, TypeOK
    <3>2. <<dispatched>> # <<>> /\ <<Exit>> # <<>>
      OBVIOUS
    <3>3. resp'[v] # <<>>
      BY <3>1, <3>2
    <3>4. st'[v] = "wait" /\ task'[v] = NoTest /\ spawned' = NWorkers /\ reaped' = 0
      BY <2>0, <2>1 DEF ServeOf
    <3>5. v < NWorkers /\ ~(v < 0) /\ ~(v >= NWorkers)
      BY SizesAssumption DEF Worker
    <3>6. QED
      BY <3>1, <3>3, <3>4, <3>5 DEF WorkerOK
  <2>2. CASE v # w
    BY <1>0, <1>a, <2>0, <2>2 DEF ServeOf, Same, TypeOK
  <2>3. QED BY <2>1, <2>2
<1>10. ASSUME NEW w \in Worker, ServeEof(w) PROVE WorkerOK(v)'
  BY <1>0, <1>10, ServeEofEffect DEF WorkerOK, Empty, Abandoned
<1>11. CASE CloseAll
  BY <1>0, <1>11 DEF CloseAll, WorkerOK, Empty, Abandoned
<1>12. CASE Reap
  <2>1. CASE v = reaped
    BY <1>0, <1>12, <2>1, ReapEffect, SizesAssumption DEF WorkerOK, TypeOK, Worker, Empty, Abandoned
  <2>2. CASE v # reaped
    <3>1. st'[v] = st[v]
      BY <1>0, <1>12, <2>2, ReapEffect DEF TypeOK
    <3>2. v < reaped <=> v < reaped'
      BY <1>0, <1>12, <2>2, ReapEffect, SizesAssumption DEF TypeOK, Worker
    <3>3. QED
      BY <1>0, <1>12, <3>1, <3>2, ReapEffect DEF WorkerOK, Empty, Abandoned
  <2>3. QED BY <2>1, <2>2
<1>13. CASE UNCHANGED vars
  BY <1>13, <1>a DEF vars, masterVars, Same
<1>14. QED
  BY <1>1, <1>2, <1>3, <1>4, <1>5, <1>6, <1>7, <1>8, <1>9, <1>10, <1>11, <1>12, <1>13
  DEF Next, MasterStep, WorkerStep

\* Which pipes the master listens to.
LEMMA PipesStep == Inv /\ [Next]_vars => Pipes'
<1> SUFFICES ASSUME Inv, [Next]_vars, NEW v \in Worker PROVE PipeOK(v)'
  BY DEF Pipes
<1>0. PipeOK(v) /\ WorkerOK(v) /\ TypeOK /\ Phases
  BY DEF Inv, Pipes, Workers
<1> DEFINE Same == /\ UNCHANGED <<spawned, open, dispatched, ready>>
                   /\ task'[v] = task[v] /\ req'[v] = req[v] /\ resp'[v] = resp[v]
                   /\ first'[v] = first[v] /\ (st[v] = "dead" => st'[v] = "dead")
<1>a. Same => PipeOK(v)'
  BY <1>0 DEF PipeOK, Leaves, Readable, RequestEof
<1> HIDE DEF Same
<1>1. ASSUME NEW w \in Worker, Ask(w) PROVE PipeOK(v)'
  <2>1. CASE v = w
    <3>1. Readable(v)'
      BY <1>0, <1>1, <2>1, AskEffect DEF Readable, TypeOK
    <3>2. QED
      BY <1>0, <1>1, <3>1, AskEffect DEF PipeOK, Leaves
  <2>2. CASE v # w
    BY <1>0, <1>1, <1>a, <2>2, AskEffect DEF Same, TypeOK
  <2>3. QED BY <2>1, <2>2
<1>2. ASSUME NEW w \in Worker, TakeOrder(w) PROVE PipeOK(v)'
  <2>0. PICK o \in Test \cup {Exit} : TakeOf(w, o)
    BY <1>2, TakeEffect
  <2>1. CASE v = w
    <3>1. Leaves(v)' <=> Leaves(v)
      BY <1>0, <2>0, <2>1 DEF TakeOf, Leaves, TypeOK, NoTest, Exit
    <3>2. ~Readable(v)
      BY <1>0, <2>0, <2>1 DEF TakeOf, Readable, RequestEof, TypeOK
    <3>3. QED
      BY <1>0, <2>0, <3>1, <3>2 DEF TakeOf, PipeOK
  <2>2. CASE v # w
    BY <1>0, <1>a, <2>0, <2>2 DEF Same, TypeOK, TakeOf
  <2>3. QED BY <2>1, <2>2
<1>3. ASSUME NEW w \in Worker, NoMoreOrders(w) PROVE PipeOK(v)'
  BY <1>0, <1>3, <1>a, EofEffect DEF Same, TypeOK
<1>4. ASSUME NEW w \in Worker, EndTest(w) PROVE PipeOK(v)'
  <2>1. CASE v = w
    <3>1. Leaves(v)' <=> Leaves(v)
      BY <1>0, <1>4, <2>1, EndEffect, SizesAssumption DEF Leaves, TypeOK, NoTest, Exit, Test
    <3>2. ~Readable(v)
      BY <1>0, <1>4, <2>1, EndEffect DEF Readable, RequestEof, Empty
    <3>3. QED
      BY <1>0, <1>4, <3>1, <3>2, EndEffect DEF PipeOK
  <2>2. CASE v # w
    BY <1>0, <1>4, <1>a, <2>2, EndEffect DEF Same, TypeOK
  <2>3. QED BY <2>1, <2>2
<1>5. ASSUME NEW w \in Worker, FailTest(w) PROVE PipeOK(v)'
  BY <1>0, <1>5, <1>a, FailEffect DEF Same, TypeOK
<1>6. ASSUME NEW w \in Worker, ExitWorker(w) PROVE PipeOK(v)'
  BY <1>0, <1>6, <1>a, ExitEffect DEF Same, TypeOK
<1>7. CASE Spawn
  <2>1. ready = {}
    BY <1>0, <1>7, SpawnEffect DEF Phases
  <2>2. CASE v = spawned
    <3>1. ~Leaves(v)'
      <4>1. task'[v] = NoTest /\ resp'[v] = <<>>
        BY <1>7, <2>2, SpawnEffect DEF Empty
      <4>2. QED
        BY <4>1 DEF Leaves, NoTest, Exit
    <3>2. v < spawned' /\ v \in open'
      BY <1>0, <1>7, <2>2, SpawnEffect DEF TypeOK
    <3>3. QED
      BY <1>7, <2>1, <3>1, <3>2, SpawnEffect DEF PipeOK
  <2>3. CASE v # spawned
    <3>1. v < spawned <=> v < spawned'
      BY <1>0, <1>7, <2>3, SpawnEffect, SizesAssumption DEF TypeOK, Worker
    <3>2. QED
      BY <1>0, <1>7, <2>1, <2>3, <3>1, SpawnEffect DEF PipeOK, Leaves
  <2>4. QED BY <2>2, <2>3
<1>8. CASE SelectReady
  BY <1>0, <1>8 DEF SelectReady, PipeOK, Leaves, Readable, RequestEof
<1>9. ASSUME NEW w \in Worker, Serve(w) PROVE PipeOK(v)'
  <2>0. ServeOf(w)
    BY <1>9, ServeEffect
  <2>1. v < spawned
    BY <2>0, SizesAssumption DEF ServeOf, Worker
  <2>2. CASE v = w /\ dispatched < Total
    <3>1. task'[v] = NoTest /\ resp'[v] = <<dispatched>> /\ dispatched \in Test
      BY <1>0, <2>0, <2>2, SizesAssumption DEF ServeOf, TypeOK
    <3>2. ~Leaves(v)'
      BY <3>1, SizesAssumption DEF Leaves, NoTest, Exit, Test
    <3>3. QED
      BY <2>0, <2>1, <2>2, <3>2, SizesAssumption DEF ServeOf, PipeOK
  <2>3. CASE v = w /\ ~(dispatched < Total)
    <3>1. resp'[v] = <<Exit>> /\ ~first'[v]
      BY <1>0, <2>0, <2>3 DEF ServeOf, TypeOK
    <3>2. QED
      BY <2>0, <2>1, <2>3, <3>1 DEF ServeOf, PipeOK, Leaves
  <2>4. CASE v # w
    <3>1. /\ task'[v] = task[v] /\ resp'[v] = resp[v] /\ req'[v] = req[v] /\ st' = st
          /\ first'[v] = first[v] /\ (v \in open' <=> v \in open)
          /\ (v \in ready' <=> v \in ready)
      BY <1>0, <2>0, <2>4 DEF ServeOf, TypeOK
    <3>2. dispatched = Total => dispatched' = Total
      BY <2>0, SizesAssumption DEF ServeOf
    <3>3. spawned' = spawned
      BY <2>0 DEF ServeOf
    <3>4. QED
      BY <1>0, <3>1, <3>2, <3>3 DEF PipeOK, Leaves, Readable, RequestEof
  <2>5. QED BY <2>2, <2>3, <2>4
<1>10. ASSUME NEW w \in Worker, ServeEof(w) PROVE PipeOK(v)'
  BY <1>0, <1>10, ServeEofEffect DEF PipeOK, Leaves
<1>11. CASE CloseAll
  BY <1>11, <1>a DEF CloseAll, Same
<1>12. CASE Reap
  BY <1>0, <1>12, <1>a, ReapEffect DEF Same, TypeOK
<1>13. CASE UNCHANGED vars
  BY <1>13, <1>a DEF vars, masterVars, Same
<1>14. QED
  BY <1>1, <1>2, <1>3, <1>4, <1>5, <1>6, <1>7, <1>8, <1>9, <1>10, <1>11, <1>12, <1>13
  DEF Next, MasterStep, WorkerStep

\* Where each test is.
LEMMA PlacedStep == Inv /\ [Next]_vars => Placed'
<1> SUFFICES ASSUME Inv, [Next]_vars, NEW t \in Test PROVE TestOK(t)'
  BY DEF Placed
<1>0. TestOK(t) /\ TypeOK /\ t # NoTest /\ t # Exit
  BY SizesAssumption DEF Inv, Placed, Test, NoTest, Exit
<1> DEFINE Same == /\ UNCHANGED outcome /\ ended'[t] = ended[t]
                   /\ t < dispatched' <=> t < dispatched
                   /\ \A v \in Worker : Holds(v, t)' <=> Holds(v, t)
<1>a. Same => TestOK(t)'
  BY <1>0 DEF TestOK
<1>b. UNCHANGED <<outcome, task, resp, dispatched, ended>> => Same
  BY DEF Holds
<1> HIDE DEF Same
<1>1. ASSUME NEW w \in Worker, TakeOrder(w) PROVE TestOK(t)'
  <2>0. PICK o \in Test \cup {Exit} : TakeOf(w, o)
    BY <1>1, TakeEffect
  <2>1. ASSUME NEW v \in Worker PROVE Holds(v, t)' <=> Holds(v, t)
    <3>1. CASE v = w
      BY <1>0, <2>0, <3>1 DEF TakeOf, Holds, TypeOK
    <3>2. CASE v # w
      BY <1>0, <2>0, <3>2 DEF TakeOf, Holds, TypeOK
    <3>3. QED BY <3>1, <3>2
  <2>2. QED
    BY <1>a, <2>0, <2>1 DEF Same, TakeOf
<1>2. ASSUME NEW w \in Worker, EndTest(w) PROVE TestOK(t)'
  <2>1. ASSUME NEW v \in Worker, v # w PROVE Holds(v, t)' <=> Holds(v, t)
    BY <1>0, <1>2, <2>1, EndEffect DEF Holds, TypeOK
  <2>2. ~Holds(w, t)'
    BY <1>0, <1>2, EndEffect DEF Holds, TypeOK, Empty
  <2>3. CASE t = task[w]
    <3>1. Holds(w, t) /\ t < dispatched /\ t < dispatched'
      BY <1>0, <1>2, <2>3, EndEffect DEF Holds, TestOK
    <3>2. \A v \in Worker : ~Holds(v, t)'
      BY <1>0, <2>1, <2>2, <3>1 DEF TestOK
    <3>3. ended'[t] = 1 /\ outcome'[t] = "pass"
      BY <1>0, <1>2, <2>3, EndEffect DEF TypeOK
    <3>4. QED
      BY <3>1, <3>2, <3>3 DEF TestOK
  <2>4. CASE t # task[w]
    <3>1. ~Holds(w, t)
      BY <1>2, <2>4, EndEffect DEF Holds, Empty
    <3>2. ended'[t] = ended[t] /\ UNCHANGED <<outcome, dispatched>>
      BY <1>0, <1>2, <2>4, EndEffect DEF TypeOK
    <3>3. QED
      BY <1>a, <2>1, <2>2, <3>1, <3>2 DEF Same
  <2>5. QED BY <2>3, <2>4
<1>3. ASSUME NEW w \in Worker, Serve(w) PROVE TestOK(t)'
  <2>0. ServeOf(w)
    BY <1>3, ServeEffect
  <2>1. ASSUME NEW v \in Worker, v # w PROVE Holds(v, t)' <=> Holds(v, t)
    BY <1>0, <2>0, <2>1 DEF ServeOf, Holds, TypeOK
  <2>2. ~Holds(w, t)
    BY <1>0, <2>0 DEF ServeOf, Holds
  <2>3. UNCHANGED <<outcome, ended, task>>
    BY <2>0 DEF ServeOf
  <2>4. CASE dispatched < Total /\ t = dispatched
    <3>1. \A v \in Worker : ~Holds(v, t)
      BY <1>0, <2>4, SizesAssumption DEF TestOK, TypeOK
    <3>2. ended'[t] = 0
      BY <1>0, <2>3, <2>4, SizesAssumption DEF TestOK, TypeOK
    <3>3. t < dispatched'
      BY <1>0, <2>0, <2>4, SizesAssumption DEF ServeOf, TypeOK
    <3>4. Holds(w, t)'
      BY <1>0, <2>0, <2>4, SizesAssumption DEF ServeOf, Holds, TypeOK
    <3>5. QED
      BY <2>1, <3>1, <3>2, <3>3, <3>4 DEF TestOK
  <2>5. CASE ~(dispatched < Total /\ t = dispatched)
    <3>1. t < dispatched' <=> t < dispatched
      BY <1>0, <2>0, <2>5, SizesAssumption DEF ServeOf, TypeOK, Test
    <3>2. ~Holds(w, t)'
      <4>1. CASE dispatched < Total
        <5>1. resp'[w] = <<dispatched>> /\ task'[w] = NoTest
          BY <1>0, <2>0, <4>1, SizesAssumption DEF ServeOf, TypeOK
        <5>2. QED BY <1>0, <2>5, <4>1, <5>1 DEF Holds
      <4>2. CASE ~(dispatched < Total)
        <5>1. resp'[w] = <<Exit>> /\ task'[w] = NoTest
          BY <1>0, <2>0, <4>2, SizesAssumption DEF ServeOf, TypeOK
        <5>2. QED BY <1>0, <5>1 DEF Holds
      <4>3. QED BY <4>1, <4>2
    <3>3. QED
      BY <1>a, <2>1, <2>2, <2>3, <3>1, <3>2 DEF Same
  <2>6. QED BY <2>4, <2>5
<1>4. ASSUME NEW w \in Worker, Ask(w) \/ NoMoreOrders(w) \/ FailTest(w) \/ ExitWorker(w) \/ ServeEof(w)
      PROVE  TestOK(t)'
  BY <1>a, <1>b, <1>4 DEF Ask, NoMoreOrders, FailTest, ExitWorker, ServeEof, masterVars
<1>5. CASE Spawn \/ SelectReady \/ CloseAll \/ Reap \/ UNCHANGED vars
  BY <1>a, <1>b, <1>5 DEF Spawn, SelectReady, CloseAll, Reap, vars, masterVars
<1>6. QED
  BY <1>1, <1>2, <1>3, <1>4, <1>5 DEF Next, MasterStep, WorkerStep

\* What the master has counted.
LEMMA CountsStep == Inv /\ [Next]_vars => Counts'
<1> SUFFICES ASSUME Inv, [Next]_vars PROVE Counts'
  OBVIOUS
<1>0. Counts /\ TypeOK /\ Phases
  BY DEF Inv
<1>c. /\ IsFiniteSet(Unheard) /\ Cardinality(Unheard) \in Nat
      /\ IsFiniteSet(Passes) /\ Cardinality(Passes) \in Nat
  <2>1. Unheard \in SUBSET Worker /\ Passes \in SUBSET Test
    BY DEF Unheard, Passes
  <2>2. QED BY <2>1, FiniteSets
<1>e. exited' = Cardinality(Exited')
  BY ExitedStep
<1>a. UNCHANGED <<passed, failed, Unheard, Passes>> => Counts'
  BY <1>0, <1>e DEF Counts
<1>1. ASSUME NEW w \in Worker, Ask(w) PROVE Counts'
  <2>1. Unheard' = Unheard
    BY <1>0, <1>1, AskEffect DEF Unheard, TypeOK
  <2>2. QED
    BY <1>a, <1>1, <2>1, AskEffect DEF Passes
<1>2. ASSUME NEW w \in Worker, TakeOrder(w) PROVE Counts'
  <2>0. PICK o \in Test \cup {Exit} : TakeOf(w, o)
    BY <1>2, TakeEffect
  <2>1. Unheard' = Unheard
    BY <1>0, <2>0 DEF TakeOf, Unheard, TypeOK
  <2>2. QED
    BY <1>a, <2>0, <2>1 DEF TakeOf, Passes
<1>3. ASSUME NEW w \in Worker, NoMoreOrders(w) PROVE Counts'
  <2>1. Unheard' = Unheard
    BY <1>0, <1>3, EofEffect DEF Unheard, TypeOK
  <2>2. QED
    BY <1>a, <1>3, <2>1, EofEffect DEF Passes
<1>4. ASSUME NEW w \in Worker, EndTest(w) PROVE Counts'
  <2>1. Unheard' = Unheard \cup {w} /\ w \notin Unheard
    BY <1>0, <1>4, EndEffect DEF Unheard, TypeOK, Empty
  <2>2. Passes' = Passes \cup {task[w]} /\ task[w] \notin Passes
    BY <1>0, <1>4, EndEffect DEF Passes, TypeOK
  <2>3. Cardinality(Unheard') = Cardinality(Unheard) + 1 /\ Cardinality(Passes') = Cardinality(Passes) + 1
    BY <1>c, <2>1, <2>2, FS_AddElement
  <2>4. passed' = passed /\ failed' = failed
    BY <1>4, EndEffect
  <2>5. passed \in Nat
    BY <1>0 DEF TypeOK
  <2>6. QED
    BY <1>0, <1>c, <1>e, <2>3, <2>4, <2>5 DEF Counts
<1>5. ASSUME NEW w \in Worker, FailTest(w) PROVE Counts'
  <2>1. Unheard' = Unheard
    BY <1>0, <1>5, FailEffect DEF Unheard, TypeOK
  <2>2. QED
    BY <1>a, <1>5, <2>1, FailEffect DEF Passes
<1>6. ASSUME NEW w \in Worker, ExitWorker(w) PROVE Counts'
  <2>1. Unheard' = Unheard
    BY <1>0, <1>6, ExitEffect DEF Unheard, TypeOK
  <2>2. QED
    BY <1>a, <1>6, <2>1, ExitEffect DEF Passes
<1>7. CASE Spawn
  <2>1. first[spawned]
    BY <1>7, SpawnEffect DEF Inv, Workers, WorkerOK
  <2>2. Unheard' = Unheard
    BY <1>0, <1>7, <2>1, SpawnEffect DEF Unheard, TypeOK
  <2>3. QED
    BY <1>a, <1>7, <2>2, SpawnEffect DEF Passes
<1>8. CASE SelectReady \/ CloseAll \/ UNCHANGED vars
  BY <1>8, <1>a DEF SelectReady, CloseAll, vars, masterVars, Unheard, Passes
<1>9. ASSUME NEW w \in Worker, Serve(w) PROVE Counts'
  <2>0. ServeOf(w)
    BY <1>9, ServeEffect
  <2>1. Passes' = Passes /\ failed' = failed
    BY <2>0 DEF ServeOf, Passes
  <2>2. CASE first[w]
    <3>1. Unheard' = Unheard
      BY <1>0, <2>0, <2>2 DEF ServeOf, Unheard, TypeOK
    <3>2. QED
      BY <1>a, <2>0, <2>1, <2>2, <3>1 DEF ServeOf
  <2>3. CASE ~first[w]
    <3>1. Unheard' = Unheard \ {w} /\ w \in Unheard
      BY <1>0, <2>0, <2>3 DEF ServeOf, Unheard, TypeOK
    <3>2. Cardinality(Unheard') = Cardinality(Unheard) - 1
      BY <1>c, <3>1, FS_RemoveElement
    <3>3. passed' = passed + 1
      BY <2>0, <2>3 DEF ServeOf
    <3>4. passed \in Nat
      BY <1>0 DEF TypeOK
    <3>5. QED
      BY <1>0, <1>c, <1>e, <2>1, <3>2, <3>3, <3>4 DEF Counts
  <2>4. QED BY <2>2, <2>3
<1>10. ASSUME NEW w \in Worker, ServeEof(w) PROVE Counts'
  <2>1. UNCHANGED <<passed, Unheard, Passes>> /\ failed'
    BY <1>10, ServeEofEffect DEF Unheard, Passes
  <2>2. QED
    BY <1>0, <1>e, <2>1 DEF Counts
<1>11. CASE Reap
  <2>1. UNCHANGED <<passed, Passes, failed>>
    BY <1>11, ReapEffect DEF Passes
  <2>2. CASE st[reaped] = "dead"
    <3>1. Unheard' = Unheard
      BY <1>0, <1>11, <2>2, ReapEffect DEF Unheard, TypeOK
    <3>2. QED
      BY <1>a, <2>1, <3>1
  <2>3. CASE failed
    <3>1. Unheard' \in SUBSET Unheard
      BY <1>0, <1>11, ReapEffect DEF Unheard, TypeOK
    <3>2. Cardinality(Unheard') <= Cardinality(Unheard) /\ Cardinality(Unheard') \in Nat
      BY <1>c, <3>1, FS_Subset, FS_CardinalityType
    <3>3. QED
      BY <1>0, <1>c, <1>e, <2>1, <2>3, <3>2 DEF Counts, TypeOK
  <2>4. QED
    BY <1>11, <2>2, <2>3, ReapEffect DEF Abandoned
<1>12. QED
  BY <1>1, <1>2, <1>3, <1>4, <1>5, <1>6, <1>7, <1>8, <1>9, <1>10, <1>11
  DEF Next, MasterStep, WorkerStep

\* The invariant holds at first.
LEMMA Initially == Init => Inv
<1> SUFFICES ASSUME Init PROVE Inv
  OBVIOUS
<1>1. TypeOK
  <2>1. /\ resp \in [Worker -> {<<>>} \cup {<<o>> : o \in Test \cup {Exit}}]
        /\ task \in [Worker -> Test \cup {Exit, NoTest}]
    BY DEF Init
  <2>2. 0 \in 0 .. NWorkers /\ 0 \in 0 .. Total
    BY SizesAssumption
  <2>3. QED
    BY <2>1, <2>2 DEF Init, TypeOK
<1>2. Phases
  BY SizesAssumption DEF Init, Phases
<1>3. Workers
  BY SizesAssumption DEF Init, Workers, WorkerOK, Worker, Empty
<1>4. Pipes
  BY SizesAssumption DEF Init, Pipes, PipeOK, Worker, Leaves, Exit, NoTest
<1>5. Placed
  BY SizesAssumption DEF Init, Placed, TestOK, Holds, Test, NoTest
<1>6. Counts
  <2>1. Exited = {} /\ Unheard = {} /\ Passes = {}
    BY SizesAssumption DEF Init, Exited, Unheard, Passes, Worker
  <2>2. QED
    BY <2>1, FS_EmptySet DEF Counts, Init
<1>7. QED
  BY <1>1, <1>2, <1>3, <1>4, <1>5, <1>6 DEF Inv

\* The invariant, from which the properties follow (testbench.cpp:52-201).
THEOREM Invariant == Spec => []Inv
<1>1. Init => Inv
  BY Initially
<1>2. Inv /\ [Next]_vars => Inv'
  BY TypeStep, PhasesStep, WorkersStep, PipesStep, PlacedStep, CountsStep DEF Inv
<1>3. QED
  BY <1>1, <1>2, PTL DEF Spec

-----------------------------------------------------------------------------
(* Properties                                                              *)

\* Every test handed out is in one place, once, and none is handed out before
\* its turn (testbench.cpp:149-163).
THEOREM EachOnceHolds == Spec => []EachOnce
<1>1. Inv => EachOnce
  <2> SUFFICES ASSUME Inv, NEW t \in Test
               PROVE  ended[t] + Cardinality({w \in Worker : task[w] = t})
                        + Cardinality({w \in Worker : \E i \in DOMAIN resp[w] : resp[w][i] = t})
                      = IF t < dispatched THEN 1 ELSE 0
    BY DEF EachOnce
  <2> DEFINE Runs == {w \in Worker : task[w] = t}
             Waits == {w \in Worker : \E i \in DOMAIN resp[w] : resp[w][i] = t}
  <2>0. TestOK(t) /\ TypeOK /\ t # NoTest /\ ended[t] \in {0, 1}
    BY SizesAssumption DEF Inv, Placed, TypeOK, Test, NoTest
  <2>1. Waits = {w \in Worker : resp[w] = <<t>>}
    <3> SUFFICES ASSUME NEW w \in Worker
                 PROVE  (\E i \in DOMAIN resp[w] : resp[w][i] = t) <=> resp[w] = <<t>>
      OBVIOUS
    <3>1. CASE resp[w] = <<>>
      BY <3>1
    <3>2. CASE resp[w] # <<>>
      <4>1. PICK o \in Test \cup {Exit} : resp[w] = <<o>>
        BY <2>0, <3>2 DEF TypeOK
      <4>2. QED BY <4>1
    <3>3. QED BY <3>1, <3>2
  <2>2. Runs \cap Waits = {}
    BY <2>0, <2>1 DEF Inv, Workers, WorkerOK
  <2>3. Runs \cup Waits = {w \in Worker : Holds(w, t)}
    BY <2>1 DEF Holds
  <2> HIDE DEF Runs, Waits
  <2>4. /\ IsFiniteSet(Runs) /\ Cardinality(Runs) \in Nat
        /\ IsFiniteSet(Waits) /\ Cardinality(Waits) \in Nat
    <3>1. Runs \in SUBSET Worker /\ Waits \in SUBSET Worker
      BY DEF Runs, Waits
    <3>2. QED BY <3>1, FiniteSets
  <2>5. Cardinality(Runs \cup Waits) = Cardinality(Runs) + Cardinality(Waits)
    <3>1. Cardinality(Runs \cup Waits) = Cardinality(Runs) + Cardinality(Waits) - Cardinality({})
      BY <2>2, <2>4, FS_Union
    <3>2. QED BY <2>4, <3>1, FS_EmptySet
  <2>6. SUFFICES ended[t] + Cardinality(Runs \cup Waits) = IF t < dispatched THEN 1 ELSE 0
    BY <2>0, <2>4, <2>5 DEF Runs, Waits
  <2>7. CASE \E w \in Worker : Holds(w, t)
    <3>1. PICK w \in Worker : Holds(w, t)
      BY <2>7
    <3>2. Runs \cup Waits = {w}
      BY <2>0, <2>3, <3>1 DEF TestOK
    <3>3. t < dispatched /\ ended[t] = 0
      BY <2>0, <3>1 DEF TestOK
    <3>4. QED
      BY <3>2, <3>3, FS_Singleton
  <2>8. CASE ~\E w \in Worker : Holds(w, t)
    <3>1. Runs \cup Waits = {}
      BY <2>3, <2>8
    <3>2. t < dispatched <=> ended[t] = 1
      BY <2>0, <2>8 DEF TestOK
    <3>3. QED
      BY <2>0, <3>1, <3>2, FS_EmptySet
  <2>9. QED BY <2>7, <2>8
<1>2. QED
  BY <1>1, Invariant, PTL

\* The verdict of run_parallel is that of the tests (testbench.cpp:122-188).
THEOREM VerdictHolds == Spec => []Verdict
<1>1. Inv => Verdict
  <2> SUFFICES ASSUME Inv, pc = "done"
               PROVE  /\ failed <=> \E t \in Test : outcome[t] = "fail"
                      /\ ~failed => passed = Total /\ \A t \in Test : ended[t] = 1
                      /\ passed <= Cardinality({t \in Test : ended[t] = 1})
                      /\ \A w \in Worker : st[w] = "dead"
    BY DEF Verdict
  <2>0. TypeOK /\ Phases /\ Counts
    BY DEF Inv
  <2>1. \A w \in Worker : st[w] = "dead"
    BY <2>0, SizesAssumption DEF Inv, Workers, WorkerOK, Phases, Worker
  <2>2. failed => \E t \in Test : outcome[t] = "fail"
    BY <2>0 DEF Phases
  <2>3. ASSUME ~failed PROVE passed = Total /\ \A t \in Test : ended[t] = 1 /\ outcome[t] = "pass"
    <3>1. ASSUME NEW w \in Worker
          PROVE  task[w] = Exit /\ Empty(w) /\ dispatched = Total
      <4>1. w < spawned /\ w \notin open
        BY <2>0, <2>3, SizesAssumption DEF Phases, TypeOK, Worker
      <4>2. Leaves(w) /\ dispatched = Total
        BY <4>1 DEF Inv, Pipes, PipeOK
      <4>3. Empty(w)
        BY <2>1, <2>3 DEF Inv, Workers, WorkerOK, Abandoned
      <4>4. QED
        BY <4>2, <4>3 DEF Leaves, Empty
    <3>2. ASSUME NEW t \in Test PROVE ended[t] = 1 /\ outcome[t] = "pass"
      <4>1. dispatched = Total /\ t < Total /\ TestOK(t)
        BY <3>1, SizesAssumption DEF Inv, Placed, Test, Worker
      <4>2. \A w \in Worker : ~Holds(w, t)
        <5>1. SUFFICES ASSUME NEW w \in Worker PROVE ~Holds(w, t)
          OBVIOUS
        <5>2. task[w] = -1 /\ resp[w] = <<>>
          BY <3>1 DEF Empty, Exit
        <5>3. t # -1 /\ <<>> # <<t>>
          BY SizesAssumption DEF Test
        <5>4. QED
          BY <5>2, <5>3 DEF Holds
      <4>3. QED
        BY <4>1, <4>2 DEF TestOK
    <3>3. Unheard = {} /\ Passes = Test
      BY <2>1, <3>1, <3>2 DEF Unheard, Passes, Empty
    <3>4. passed = Total
      BY <2>0, <2>3, <3>3, FiniteSets, FS_EmptySet, SizesAssumption DEF Counts, TypeOK
    <3>5. QED BY <3>2, <3>4
  <2>4. passed <= Cardinality({t \in Test : ended[t] = 1})
    <3>1. Cardinality(Unheard) \in Nat /\ Cardinality(Passes) \in Nat
      <4>1. Unheard \in SUBSET Worker /\ Passes \in SUBSET Test
        BY DEF Unheard, Passes
      <4>2. QED BY <4>1, FiniteSets
    <3>2. passed <= Cardinality(Passes)
      BY <2>0, <3>1 DEF Counts, TypeOK
    <3>3. QED BY <3>2 DEF Passes
  <2>5. QED
    BY <2>0, <2>1, <2>2, <2>3, <2>4 DEF TypeOK
<1>2. QED
  BY <1>1, Invariant, PTL

-----------------------------------------------------------------------------
(* Testbench: the processes among the other parts                          *)

\* What the test bench does in the program around the tests is what it does.
LEMMA BenchInSuite == AllSpec => Spec
<1>1. AllInit => Init
  BY DEF AllInit
<1>2. [AllNext]_allVars => [Next]_vars
  BY DEF AllNext, allVars, Master, Process, OneTest, Logging, CommandLine, Ended, Next
<1> QED BY <1>1, <1>2, PTL DEF AllSpec, Spec

\* Testbench's EachOnce, in the program around the tests.
THEOREM EachOnceInSuite == AllSpec => []EachOnce
  BY BenchInSuite, EachOnceHolds, PTL

\* Testbench's Verdict, in the program around the tests.
THEOREM VerdictInSuite == AllSpec => []Verdict
  BY BenchInSuite, VerdictHolds, PTL

-----------------------------------------------------------------------------
(* Runner: the options                                                     *)

\* The size of a set is the same whichever module says it.
LEMMA SameSize == ASSUME NEW S PROVE RN!Cardinality(S) = Cardinality(S)
  BY Zenon DEF RN!Cardinality, Cardinality

\* Every option a runner may offer.
AnyOption ==
  { RN!help_ptr,
    RN!add_option("memfile", "m", "memfile", "string"),
    RN!add_option("fst_trace", "f", "fst-trace", "string"),
    RN!add_option("text_trace", "t", "text-trace", "string"),
    RN!add_option("ref_trace", "r", "ref-trace", "string"),
    RN!add_option("pty", "y", "pty", "string"),
    RN!add_option("fst_folder", "d", "fst-folder", "string"),
    RN!add_option("num_workers", "j", "num-workers", "int"),
    RN!add_flag("status", "status", "no-status"),
    RN!add_flag("debug", "debug", "no-debug"),
    RN!add_option("p_disable", "p", "p-disable", "float"),
    RN!add_flag("force_diff", "force-diff", "no-force-diff") }

\* They are told apart by their names.
Fields(o, name, short, longs, negated, type) ==
  /\ o.name = name /\ o.names.short = short /\ o.names.longs = longs
  /\ o.names.negated = negated /\ o.type = type
  /\ o.policy = IF type \in {"bool", "none"} THEN "TakeLast" ELSE "Throw"
  /\ ~o.required /\ o.needs = {} /\ o.excludes = {}

LEMMA OptionFields ==
  ASSUME NEW name, NEW names, NEW type, NEW policy
  PROVE  LET o == RN!Option(name, names, type, policy)
         IN  /\ o.name = name /\ o.names = names /\ o.type = type /\ o.policy = policy
             /\ ~o.required /\ o.needs = {} /\ o.excludes = {}
  BY Zenon DEF RN!Option

LEMMA AddOption ==
  ASSUME NEW name, NEW short, NEW long, NEW type, type \notin {"bool", "none"}
  PROVE  Fields(RN!add_option(name, short, long, type), name, short, {long}, {}, type)
  BY OptionFields DEF RN!add_option, RN!get_names, Fields

LEMMA AddFlag ==
  ASSUME NEW name, NEW long, NEW no
  PROVE  Fields(RN!add_flag(name, long, no), name, "", {long, no}, {no}, "bool")
<1> DEFINE n == RN!get_names("", {long, no}, {no})
<1>1. n.short = "" /\ n.longs = {long, no} /\ n.negated = {no}
  BY DEF RN!get_names
<1> HIDE DEF n
<1> DEFINE o == RN!Option(name, n, "bool", "TakeLast")
<1>2. /\ o.name = name /\ o.names = n /\ o.type = "bool" /\ o.policy = "TakeLast"
      /\ ~o.required /\ o.needs = {} /\ o.excludes = {}
  BY OptionFields
<1> HIDE DEF o
<1>3. Fields(o, name, "", {long, no}, {no}, "bool")
  BY <1>1, <1>2 DEF Fields
<1> QED BY <1>3 DEF RN!add_flag, n, o

LEMMA Help == Fields(RN!help_ptr, "help", "h", {"help"}, {}, "none")
  BY OptionFields DEF RN!help_ptr, RN!get_names, Fields

Kinds(o) ==
  \/ o = RN!help_ptr /\ Fields(o, "help", "h", {"help"}, {}, "none")
  \/ o = RN!add_option("memfile", "m", "memfile", "string")
       /\ Fields(o, "memfile", "m", {"memfile"}, {}, "string")
  \/ o = RN!add_option("fst_trace", "f", "fst-trace", "string")
       /\ Fields(o, "fst_trace", "f", {"fst-trace"}, {}, "string")
  \/ o = RN!add_option("text_trace", "t", "text-trace", "string")
       /\ Fields(o, "text_trace", "t", {"text-trace"}, {}, "string")
  \/ o = RN!add_option("ref_trace", "r", "ref-trace", "string")
       /\ Fields(o, "ref_trace", "r", {"ref-trace"}, {}, "string")
  \/ o = RN!add_option("pty", "y", "pty", "string") /\ Fields(o, "pty", "y", {"pty"}, {}, "string")
  \/ o = RN!add_option("fst_folder", "d", "fst-folder", "string")
       /\ Fields(o, "fst_folder", "d", {"fst-folder"}, {}, "string")
  \/ o = RN!add_option("num_workers", "j", "num-workers", "int")
       /\ Fields(o, "num_workers", "j", {"num-workers"}, {}, "int")
  \/ o = RN!add_option("p_disable", "p", "p-disable", "float")
       /\ Fields(o, "p_disable", "p", {"p-disable"}, {}, "float")
  \/ o = RN!add_flag("status", "status", "no-status")
       /\ Fields(o, "status", "", {"status", "no-status"}, {"no-status"}, "bool")
  \/ o = RN!add_flag("debug", "debug", "no-debug")
       /\ Fields(o, "debug", "", {"debug", "no-debug"}, {"no-debug"}, "bool")
  \/ o = RN!add_flag("force_diff", "force-diff", "no-force-diff")
       /\ Fields(o, "force_diff", "", {"force-diff", "no-force-diff"}, {"no-force-diff"}, "bool")

LEMMA OptionKinds == \A o \in AnyOption : Kinds(o)
  BY AddOption, AddFlag, Help DEF AnyOption, Kinds

\* An option is known by its name, and by any of the names it is called by.
LEMMA OneByName ==
  ASSUME NEW o \in AnyOption, NEW p \in AnyOption, o.name = p.name
  PROVE  o = p
  BY OptionKinds DEF Kinds, Fields

LEMMA OneCalled ==
  ASSUME NEW o \in AnyOption, NEW p \in AnyOption,
         \/ o.names.longs \cap p.names.longs # {}
         \/ o.names.short = p.names.short /\ o.names.short # ""
  PROVE  o = p
<1>1. PICK l : \/ l \in o.names.longs /\ l \in p.names.longs
               \/ o.names.short = p.names.short /\ o.names.short # ""
  OBVIOUS
<1>2. o.name = p.name
  BY <1>1, OptionKinds DEF Kinds, Fields
<1> QED BY <1>2, OneByName

LEMMA Offered == RN!options_ \in Seq(AnyOption) /\ RN!Range(RN!options_) \subseteq AnyOption
<1> DEFINE offered(b, o) == IF b THEN <<o>> ELSE <<>>
<1>1. ASSUME NEW o \in AnyOption, NEW b PROVE offered(b, o) \in Seq(AnyOption)
  OBVIOUS
<1>2. ASSUME NEW s \in Seq(AnyOption), NEW t \in Seq(AnyOption)
      PROVE  s \o t \in Seq(AnyOption)
  OBVIOUS
<1>3. ASSUME NEW o \in AnyOption PROVE <<o>> \in Seq(AnyOption)
  OBVIOUS
<1>4. RN!options_ \in Seq(AnyOption)
  <2> DEFINE m == offered(runner._init_memory, RN!add_option("memfile", "m", "memfile", "string"))
             f == offered(runner._init_fst_trace,
                          RN!add_option("fst_trace", "f", "fst-trace", "string"))
             t == offered(runner._init_text_trace,
                          RN!add_option("text_trace", "t", "text-trace", "string"))
             r == offered(runner._init_text_trace,
                          RN!add_option("ref_trace", "r", "ref-trace", "string"))
             y == offered(runner._init_pty, RN!add_option("pty", "y", "pty", "string"))
             d == offered(runner._set_fst_folder,
                          RN!add_option("fst_folder", "d", "fst-folder", "string"))
             j == offered(runner._set_num_workers,
                          RN!add_option("num_workers", "j", "num-workers", "int"))
             l == << RN!add_flag("status", "status", "no-status"),
                     RN!add_flag("debug", "debug", "no-debug"),
                     RN!add_option("p_disable", "p", "p-disable", "float"),
                     RN!add_flag("force_diff", "force-diff", "no-force-diff") >>
  <2>1. <<RN!help_ptr>> \in Seq(AnyOption)
    BY <1>3 DEF AnyOption
  <2>2. /\ m \in Seq(AnyOption) /\ f \in Seq(AnyOption) /\ t \in Seq(AnyOption)
        /\ r \in Seq(AnyOption) /\ y \in Seq(AnyOption) /\ d \in Seq(AnyOption)
        /\ j \in Seq(AnyOption)
    BY <1>1 DEF AnyOption
  <2>3. l \in Seq(AnyOption)
    BY DEF AnyOption
  <2>4. RN!options_ = <<RN!help_ptr>> \o m \o f \o t \o r \o y \o d \o j \o l
    BY DEF RN!options_, RN!OptionsOf
  <2> HIDE DEF m, f, t, r, y, d, j, l
  <2>5. <<RN!help_ptr>> \o m \o f \o t \o r \o y \o d \o j \in Seq(AnyOption)
    BY <1>2, <2>1, <2>2
  <2> QED BY <1>2, <2>3, <2>4, <2>5
<1> QED BY <1>4 DEF RN!Range

-----------------------------------------------------------------------------
(* Runner: the arguments that are values                                   *)

Less == {p \in Nat \X Nat : p[1] < p[2]}

\* Induction on the numbers, for a set.
LEMMA NumberInduction ==
  ASSUME NEW T \in SUBSET Nat, 0 \in T, \A n \in T : n + 1 \in T
  PROVE  T = Nat
<1> SUFFICES ASSUME T # Nat PROVE FALSE
  OBVIOUS
<1>1. IsWellFoundedOn(Less, Nat)
  BY NatLessThanWellFounded DEF OpToRel, Less
<1> DEFINE U == Nat \ T
<1>2. U \subseteq Nat /\ U # {}
  OBVIOUS
<1>3. PICK x \in U : \A y \in U : ~(<<y, x>> \in Less)
  BY <1>1, <1>2, WFMin
<1>4. x \in Nat /\ x \notin T /\ x # 0
  OBVIOUS
<1>5. x - 1 \in Nat /\ (x - 1) + 1 = x
  BY <1>4
<1>6. x - 1 \in U
  BY <1>4, <1>5
<1>7. <<x - 1, x>> \in Less
  BY <1>4, <1>5 DEF Less
<1> QED BY <1>3, <1>6, <1>7

\* U alternates as Taken does, up to m.
Alternates(U, m) ==
  /\ U \subseteq 0 .. m
  /\ \A i \in 0 .. m : i \in U <=> i > 1 /\ i - 1 \notin U /\ RN!NamesValued(argv[i - 1])

LEMMA TakenExists == ASSUME NEW m \in Nat PROVE \E U : Alternates(U, m)
<1> DEFINE T == {k \in Nat : \E U : Alternates(U, k)}
<1>1. 0 \in T
  <2>1. Alternates({}, 0)
    BY DEF Alternates
  <2> QED BY <2>1
<1>2. ASSUME NEW k \in T PROVE k + 1 \in T
  <2>1. k \in Nat
    OBVIOUS
  <2>2. PICK U : Alternates(U, k)
    OBVIOUS
  <2>3. CASE k > 0 /\ k \notin U /\ RN!NamesValued(argv[k])
    <3>1. Alternates(U \cup {k + 1}, k + 1)
      BY <2>1, <2>2, <2>3 DEF Alternates
    <3> QED BY <2>1, <3>1
  <2>4. CASE ~(k > 0 /\ k \notin U /\ RN!NamesValued(argv[k]))
    <3>1. Alternates(U, k + 1)
      BY <2>1, <2>2, <2>4 DEF Alternates
    <3> QED BY <2>1, <3>1
  <2> QED BY <2>3, <2>4
<1>3. T = Nat
  <2> HIDE DEF T
  <2>1. T \in SUBSET Nat
    BY DEF T
  <2> QED BY <1>1, <1>2, <2>1, NumberInduction
<1> QED BY <1>3

\* An argument is a value if the one before it is not and names an option
\* without one.
LEMMA TakenIs ==
  ASSUME argv \in Seq(RN!AnyText)
  PROVE  \A i \in DOMAIN argv :
           i \in RN!Taken <=> i > 1 /\ i - 1 \notin RN!Taken /\ RN!NamesValued(argv[i - 1])
<1> DEFINE n == Len(argv)
           Next1(t) == [i \in 0 .. n |-> i > 1 /\ ~t[i - 1] /\ RN!NamesValued(argv[i - 1])]
           taken == CHOOSE t : t = Next1(t)
<1>1. n \in Nat /\ DOMAIN argv = 1 .. n
  OBVIOUS
<1>2. PICK U : Alternates(U, n)
  BY <1>1, TakenExists
<1>3. \E t : t = Next1(t)
  <2> DEFINE t == [i \in 0 .. n |-> i \in U]
  <2>1. ASSUME NEW i \in 0 .. n
        PROVE  i \in U <=> i > 1 /\ ~t[i - 1] /\ RN!NamesValued(argv[i - 1])
    <3>1. i > 1 => i - 1 \in 0 .. n
      BY <1>1
    <3>2. i > 1 => (t[i - 1] <=> i - 1 \in U)
      BY <3>1
    <3>3. i \in U <=> i > 1 /\ i - 1 \notin U /\ RN!NamesValued(argv[i - 1])
      BY <1>2 DEF Alternates
    <3> QED BY <3>2, <3>3, Zenon
  <2>2. ASSUME NEW i \in 0 .. n
        PROVE  (i \in U) = (i > 1 /\ ~t[i - 1] /\ RN!NamesValued(argv[i - 1]))
    BY <2>1, SMT
  <2>3. t = Next1(t)
    BY <2>2, SMT
  <2> QED BY <2>3
<1>4. taken = Next1(taken)
  <2> HIDE DEF Next1
  <2> QED BY <1>3
<1>5. RN!Taken = {i \in DOMAIN argv : taken[i]}
  BY DEF RN!Taken
<1> HIDE DEF taken
<1>6. \A i \in 0 .. n : taken[i] <=> i > 1 /\ ~taken[i - 1] /\ RN!NamesValued(argv[i - 1])
  BY <1>4, Zenon
<1> QED
  <2> SUFFICES ASSUME NEW i \in DOMAIN argv
               PROVE  i \in RN!Taken <=> i > 1 /\ i - 1 \notin RN!Taken /\ RN!NamesValued(argv[i - 1])
    OBVIOUS
  <2>1. i \in 0 .. n /\ (i > 1 => i - 1 \in DOMAIN argv)
    BY <1>1
  <2>2. i \in RN!Taken <=> taken[i]
    BY <1>5, Zenon
  <2>3. i > 1 => (i - 1 \in RN!Taken <=> taken[i - 1])
    BY <1>5, <2>1, Zenon
  <2> QED BY <1>6, <2>1, <2>2, <2>3, Zenon

-----------------------------------------------------------------------------
(* Runner: the options of a runner, and the command line                   *)

\* What is known of an option that is offered.
LEMMA Sorts ==
  /\ RN!help_ptr \in RN!Range(RN!options_) /\ "help" \in RN!Names
  /\ \A o \in RN!Range(RN!options_) :
       /\ o \in AnyOption /\ o.name \in RN!Names
       /\ o.type \in {"none", "bool", "string", "int", "float"}
       /\ o.policy = IF RN!is_flag(o) THEN "TakeLast" ELSE "Throw"
       /\ o.type = "none" <=> o.name = "help"
       /\ o.type = "none" => o.names.short = "h" /\ o.names.negated = {}
       /\ o.type # "none" => o.name \in DOMAIN RN!Defaults
       /\ o.type = "bool" => o.names.short = ""
       /\ ~o.required /\ o.needs = {} /\ o.excludes = {}
<1>1. RN!help_ptr \in RN!Range(RN!options_)
  <2> DEFINE offered(b, o) == IF b THEN <<o>> ELSE <<>>
  <2> DEFINE m == offered(runner._init_memory, RN!add_option("memfile", "m", "memfile", "string"))
             f == offered(runner._init_fst_trace,
                          RN!add_option("fst_trace", "f", "fst-trace", "string"))
             t == offered(runner._init_text_trace,
                          RN!add_option("text_trace", "t", "text-trace", "string"))
             r == offered(runner._init_text_trace,
                          RN!add_option("ref_trace", "r", "ref-trace", "string"))
             y == offered(runner._init_pty, RN!add_option("pty", "y", "pty", "string"))
             d == offered(runner._set_fst_folder,
                          RN!add_option("fst_folder", "d", "fst-folder", "string"))
             j == offered(runner._set_num_workers,
                          RN!add_option("num_workers", "j", "num-workers", "int"))
             l == << RN!add_flag("status", "status", "no-status"),
                     RN!add_flag("debug", "debug", "no-debug"),
                     RN!add_option("p_disable", "p", "p-disable", "float"),
                     RN!add_flag("force_diff", "force-diff", "no-force-diff") >>
             U == AnyOption
  <2>1. ASSUME NEW b, NEW o \in U PROVE offered(b, o) \in Seq(U)
    OBVIOUS
  <2>2. RN!options_ = <<RN!help_ptr>> \o m \o f \o t \o r \o y \o d \o j \o l
    BY DEF RN!options_, RN!OptionsOf
  <2>3. /\ m \in Seq(U) /\ f \in Seq(U) /\ t \in Seq(U) /\ r \in Seq(U) /\ y \in Seq(U)
        /\ d \in Seq(U) /\ j \in Seq(U)
    BY <2>1 DEF AnyOption
  <2>4. l \in Seq(U) /\ RN!help_ptr \in U
    BY DEF AnyOption
  <2> HIDE DEF m, f, t, r, y, d, j, l, U
  <2>5. ASSUME NEW s \in Seq(U), NEW q \in Seq(U), Len(s) >= 1, s[1] = RN!help_ptr
        PROVE  s \o q \in Seq(U) /\ Len(s \o q) >= 1 /\ (s \o q)[1] = RN!help_ptr
    <3>1. s \o q \in Seq(U)
      OBVIOUS
    <3>2. Len(s \o q) = Len(s) + Len(q) /\ Len(s) \in Nat /\ Len(q) \in Nat
      BY ConcatProperties
    <3>3. (s \o q)[1] = s[1]
      BY <2>5, <3>2, ConcatProperties
    <3> QED BY <2>5, <3>1, <3>2, <3>3
  <2> DEFINE G(s) == s \in Seq(U) /\ Len(s) >= 1 /\ s[1] = RN!help_ptr
  <2>6. G(<<RN!help_ptr>>)
    BY <2>4
  <2>7. \A s, q : G(s) /\ q \in Seq(U) => G(s \o q)
    BY <2>5
  <2> HIDE DEF G
  <2>8. G(RN!options_)
    BY <2>2, <2>3, <2>4, <2>6, <2>7
  <2> QED BY <2>8 DEF RN!Range, G
<1>2. \A o \in RN!Range(RN!options_) :
       /\ o \in AnyOption /\ o.name \in RN!Names
       /\ o.type \in {"none", "bool", "string", "int", "float"}
       /\ o.policy = IF RN!is_flag(o) THEN "TakeLast" ELSE "Throw"
       /\ o.type = "none" <=> o.name = "help"
       /\ o.type = "none" => o.names.short = "h" /\ o.names.negated = {}
       /\ o.type # "none" => o.name \in DOMAIN RN!Defaults
       /\ o.type = "bool" => o.names.short = ""
       /\ ~o.required /\ o.needs = {} /\ o.excludes = {}
  <2> SUFFICES ASSUME NEW o \in RN!Range(RN!options_)
      PROVE
       /\ o \in AnyOption /\ o.name \in RN!Names
       /\ o.type \in {"none", "bool", "string", "int", "float"}
       /\ o.policy = IF RN!is_flag(o) THEN "TakeLast" ELSE "Throw"
       /\ o.type = "none" <=> o.name = "help"
       /\ o.type = "none" => o.names.short = "h" /\ o.names.negated = {}
       /\ o.type # "none" => o.name \in DOMAIN RN!Defaults
       /\ o.type = "bool" => o.names.short = ""
       /\ ~o.required /\ o.needs = {} /\ o.excludes = {}
    OBVIOUS
  <2>1. o \in AnyOption /\ o.name \in RN!Names
    BY Offered DEF RN!Names
  <2>2. Kinds(o)
    BY <2>1, OptionKinds
  <2>3. DOMAIN RN!Defaults = {"memfile", "fst_trace", "text_trace", "ref_trace", "pty", "fst_folder",
                           "num_workers", "status", "debug", "p_disable", "force_diff"}
    BY DEF RN!Defaults
  <2>4. ~o.required /\ o.needs = {} /\ o.excludes = {}
    BY <2>2 DEF Kinds, Fields
  <2>5. /\ o.type \in {"none", "bool", "string", "int", "float"}
        /\ o.policy = IF RN!is_flag(o) THEN "TakeLast" ELSE "Throw"
        /\ o.type = "none" <=> o.name = "help"
        /\ o.type = "none" => o.names.short = "h" /\ o.names.negated = {}
        /\ o.type = "bool" => o.names.short = ""
    BY <2>2 DEF Kinds, Fields, RN!is_flag
  <2>6. o.type # "none" => o.name \in DOMAIN RN!Defaults
    <3> HIDE DEF RN!Defaults
    <3> QED BY <2>2, <2>3 DEF Kinds, Fields
  <2> QED BY <2>1, <2>4, <2>5, <2>6
<1>3. RN!help_ptr.name = "help"
  BY Help DEF Fields
<1>4. "help" \in RN!Names
  BY <1>1, <1>3 DEF RN!Names
<1> QED BY <1>1, <1>2, <1>4

\* An option is known by its name.
LEMMA OneNamed ==
  ASSUME NEW o \in RN!Range(RN!options_), NEW p \in RN!Range(RN!options_), o.name = p.name
  PROVE  o = p
  BY Sorts, OneByName

\* An argument names one option at most.
LEMMA NamesOne ==
  ASSUME NEW t, t.cls = "SHORT" => t.name # "", NEW o \in RN!Named(t), NEW p \in RN!Named(t)
  PROVE  o = p
<1>1. o \in AnyOption /\ p \in AnyOption
  BY Sorts DEF RN!Named
<1>2. \/ o.names.longs \cap p.names.longs # {}
      \/ o.names.short = p.names.short /\ o.names.short # ""
  BY DEF RN!Named
<1> QED BY <1>1, <1>2, OneCalled

LEMMA AnArgument == \A t \in RN!Argument : t \in RN!AnyText
  BY Zenon DEF RN!Argument, RN!AnyText, RN!Strings

LEMMA AWord == \A w \in RN!Strings : RN!Word(w) \in RN!AnyText
  BY Zenon DEF RN!Word, RN!Text, RN!AnyText, RN!Classifier, RN!Strings

\* What is known of the command line.
LEMMA Lines ==
  ASSUME argv \in CommandLines
  PROVE  /\ argv \in Seq(RN!AnyText) /\ Len(argv) \in Nat /\ DOMAIN argv = 1 .. Len(argv)
         /\ \A i \in DOMAIN argv : argv[i] \in RN!AnyText /\ RN!Written(argv[i])
<1>1. argv \in Seq(RN!Argument) /\ \A i \in DOMAIN argv : RN!Written(argv[i])
  BY SuiteAssumption DEF RN!RunnerAssumption
<1>2. argv \in Seq(RN!AnyText)
  BY <1>1, AnArgument
<1> QED BY <1>1, <1>2

\* A step changes neither the command line nor the runner, and with them
\* nothing that is said of the command line.
LEMMA Same ==
  ASSUME argv' = argv, runner' = runner
  PROVE  /\ RN!options_' = RN!options_ /\ RN!Names' = RN!Names /\ RN!Taken' = RN!Taken /\ RN!Heads' = RN!Heads
         /\ RN!Right' = RN!Right
         /\ \A t : RN!Named(t)' = RN!Named(t)
         /\ \A o : RN!Mentions(o)' = RN!Mentions(o)
         /\ \A o : RN!LastMention(o)' = RN!LastMention(o)
         /\ \A nm : RN!Wanted(nm)' = RN!Wanted(nm)
         /\ \A o, i : RN!Result(o, i)' = RN!Result(o, i)
         /\ \A i : RN!IsMark(i)' = RN!IsMark(i)
         /\ \A o, i : RN!Goes(o, i)' = RN!Goes(o, i)
<1>1. RN!options_' = RN!options_
  BY DEF RN!options_
<1>2. RN!Taken' = RN!Taken
  BY <1>1, SMT DEF RN!Taken, RN!NamesValued, RN!Named
<1>3. RN!Heads' = RN!Heads /\ RN!Names' = RN!Names
  BY <1>1, <1>2 DEF RN!Heads, RN!Names
<1>4. RN!Right' = RN!Right
  BY <1>1, <1>2, <1>3, SMT DEF RN!Right, RN!Named, RN!Mentions, RN!LastMention, RN!ValueAt
<1>5. \A t : RN!Named(t)' = RN!Named(t)
  BY <1>1 DEF RN!Named
<1>6. \A o : RN!Mentions(o)' = RN!Mentions(o)
  BY <1>1, <1>3, SMT DEF RN!Mentions, RN!Named
<1>7. \A o : RN!LastMention(o)' = RN!LastMention(o)
  BY <1>1, <1>3, SMT DEF RN!LastMention, RN!Mentions, RN!Named
<1>8. \A nm : RN!Wanted(nm)' = RN!Wanted(nm)
  BY <1>1, <1>3, SMT
  DEF RN!Wanted, RN!OptionAt, RN!LastMention, RN!Mentions, RN!Named, RN!Says, RN!ValueAt
<1>9. \A o, i : RN!Result(o, i)' = RN!Result(o, i)
  BY SMT DEF RN!Result, RN!ValueAt
<1>10. \A i : RN!IsMark(i)' = RN!IsMark(i)
  BY DEF RN!IsMark
<1>11. \A o, i : RN!Goes(o, i)' = RN!Goes(o, i)
  BY DEF RN!Goes
<1> QED BY <1>1, <1>2, <1>3, <1>4, <1>5, <1>6, <1>7, <1>8, <1>9, <1>10, <1>11

-----------------------------------------------------------------------------
(* Runner: the vector of arguments                                         *)

LEMMA Pop ==
  ASSUME NEW S, NEW s \in Seq(S), s # <<>>
  PROVE  /\ RN!Front(s) \in Seq(S) /\ Len(RN!Front(s)) = Len(s) - 1 /\ Len(s) \in Nat \ {0}
         /\ \A k \in 1 .. Len(s) - 1 : RN!Front(s)[k] = s[k]
         /\ RN!Last(s) = s[Len(s)] /\ RN!Last(s) \in S
<1>1. Len(s) \in Nat \ {0}
  BY EmptySeq
<1>2. RN!Front(s) = [k \in 1 .. Len(s) - 1 |-> s[k]]
  BY DEF RN!Front
<1>3. \A k \in 1 .. Len(s) - 1 : s[k] \in S
  BY <1>1
<1>4. RN!Front(s) \in Seq(S)
  BY <1>1, <1>2, <1>3
<1>5. Len(RN!Front(s)) = Len(s) - 1
  BY <1>1, <1>2
<1>6. RN!Last(s) = s[Len(s)] /\ RN!Last(s) \in S
  BY <1>1 DEF RN!Last
<1> QED BY <1>1, <1>2, <1>4, <1>5, <1>6

LEMMA Push ==
  ASSUME NEW S, NEW s \in Seq(S), NEW x \in S
  PROVE  /\ Append(s, x) \in Seq(S) /\ Append(s, x) # <<>> /\ Len(Append(s, x)) = Len(s) + 1
         /\ RN!Last(Append(s, x)) = x /\ DOMAIN Append(s, x) = DOMAIN s \cup {Len(s) + 1}
         /\ Append(s, x)[Len(s) + 1] = x /\ \A k \in DOMAIN s : Append(s, x)[k] = s[k]
<1>1. /\ Append(s, x) \in Seq(S) /\ Len(Append(s, x)) = Len(s) + 1 /\ Len(s) \in Nat
      /\ Append(s, x)[Len(s) + 1] = x /\ \A k \in DOMAIN s : Append(s, x)[k] = s[k]
  OBVIOUS
<1>2. DOMAIN Append(s, x) = DOMAIN s \cup {Len(s) + 1}
  BY <1>1
<1>3. Append(s, x) # <<>>
  BY <1>1
<1>4. RN!Last(Append(s, x)) = x
  BY <1>1 DEF RN!Last
<1> QED BY <1>1, <1>2, <1>3, <1>4

LEMMA PushOne ==
  ASSUME NEW S, NEW s \in Seq(S), NEW x \in S
  PROVE  Len(Append(s, x)) = 1 <=> s = <<>>
<1>1. Len(s) = 0 <=> s = <<>>
  BY EmptySeq
<1> QED BY <1>1, Push

\* A number that is more than those of a set, and the set with it.
LEMMA OneMore ==
  ASSUME NEW A, NEW i \in Nat, \A j \in A : j \in Nat /\ j < i
  PROVE  /\ A = {} <=> \E j \in A \cup {i} : A \cup {i} = {j}
         /\ \A j \in A \cup {i} : j <= i
<1>1. ASSUME NEW j \in A \cup {i}, A \cup {i} = {j} PROVE A = {}
  BY <1>1
<1> QED BY <1>1

\* The argument that is next is the first of what is left, and no value.
LEMMA NextArg ==
  ASSUME argv \in CommandLines, args \in Seq(RN!AnyText), args # <<>>, RN!Aligned
  PROVE  /\ RN!gone \in Nat /\ RN!gone + 1 \in DOMAIN argv /\ RN!gone + 1 \in RN!Heads
         /\ RN!back = argv[RN!gone + 1] /\ RN!back \in RN!AnyText /\ RN!Written(RN!back)
         /\ Len(args) > 1 => RN!Last(RN!Front(args)) = argv[RN!gone + 2] /\ RN!gone + 2 \in DOMAIN argv
<1>1. Len(args) \in Nat \ {0} /\ RN!back = args[Len(args)]
  BY Pop DEF RN!back
<1>2. argv \in Seq(RN!AnyText) /\ Len(argv) \in Nat /\ DOMAIN argv = 1 .. Len(argv)
  BY Lines
<1>3. RN!gone \in Nat /\ RN!gone + 1 \in DOMAIN argv
  BY <1>1, <1>2 DEF RN!gone, RN!Aligned
<1>4. RN!back = argv[RN!gone + 1]
  BY <1>1, <1>2 DEF RN!gone, RN!Aligned
<1>5. RN!gone + 1 \in RN!Heads
  BY <1>3 DEF RN!Aligned, RN!Heads
<1>6. Len(args) > 1 => RN!Last(RN!Front(args)) = argv[RN!gone + 2] /\ RN!gone + 2 \in DOMAIN argv
  <2>1. HAVE Len(args) > 1
  <2>2. RN!Front(args) \in Seq(RN!AnyText) /\ Len(RN!Front(args)) = Len(args) - 1
    BY Pop
  <2>3. RN!Last(RN!Front(args)) = RN!Front(args)[Len(args) - 1]
    BY <2>2 DEF RN!Last
  <2>4. RN!Last(RN!Front(args)) = args[Len(args) - 1]
    BY <1>1, <2>1, <2>3, Pop
  <2>5. args[Len(args) - 1] = argv[Len(argv) + 1 - (Len(args) - 1)]
    BY <1>1, <2>1 DEF RN!Aligned
  <2> QED BY <1>1, <1>2, <2>1, <2>4, <2>5 DEF RN!gone, RN!Aligned
<1> QED BY <1>3, <1>4, <1>5, <1>6, Lines

\* One argument further.
LEMMA Further ==
  ASSUME argv' = argv, runner' = runner, argv \in CommandLines, args \in Seq(RN!AnyText),
         args # <<>>, RN!Aligned, args' = RN!Front(args), ~RN!NamesValued(RN!back)
  PROVE  RN!Aligned' /\ RN!gone' = RN!gone + 1
<1>1. Len(args') = Len(args) - 1 /\ Len(args) \in Nat \ {0} /\ args' \in Seq(RN!AnyText)
  BY Pop
<1>2. argv \in Seq(RN!AnyText) /\ Len(argv) \in Nat /\ DOMAIN argv = 1 .. Len(argv)
  BY Lines
<1>3. RN!gone' = RN!gone + 1 /\ RN!gone \in Nat
  BY <1>1, <1>2, NextArg DEF RN!gone
<1>4. \A k \in DOMAIN args' : args'[k] = argv'[Len(argv') + 1 - k]
  <2>1. DOMAIN args' = 1 .. Len(args) - 1 /\ DOMAIN args = 1 .. Len(args)
    BY <1>1
  <2>2. \A k \in 1 .. Len(args) - 1 : args'[k] = args[k]
    BY Pop
  <2> QED BY <1>1, <2>1, <2>2 DEF RN!Aligned
<1>5. args' # <<>> => RN!gone' + 1 \notin RN!Taken'
  <2>1. HAVE args' # <<>>
  <2>2. RN!gone + 2 \in DOMAIN argv
    BY <1>1, <2>1, NextArg
  <2>3. (RN!gone + 2) - 1 = RN!gone + 1 /\ ~RN!NamesValued(argv[RN!gone + 1])
    BY <1>3, NextArg
  <2>4. RN!gone + 2 \notin RN!Taken
    BY <1>2, <2>2, <2>3, TakenIs
  <2> QED BY <1>3, <2>4, Same
<1>6. Len(args') <= Len(argv')
  BY <1>1, <1>2 DEF RN!Aligned
<1> QED BY <1>3, <1>4, <1>5, <1>6 DEF RN!Aligned

\* An option and its value further.
LEMMA TwoFurther ==
  ASSUME argv' = argv, runner' = runner, argv \in CommandLines, args \in Seq(RN!AnyText),
         Len(args) > 1, RN!Aligned, args' = RN!Front(RN!Front(args)), RN!NamesValued(RN!back)
  PROVE  RN!Aligned' /\ RN!gone' = RN!gone + 2 /\ RN!gone + 2 \notin RN!Heads
<1>0. args # <<>>
  OBVIOUS
<1>1. /\ RN!Front(args) \in Seq(RN!AnyText) /\ Len(RN!Front(args)) = Len(args) - 1
      /\ Len(args) \in Nat \ {0} /\ RN!Front(args) # <<>>
      /\ \A k \in 1 .. Len(args) - 1 : RN!Front(args)[k] = args[k]
  BY <1>0, Pop
<1>2. /\ args' \in Seq(RN!AnyText) /\ Len(args') = Len(args) - 2
      /\ \A k \in 1 .. Len(args) - 2 : args'[k] = RN!Front(args)[k]
  <2> DEFINE f == RN!Front(args)
  <2>1. f \in Seq(RN!AnyText) /\ f # <<>> /\ Len(f) = Len(args) - 1 /\ args' = RN!Front(f)
    BY <1>1
  <2> HIDE DEF f
  <2>2. /\ args' \in Seq(RN!AnyText) /\ Len(args') = Len(f) - 1
        /\ \A k \in 1 .. Len(f) - 1 : args'[k] = f[k]
    BY <2>1, Pop
  <2> QED BY <1>1, <2>1, <2>2 DEF f
<1>3. argv \in Seq(RN!AnyText) /\ Len(argv) \in Nat /\ DOMAIN argv = 1 .. Len(argv)
  BY Lines
<1>4. RN!gone' = RN!gone + 2 /\ RN!gone \in Nat
  BY <1>0, <1>1, <1>2, <1>3, NextArg DEF RN!gone
<1>5. \A k \in DOMAIN args' : args'[k] = argv'[Len(argv') + 1 - k]
  <2>1. DOMAIN args' = 1 .. Len(args) - 2 /\ DOMAIN args = 1 .. Len(args)
    BY <1>1, <1>2
  <2>2. \A k \in 1 .. Len(args) - 2 : args'[k] = args[k]
    BY <1>1, <1>2
  <2> QED BY <1>1, <2>1, <2>2 DEF RN!Aligned
<1>6. RN!gone + 2 \in RN!Taken
  <2>1. RN!gone + 2 \in DOMAIN argv /\ RN!back = argv[RN!gone + 1] /\ RN!gone + 1 \notin RN!Taken
    BY <1>0, NextArg DEF RN!Heads
  <2>2. (RN!gone + 2) - 1 = RN!gone + 1 /\ RN!gone + 2 > 1 /\ RN!NamesValued(argv[RN!gone + 1])
    BY <1>4, <2>1
  <2> QED BY <1>3, <2>1, <2>2, TakenIs
<1>7. args' # <<>> => RN!gone' + 1 \notin RN!Taken'
  <2>1. HAVE args' # <<>>
  <2>2. Len(args) > 2
    BY <1>1, <1>2, <2>1
  <2>3. RN!gone + 3 \in DOMAIN argv
    BY <1>1, <1>3, <1>4, <2>2 DEF RN!gone
  <2>4. (RN!gone + 3) - 1 = RN!gone + 2 /\ RN!gone' + 1 = RN!gone + 3
    BY <1>4
  <2>5. RN!gone + 3 \notin RN!Taken
    BY <1>3, <1>6, <2>3, <2>4, TakenIs
  <2> QED BY <2>4, <2>5, Same
<1>8. Len(args') <= Len(argv')
  BY <1>1, <1>2, <1>3 DEF RN!Aligned
<1> QED BY <1>4, <1>5, <1>6, <1>7, <1>8 DEF RN!Aligned, RN!Heads

-----------------------------------------------------------------------------
(* Runner: what has been found so far                                      *)

\* The options that the next argument names are those seen besides.
LEMMA SeenNext ==
  ASSUME argv' = argv, runner' = runner, argv \in CommandLines, RN!gone \in Nat,
         RN!gone + 1 \in RN!Heads,
         RN!gone' = RN!gone + 1 \/ (RN!gone' = RN!gone + 2 /\ RN!gone + 2 \notin RN!Heads)
  PROVE  /\ \A i \in RN!Heads : i \in Nat /\ (i <= RN!gone' <=> i <= RN!gone \/ i = RN!gone + 1)
         /\ \A o : /\ RN!Seen(o)' = IF o \in RN!Named(argv[RN!gone + 1]) THEN RN!Seen(o) \cup {RN!gone + 1}
                                 ELSE RN!Seen(o)
                 /\ \A i \in RN!Seen(o) : i \in Nat /\ i <= RN!gone /\ i \in RN!Mentions(o)
<1>1. \A i \in RN!Heads : i \in Nat /\ (i <= RN!gone' <=> i <= RN!gone \/ i = RN!gone + 1)
  BY Lines DEF RN!Heads
<1>2. ASSUME NEW o
      PROVE  /\ RN!Seen(o)' = IF o \in RN!Named(argv[RN!gone + 1]) THEN RN!Seen(o) \cup {RN!gone + 1}
                           ELSE RN!Seen(o)
             /\ \A i \in RN!Seen(o) : i \in Nat /\ i <= RN!gone /\ i \in RN!Mentions(o)
  <2>1. RN!Seen(o)' = {i \in RN!Mentions(o) : i <= RN!gone'}
    BY Same DEF RN!Seen
  <2>2. RN!Mentions(o) \subseteq RN!Heads
    BY DEF RN!Mentions
  <2>3. RN!gone + 1 \in RN!Mentions(o) <=> o \in RN!Named(argv[RN!gone + 1])
    BY DEF RN!Mentions
  <2> QED BY <1>1, <2>1, <2>2, <2>3 DEF RN!Seen
<1> QED BY <1>1, <1>2

\* An argument that names no option.
LEMMA FoundKept ==
  ASSUME argv' = argv, runner' = runner, argv \in CommandLines, RN!gone \in Nat,
         RN!gone + 1 \in RN!Heads, RN!gone' = RN!gone + 1, RN!Named(argv[RN!gone + 1]) = {},
         results' = results, RN!Found
  PROVE  RN!Found'
<1> SUFFICES ASSUME NEW p \in RN!Range(RN!options_) PROVE RN!Recorded(p)'
  BY Same DEF RN!Found
<1>1. RN!Seen(p)' = RN!Seen(p)
  BY SeenNext
<1>2. RN!Recorded(p)
  BY DEF RN!Found
<1> QED BY <1>1, <1>2, Same DEF RN!Recorded

\* An argument that names an option.
LEMMA FoundMore ==
  ASSUME argv' = argv, runner' = runner, argv \in CommandLines, RN!gone \in Nat,
         RN!gone + 1 \in RN!Heads,
         RN!gone' = RN!gone + 1 \/ (RN!gone' = RN!gone + 2 /\ RN!gone + 2 \notin RN!Heads),
         results \in [RN!Names -> Seq(RN!AnyText)], RN!Found,
         NEW o \in RN!Named(argv[RN!gone + 1]), RN!Result(o, RN!gone + 1) \in RN!AnyText,
         results' = [results EXCEPT ![o.name] = Append(@, RN!Result(o, RN!gone + 1))],
         RN!Goes(o, RN!gone + 1)
  PROVE  RN!Found'
<1> DEFINE i == RN!gone + 1
           x == RN!Result(o, i)
<1> SUFFICES ASSUME NEW p \in RN!Range(RN!options_) PROVE RN!Recorded(p)'
  BY Same DEF RN!Found
<1>1. RN!Recorded(p) /\ p.name \in RN!Names /\ o \in RN!Range(RN!options_) /\ o.name \in RN!Names
  BY Sorts DEF RN!Found, RN!Named
<1>2. i \in DOMAIN argv /\ argv[i].cls = "SHORT" => argv[i].name # ""
  BY Lines DEF RN!Heads, RN!Written
<1>3. CASE p # o
  <2>1. p \notin RN!Named(argv[i])
    BY <1>2, <1>3, NamesOne, Lines DEF RN!Heads, RN!Written
  <2>2. RN!Seen(p)' = RN!Seen(p)
    BY <2>1, SeenNext
  <2>3. results'[p.name] = results[p.name]
    BY <1>1, <1>3, OneNamed
  <2> QED BY <1>1, <2>2, <2>3, Same DEF RN!Recorded
<1>4. CASE p = o
  <2>1. /\ RN!Seen(o)' = RN!Seen(o) \cup {i} /\ i \in Nat
        /\ \A j \in RN!Seen(o) : j \in Nat /\ j < i
    <3>1. /\ RN!Seen(o)' = RN!Seen(o) \cup {i} /\ i \in Nat
          /\ \A j \in RN!Seen(o) : j \in Nat /\ j <= RN!gone
      BY SeenNext
    <3> QED BY <3>1
  <2>2. results'[o.name] = Append(results[o.name], x) /\ results[o.name] \in Seq(RN!AnyText)
    BY <1>1, Zenon
  <2>3. results[o.name] = <<>> <=> RN!Seen(o) = {}
    BY <1>1, <1>4, Zenon DEF RN!Recorded
  <2> DEFINE s == results[o.name]
             t == results'[o.name]
             A == RN!Seen(o)
             B == RN!Seen(o)'
  <2>4. /\ s \in Seq(RN!AnyText) /\ x \in RN!AnyText /\ t = Append(s, x) /\ i \in Nat
        /\ \A j \in A : j \in Nat /\ j < i
        /\ B = A \cup {i} /\ (s = <<>> <=> A = {})
    BY <2>1, <2>2, <2>3
  <2> HIDE DEF x, i, s, t, A, B
  <2>5. /\ t # <<>> /\ RN!Last(t) = x /\ B # {}
        /\ Len(t) = 1 <=> \E j \in B : B = {j}
        /\ i \in B /\ \A j \in B : j <= i
    <3>1. /\ t # <<>> /\ RN!Last(t) = x
          /\ Len(t) = 1 <=> s = <<>>
      BY <2>4, Push, PushOne
    <3>2. /\ A = {} <=> \E j \in B : B = {j}
          /\ i \in B /\ \A j \in B : j <= i
      BY <2>4, OneMore
    <3> QED BY <2>4, <3>1, <3>2
  <2>6. \E j \in B : (\A k \in B : k <= j) /\ RN!Last(t) = RN!Result(o, j)
    BY <2>5, Zenon DEF x
  <2>7. \A j \in B : RN!Goes(o, j) /\ RN!Goes(o, j)' = RN!Goes(o, j)
    BY <1>1, <1>4, <2>4, Same DEF RN!Recorded, A, i
  <2>8. RN!Recorded(o)'
    BY <2>5, <2>6, <2>7, Same, Zenon DEF RN!Recorded, t, B
  <2> QED BY <1>4, <2>8
<1> QED BY <1>3, <1>4

\* A "--", or a second one.
LEMMA CleanMark ==
  ASSUME argv' = argv, runner' = runner, argv \in CommandLines, RN!gone \in Nat,
         RN!gone + 1 \in RN!Heads, RN!gone' = RN!gone + 1, RN!IsMark(RN!gone + 1),
         positional_only' = TRUE, results' = results,
         missing_ \in Seq(RN!AnyText), missing_' = Append(missing_, argv[RN!gone + 1]), RN!Clean
  PROVE  RN!Clean'
<1>1. \A i \in RN!Heads : i \in Nat /\ (i <= RN!gone' <=> i <= RN!gone \/ i = RN!gone + 1)
  BY SeenNext
<1>2. ASSUME NEW i \in RN!Heads', i <= RN!gone'
      PROVE  /\ RN!Named(argv[i])' # {} \/ RN!IsMark(i)'
             /\ RN!IsMark(i)' =>
                  positional_only' /\ \A j \in RN!Heads' : i <= j /\ j <= RN!gone' => RN!IsMark(j)'
  <2>1. i \in RN!Heads /\ RN!Heads' = RN!Heads
    BY Same
  <2>2. RN!Named(argv[i])' = RN!Named(argv[i])
    BY Same DEF RN!Named
  <2>3. \A j : RN!IsMark(j)' = RN!IsMark(j)
    BY Same
  <2>4. RN!Named(argv[i]) # {} \/ RN!IsMark(i)
    BY <1>1, <1>2, <2>1 DEF RN!Clean
  <2>5. RN!IsMark(i) => \A j \in RN!Heads : i <= j /\ j <= RN!gone' => RN!IsMark(j)
    BY <1>1, <1>2, <2>1 DEF RN!Clean
  <2> QED BY <2>1, <2>2, <2>3, <2>4, <2>5
<1>3. \E i \in RN!Heads' : i <= RN!gone' /\ RN!IsMark(i)'
  BY <1>1, Same
<1>4. \A k \in DOMAIN missing_' : missing_'[k].cls = "POSITIONAL_MARK"
  <2>1. argv[RN!gone + 1] \in RN!AnyText /\ argv[RN!gone + 1].cls = "POSITIONAL_MARK"
    BY Lines DEF RN!Heads, RN!IsMark
  <2>2. \A k \in DOMAIN missing_ : missing_[k].cls = "POSITIONAL_MARK"
    BY DEF RN!Clean
  <2> QED BY <2>1, <2>2, Push
<1>5. results'["help"] = <<>>
  BY DEF RN!Clean
<1> QED BY <1>2, <1>3, <1>4, <1>5 DEF RN!Clean

\* An option.
LEMMA CleanOption ==
  ASSUME argv' = argv, runner' = runner, argv \in CommandLines, RN!gone \in Nat,
         RN!gone + 1 \in RN!Heads,
         RN!gone' = RN!gone + 1 \/ (RN!gone' = RN!gone + 2 /\ RN!gone + 2 \notin RN!Heads),
         RN!Named(argv[RN!gone + 1]) # {}, ~positional_only,
         positional_only' = positional_only, missing_' = missing_,
         results'["help"] = <<>>, RN!Clean
  PROVE  RN!Clean'
<1>1. \A i \in RN!Heads : i \in Nat /\ (i <= RN!gone' <=> i <= RN!gone \/ i = RN!gone + 1)
  BY SeenNext
<1>2. ~RN!IsMark(RN!gone + 1)
  BY DEF RN!Named, RN!IsMark
<1>3. \A i \in RN!Heads : i <= RN!gone => ~RN!IsMark(i)
  BY DEF RN!Clean
<1>4. ASSUME NEW i \in RN!Heads', i <= RN!gone'
      PROVE  RN!Named(argv[i])' # {} /\ ~RN!IsMark(i)'
  <2>1. i \in RN!Heads /\ RN!Heads' = RN!Heads
    BY Same
  <2>2. RN!Named(argv[i])' = RN!Named(argv[i]) /\ RN!IsMark(i)' = RN!IsMark(i)
    BY Same DEF RN!Named
  <2>3. RN!Named(argv[i]) # {} /\ ~RN!IsMark(i)
    BY <1>1, <1>2, <1>3, <1>4, <2>1 DEF RN!Clean
  <2> QED BY <2>2, <2>3
<1>5. \A k \in DOMAIN missing_' : missing_'[k].cls = "POSITIONAL_MARK"
  BY DEF RN!Clean
<1> QED BY <1>4, <1>5 DEF RN!Clean

-----------------------------------------------------------------------------
(* Runner: steps of the parser                                             *)

\* The vectors of the parser are vectors of arguments.
Vectors ==
  /\ args \in Seq(RN!AnyText) /\ \A k \in DOMAIN args : RN!Written(args[k])
  /\ positional_only \in BOOLEAN
  /\ results \in [RN!Names -> Seq(RN!AnyText)] /\ missing_ \in Seq(RN!AnyText)

\* What the invariant is while the parser runs.
LEMMA ParseInv ==
  ASSUME RN!RInv, phase = "parse"
  PROVE  /\ argv \in CommandLines /\ Vectors /\ opt = 1 /\ config = RN!Defaults
         /\ RN!Doomed \/ RN!OnTrack
  BY DEF RN!RInv, RN!RunnerTypes, Vectors

\* It goes on.
LEMMA StillParsing ==
  ASSUME RN!RInv, RN!Parsing, RN!Continue, Vectors', RN!Doomed' \/ RN!OnTrack'
  PROVE  RN!RInv'
<1>1. /\ argv' = argv /\ runner' = runner /\ phase = "parse" /\ phase' = "parse"
      /\ opt' = opt /\ config' = config /\ log' = log /\ top' = top
  BY DEF RN!Parsing, RN!Continue
<1>2. RN!RunnerTypes'
  BY <1>1, Same DEF RN!RInv, RN!RunnerTypes, Vectors
<1>3. /\ phase' \in RN!Before \cup RN!Going \cup RN!After /\ phase' \notin RN!Going \cup RN!After
      /\ phase' \notin {"callbacks", "exit", "terminated"}
  BY <1>1 DEF RN!Before, RN!Going, RN!After
<1>4. phase' \in RN!Before => top' = RN!NoModel /\ ~log'.log_enabled
  BY <1>1 DEF RN!RInv, RN!Before
<1>5. opt' = 1 /\ config' = RN!Defaults /\ (RN!Doomed' \/ RN!OnTrack')
  BY <1>1 DEF RN!RInv
<1> QED BY <1>2, <1>3, <1>4, <1>5 DEF RN!RInv

\* It stops, and so does the program.
LEMMA Stopped ==
  ASSUME RN!RInv, phase \in {"parse", "callbacks"}, phase' \in {"exit", "terminated"},
         UNCHANGED <<argv, runner, RN!parseVars, opt, config, log, top>>, ~RN!Right
  PROVE  RN!RInv'
<1>1. /\ argv' = argv /\ runner' = runner /\ args' = args /\ missing_' = missing_
      /\ positional_only' = positional_only /\ results' = results
      /\ opt' = opt /\ config' = config /\ log' = log /\ top' = top
  BY DEF RN!parseVars
<1>2. RN!RunnerTypes'
  BY <1>1, Same DEF RN!RInv, RN!RunnerTypes
<1>3. /\ phase' \in RN!Before \cup RN!Going \cup RN!After /\ phase' \notin RN!Going \cup RN!After
      /\ phase' \notin {"parse", "callbacks"} /\ phase \in RN!Before
  BY DEF RN!Before, RN!Going, RN!After
<1>4. ~RN!Right' /\ top' = RN!NoModel /\ ~log'.log_enabled
  BY <1>1, <1>3, Same DEF RN!RInv
<1> QED BY <1>2, <1>3, <1>4 DEF RN!RInv

\* A wrong command line stays one.
LEMMA StillDoomed ==
  ASSUME argv' = argv, runner' = runner, Vectors, RN!Doomed,
         missing_' = missing_ \/ \E a \in RN!AnyText : missing_' = Append(missing_, a),
         \/ results' = results
         \/ \E nm \in RN!Names, a \in RN!AnyText : results' = [results EXCEPT ![nm] = Append(@, a)]
  PROVE  RN!Doomed'
<1>1. ~RN!Right'
  BY Same DEF RN!Doomed
<1>2. CASE results["help"] # <<>>
  <2>1. results'["help"] # <<>>
    <3>1. CASE results' = results
      BY <1>2, <3>1
    <3>2. ASSUME NEW nm \in RN!Names, NEW a \in RN!AnyText,
                 results' = [results EXCEPT ![nm] = Append(@, a)]
          PROVE  results'["help"] # <<>>
      <4>1. CASE nm = "help"
        <5>1. results'["help"] = Append(results["help"], a) /\ results["help"] \in Seq(RN!AnyText)
          BY <3>2, <4>1, Sorts DEF Vectors
        <5> QED BY <5>1, Push
      <4>2. CASE nm # "help"
        BY <1>2, <3>2, <4>2, Sorts DEF Vectors
      <4> QED BY <4>1, <4>2
    <3> QED BY <3>1, <3>2
  <2> QED BY <1>1, <2>1 DEF RN!Doomed
<1>3. CASE \E k \in DOMAIN missing_ : missing_[k].cls # "POSITIONAL_MARK"
  <2>1. PICK k \in DOMAIN missing_ : missing_[k].cls # "POSITIONAL_MARK"
    BY <1>3
  <2>2. missing_ \in Seq(RN!AnyText)
    BY DEF Vectors
  <2>3. k \in DOMAIN missing_' /\ missing_'[k] = missing_[k]
    <3>1. ASSUME NEW a \in RN!AnyText, missing_' = Append(missing_, a)
          PROVE  k \in DOMAIN missing_' /\ missing_'[k] = missing_[k]
      BY <2>2, <3>1, Push
    <3> QED BY <3>1
  <2> QED BY <1>1, <2>1, <2>3 DEF RN!Doomed
<1> QED BY <1>2, <1>3 DEF RN!Doomed

\* What is missing is wrong if it names no option, or comes after a "--".
LEMMA WrongWord ==
  ASSUME argv \in CommandLines, RN!OnTrack, RN!gone \in Nat, RN!gone + 1 \in RN!Heads,
         ~RN!IsMark(RN!gone + 1), positional_only \/ RN!Named(argv[RN!gone + 1]) = {}
  PROVE  ~RN!Right
<1>1. CASE RN!Named(argv[RN!gone + 1]) = {}
  BY <1>1 DEF RN!Right, RN!IsMark
<1>2. CASE positional_only
  <2>1. PICK j \in RN!Heads : j <= RN!gone /\ RN!IsMark(j)
    BY <1>2 DEF RN!OnTrack, RN!Clean
  <2>2. RN!Named(argv[j]) = {}
    BY <2>1 DEF RN!IsMark, RN!Named
  <2>3. j \in Nat /\ RN!gone + 1 >= j
    BY <2>1, Lines DEF RN!Heads
  <2> QED BY <2>2, <2>3 DEF RN!Right, RN!IsMark
<1> QED BY <1>1, <1>2

\* A word that is moved to missing_ as the next argument is.
LEMMA Missing ==
  ASSUME RN!RInv, RN!Parsing, RN!Continue, args # <<>>, args' = RN!Front(args), RN!_move_to_missing,
         results' = results, positional_only' \in BOOLEAN,
         RN!OnTrack => RN!OnTrack' \/ (~RN!Right /\ RN!back.cls # "POSITIONAL_MARK")
  PROVE  RN!RInv'
<1>1. argv' = argv /\ runner' = runner /\ phase = "parse"
  BY DEF RN!Parsing
<1>2. argv \in CommandLines /\ Vectors /\ (RN!Doomed \/ RN!OnTrack)
  BY <1>1, ParseInv
<1>3. RN!back \in RN!AnyText
  BY <1>2, Pop DEF Vectors, RN!back
<1>4. Vectors'
  <2>0. args \in Seq(RN!AnyText) /\ DOMAIN args = 1 .. Len(args)
    BY <1>2 DEF Vectors
  <2>1. /\ args' \in Seq(RN!AnyText) /\ Len(args') = Len(args) - 1 /\ Len(args) \in Nat
        /\ \A k \in 1 .. Len(args) - 1 : args'[k] = args[k]
    BY <2>0, Pop
  <2>2. \A k \in DOMAIN args' : RN!Written(args'[k])
    BY <1>2, <2>0, <2>1 DEF Vectors
  <2>3. missing_' \in Seq(RN!AnyText)
    BY <1>2, <1>3, Push DEF Vectors, RN!_move_to_missing
  <2> QED BY <1>1, <1>2, <2>1, <2>2, <2>3, Same DEF Vectors
<1>5. CASE RN!Doomed
  BY <1>1, <1>2, <1>3, <1>4, <1>5, StillDoomed, StillParsing DEF RN!_move_to_missing
<1>6. CASE RN!OnTrack /\ ~RN!Right /\ RN!back.cls # "POSITIONAL_MARK"
  <2>1. missing_' = Append(missing_, RN!back) /\ missing_ \in Seq(RN!AnyText)
    BY <1>2 DEF RN!_move_to_missing, Vectors
  <2>2. \E k \in DOMAIN missing_' : missing_'[k].cls # "POSITIONAL_MARK"
    BY <1>3, <1>6, <2>1, Push
  <2>3. RN!Doomed'
    BY <1>1, <1>6, <2>2, Same DEF RN!Doomed
  <2> QED BY <1>4, <2>3, StillParsing
<1>7. CASE RN!OnTrack'
  BY <1>4, <1>7, StillParsing
<1> QED BY <1>2, <1>5, <1>6, <1>7

LEMMA MarkOn ==
  ASSUME RN!RInv, RN!Parsing, args # <<>>, RN!OnTrack, args' = RN!Front(args), RN!_move_to_missing,
         results' = results, RN!back.cls = "POSITIONAL_MARK", positional_only' = TRUE
  PROVE  RN!OnTrack'
<1>1. argv' = argv /\ runner' = runner /\ argv \in CommandLines /\ Vectors
  BY ParseInv DEF RN!Parsing
<1>2. args \in Seq(RN!AnyText) /\ missing_ \in Seq(RN!AnyText) /\ RN!Aligned /\ RN!Found /\ RN!Clean
  BY <1>1 DEF Vectors, RN!OnTrack
<1>3. /\ RN!gone \in Nat /\ RN!gone + 1 \in RN!Heads /\ RN!back = argv[RN!gone + 1]
  BY <1>1, <1>2, NextArg
<1>4. RN!Named(RN!back) = {} /\ ~RN!NamesValued(RN!back) /\ RN!IsMark(RN!gone + 1)
  BY <1>3 DEF RN!Named, RN!NamesValued, RN!IsMark
<1>5. RN!Aligned' /\ RN!gone' = RN!gone + 1
  BY <1>1, <1>2, <1>4, Further
<1>6. RN!Found'
  BY <1>1, <1>2, <1>3, <1>4, <1>5, FoundKept
<1>7. RN!Clean'
  BY <1>1, <1>2, <1>3, <1>4, <1>5, CleanMark DEF RN!_move_to_missing
<1> QED BY <1>5, <1>6, <1>7 DEF RN!OnTrack

LEMMA ParseMarkStep == ASSUME RN!RInv, RN!ParseMark PROVE RN!RInv'
<1>1. /\ RN!Parsing /\ RN!Continue /\ args # <<>> /\ args' = RN!Front(args) /\ RN!_move_to_missing
      /\ results' = results /\ positional_only' = TRUE /\ RN!back.cls = "POSITIONAL_MARK"
  BY DEF RN!ParseMark, RN!_recognize
<1>2. RN!OnTrack => RN!OnTrack'
  BY <1>1, MarkOn
<1> QED BY <1>1, <1>2, Missing

LEMMA ParsePositionalStep == ASSUME RN!RInv, RN!_parse_positional PROVE RN!RInv'
<1>1. /\ RN!Parsing /\ RN!Continue /\ args # <<>> /\ args' = RN!Front(args) /\ RN!_move_to_missing
      /\ results' = results /\ positional_only' = positional_only
      /\ positional_only \/ RN!back.cls = "NONE"
  BY DEF RN!_parse_positional, RN!_recognize
<1>2. argv \in CommandLines /\ Vectors
  BY <1>1, ParseInv DEF RN!Parsing
<1>3. positional_only' \in BOOLEAN
  BY <1>1, <1>2 DEF Vectors
<1>4. RN!OnTrack => RN!OnTrack' \/ (~RN!Right /\ RN!back.cls # "POSITIONAL_MARK")
  <2> SUFFICES ASSUME RN!OnTrack PROVE RN!OnTrack' \/ (~RN!Right /\ RN!back.cls # "POSITIONAL_MARK")
    OBVIOUS
  <2>1. CASE RN!back.cls = "POSITIONAL_MARK"
    <3>1. positional_only' = TRUE
      BY <1>1, <1>2, <2>1 DEF Vectors
    <3> QED BY <1>1, <2>1, <3>1, MarkOn
  <2>2. CASE RN!back.cls # "POSITIONAL_MARK"
    <3>1. RN!gone \in Nat /\ RN!gone + 1 \in RN!Heads /\ RN!back = argv[RN!gone + 1]
      BY <1>1, <1>2, NextArg DEF RN!OnTrack, Vectors
    <3>2. ~RN!IsMark(RN!gone + 1) /\ (RN!back.cls = "NONE" => RN!Named(RN!back) = {})
      BY <2>2, <3>1 DEF RN!IsMark, RN!Named
    <3> QED BY <1>1, <1>2, <2>2, <3>1, <3>2, WrongWord
  <2> QED BY <2>1, <2>2
<1> QED BY <1>1, <1>3, <1>4, Missing

LEMMA ParseUnknownStep == ASSUME RN!RInv, RN!ParseUnknown PROVE RN!RInv'
<1>1. /\ RN!Parsing /\ RN!Continue /\ args # <<>> /\ args' = RN!Front(args) /\ RN!_move_to_missing
      /\ results' = results /\ positional_only' = positional_only
      /\ RN!back.cls # "POSITIONAL_MARK" /\ RN!Named(RN!back) = {}
  BY DEF RN!ParseUnknown, RN!Given, RN!_recognize
<1>2. argv \in CommandLines /\ Vectors
  BY <1>1, ParseInv DEF RN!Parsing
<1>3. positional_only' \in BOOLEAN
  BY <1>1, <1>2 DEF Vectors
<1>4. RN!OnTrack => ~RN!Right /\ RN!back.cls # "POSITIONAL_MARK"
  <2> SUFFICES ASSUME RN!OnTrack PROVE ~RN!Right
    BY <1>1
  <2>1. RN!gone \in Nat /\ RN!gone + 1 \in RN!Heads /\ RN!back = argv[RN!gone + 1]
    BY <1>1, <1>2, NextArg DEF RN!OnTrack, Vectors
  <2>2. ~RN!IsMark(RN!gone + 1) /\ RN!Named(argv[RN!gone + 1]) = {}
    BY <1>1, <2>1 DEF RN!IsMark
  <2> QED BY <1>2, <2>1, <2>2, WrongWord
<1> QED BY <1>1, <1>3, <1>4, Missing

\* What is taken as a result is an argument.
LEMMA FlagValue ==
  ASSUME NEW o, NEW name, NEW value \in RN!Strings
  PROVE  RN!get_flag_value(o, name, value) \in RN!AnyText
<1>1. {value, "true", "false"} \subseteq RN!Strings
  BY DEF RN!Strings
<1>2. \E w \in {value, "true", "false"} : RN!get_flag_value(o, name, value) = RN!Word(w)
  BY Zenon DEF RN!get_flag_value
<1> QED BY <1>1, <1>2, AWord

\* An option that the next argument names.
LEMMA OptionAhead ==
  ASSUME RN!RInv, RN!Parsing, RN!Given, NEW o \in RN!Named(RN!back)
  PROVE  /\ argv' = argv /\ runner' = runner /\ phase = "parse" /\ argv \in CommandLines
         /\ Vectors /\ (RN!Doomed \/ RN!OnTrack)
         /\ args # <<>> /\ ~positional_only
         /\ RN!back \in RN!AnyText /\ RN!back.cls \in {"LONG", "SHORT"} /\ RN!Written(RN!back)
         /\ o \in RN!Range(RN!options_) /\ o.name \in RN!Names
         /\ RN!is_flag(o) /\ RN!back.cls = "SHORT" => o.type = "none" /\ RN!back.name = "h"
         /\ RN!NamesValued(RN!back) <=> ~RN!is_flag(o) /\ RN!back.value = ""
<1>1. /\ argv' = argv /\ runner' = runner /\ phase = "parse" /\ args # <<>> /\ ~positional_only
      /\ RN!back.cls \in {"LONG", "SHORT"}
  BY DEF RN!Parsing, RN!Given, RN!_recognize
<1>2. argv \in CommandLines /\ Vectors /\ (RN!Doomed \/ RN!OnTrack)
  BY <1>1, ParseInv
<1>3. RN!back \in RN!AnyText /\ RN!Written(RN!back)
  <2>1. args \in Seq(RN!AnyText) /\ \A k \in DOMAIN args : RN!Written(args[k])
    BY <1>2 DEF Vectors
  <2>2. RN!back = args[Len(args)] /\ Len(args) \in DOMAIN args /\ RN!back \in RN!AnyText
    BY <1>1, <2>1, Pop DEF RN!back
  <2> QED BY <2>1, <2>2
<1>4. o \in RN!Range(RN!options_) /\ o.name \in RN!Names
  BY Sorts DEF RN!Named
<1>5. RN!is_flag(o) /\ RN!back.cls = "SHORT" => o.type = "none" /\ RN!back.name = "h"
  BY <1>3, <1>4, Sorts DEF RN!Named, RN!Written, RN!is_flag
<1>6. RN!NamesValued(RN!back) <=> ~RN!is_flag(o) /\ RN!back.value = ""
  BY <1>3, NamesOne DEF RN!NamesValued, RN!Written
<1> QED BY <1>1, <1>2, <1>3, <1>4, <1>5, <1>6

\* On the track, it is found.
LEMMA OptionOn ==
  ASSUME RN!RInv, RN!Parsing, RN!Given, NEW o \in RN!Named(RN!back), RN!OnTrack, o.type # "none",
         RN!Goes(o, RN!gone + 1), RN!Result(o, RN!gone + 1) \in RN!AnyText,
         RN!add_result(o, RN!Result(o, RN!gone + 1)),
         positional_only' = positional_only, missing_' = missing_,
         \/ args' = RN!Front(args) /\ ~RN!NamesValued(RN!back)
         \/ args' = RN!Front(RN!Front(args)) /\ RN!NamesValued(RN!back) /\ Len(args) > 1
  PROVE  RN!OnTrack'
<1>1. /\ argv' = argv /\ runner' = runner /\ argv \in CommandLines /\ args # <<>>
      /\ ~positional_only
  BY OptionAhead
<1>2. /\ args \in Seq(RN!AnyText) /\ results \in [RN!Names -> Seq(RN!AnyText)]
      /\ RN!Aligned /\ RN!Found /\ RN!Clean
  BY OptionAhead DEF Vectors, RN!OnTrack
<1>3. RN!gone \in Nat /\ RN!gone + 1 \in RN!Heads /\ RN!back = argv[RN!gone + 1]
  BY <1>1, <1>2, NextArg
<1>4. RN!Aligned' /\ (RN!gone' = RN!gone + 1 \/ (RN!gone' = RN!gone + 2 /\ RN!gone + 2 \notin RN!Heads))
  BY <1>1, <1>2, Further, TwoFurther
<1>5. o \in RN!Named(argv[RN!gone + 1]) /\ RN!Named(argv[RN!gone + 1]) # {}
  BY <1>3
<1>6. RN!Found'
  BY <1>1, <1>2, <1>3, <1>4, <1>5, FoundMore DEF RN!add_result
<1>7. results'["help"] = <<>>
  <2>1. o.name # "help" /\ results["help"] = <<>> /\ "help" \in RN!Names
    BY <1>2, OptionAhead, Sorts DEF RN!Clean
  <2> QED BY <1>2, <2>1 DEF RN!add_result
<1>8. RN!Clean'
  BY <1>1, <1>2, <1>3, <1>4, <1>5, <1>7, CleanOption
<1> QED BY <1>4, <1>6, <1>8 DEF RN!OnTrack

LEMMA MentionAhead ==
  ASSUME RN!RInv, RN!Parsing, RN!Given, NEW o \in RN!Named(RN!back), RN!OnTrack
  PROVE  RN!back = argv[RN!gone + 1] /\ RN!gone \in Nat /\ RN!gone + 1 \in RN!Mentions(o)
<1>1. argv \in CommandLines /\ args \in Seq(RN!AnyText) /\ args # <<>> /\ RN!Aligned
  BY OptionAhead DEF Vectors, RN!OnTrack
<1>2. RN!gone \in Nat /\ RN!gone + 1 \in RN!Heads /\ RN!back = argv[RN!gone + 1]
  BY <1>1, NextArg
<1> QED BY <1>2 DEF RN!Mentions

\* A result more, of an option that takes it from the next argument.
LEMMA ResultMore ==
  ASSUME RN!RInv, RN!Parsing, RN!Given, NEW o \in RN!Named(RN!back), RN!Continue, NEW x \in RN!AnyText,
         RN!add_result(o, x), positional_only' = positional_only, missing_' = missing_,
         args' \in Seq(RN!AnyText), \A k \in DOMAIN args' : RN!Written(args'[k]),
         RN!OnTrack => RN!OnTrack' \/ RN!Doomed'
  PROVE  RN!RInv'
<1>1. /\ argv' = argv /\ runner' = runner /\ Vectors /\ (RN!Doomed \/ RN!OnTrack)
      /\ o.name \in RN!Names
  BY OptionAhead
<1>2. results' = [results EXCEPT ![o.name] = Append(@, x)]
  BY DEF RN!add_result
<1>3. results' \in [RN!Names -> Seq(RN!AnyText)]
  <2>1. results \in [RN!Names -> Seq(RN!AnyText)]
    BY <1>1 DEF Vectors
  <2>2. Append(results[o.name], x) \in Seq(RN!AnyText)
    BY <1>1, <2>1, Push
  <2> QED BY <1>2, <2>1, <2>2
<1>4. Vectors'
  BY <1>1, <1>3, Same DEF Vectors
<1>5. RN!Doomed => RN!Doomed'
  BY <1>1, <1>2, StillDoomed
<1> QED BY <1>1, <1>4, <1>5, StillParsing

LEMMA ParseFlagStep == ASSUME RN!RInv, RN!Parsing, RN!Given, RN!ParseFlag PROVE RN!RInv'
<1>1. PICK o \in RN!Named(RN!back) :
        /\ RN!is_flag(o)
        /\ IF RN!back.cls = "LONG" /\ RN!back.name \in o.names.negated /\ RN!back.value \in Huge
           THEN RN!Terminate /\ UNCHANGED RN!parseVars
           ELSE /\ RN!add_result(o, RN!get_flag_value(o, RN!back.name,
                                                IF RN!back.cls = "LONG" THEN RN!back.value ELSE ""))
                /\ args' = RN!Front(args) \o (IF RN!back.cls = "SHORT" /\ RN!back.value # ""
                                           THEN <<Dashed[RN!back.value]>> ELSE <<>>)
                /\ RN!Continue /\ UNCHANGED <<positional_only, missing_>>
  BY DEF RN!ParseFlag
<1>2. /\ argv' = argv /\ runner' = runner /\ phase = "parse" /\ argv \in CommandLines
      /\ Vectors /\ (RN!Doomed \/ RN!OnTrack) /\ args # <<>> /\ RN!back \in RN!AnyText
      /\ RN!back.cls \in {"LONG", "SHORT"} /\ RN!Written(RN!back)
      /\ o \in RN!Range(RN!options_) /\ o.name \in RN!Names
      /\ RN!back.cls = "SHORT" => o.type = "none" /\ RN!back.name = "h"
      /\ ~RN!NamesValued(RN!back) /\ o.type \in {"none", "bool"}
  BY <1>1, OptionAhead DEF RN!is_flag
<1>3. CASE RN!back.cls = "LONG" /\ RN!back.name \in o.names.negated /\ RN!back.value \in Huge
  <2>1. RN!Terminate /\ UNCHANGED RN!parseVars
    BY <1>1, <1>3
  <2>2. ~RN!Right
    <3>1. CASE RN!Doomed
      BY <3>1 DEF RN!Doomed
    <3>2. CASE RN!OnTrack
      <4>1. RN!back = argv[RN!gone + 1] /\ RN!gone + 1 \in RN!Mentions(o)
        BY <3>2, MentionAhead
      <4> QED BY <1>1, <1>2, <1>3, <4>1 DEF RN!Right
    <3> QED BY <1>2, <3>1, <3>2
  <2> QED BY <1>2, <2>1, <2>2, Stopped DEF RN!Terminate
<1>4. CASE ~(RN!back.cls = "LONG" /\ RN!back.name \in o.names.negated /\ RN!back.value \in Huge)
  <2> DEFINE value == IF RN!back.cls = "LONG" THEN RN!back.value ELSE ""
             x == RN!get_flag_value(o, RN!back.name, value)
  <2>1. /\ RN!add_result(o, x) /\ RN!Continue
        /\ args' = RN!Front(args) \o (IF RN!back.cls = "SHORT" /\ RN!back.value # ""
                                   THEN <<Dashed[RN!back.value]>> ELSE <<>>)
        /\ positional_only' = positional_only /\ missing_' = missing_
    BY <1>1, <1>4
  <2>2. x \in RN!AnyText
    <3>1. RN!back.value \in RN!Strings /\ "" \in RN!Strings
      BY <1>2 DEF RN!AnyText, RN!Strings
    <3>2. value \in RN!Strings
      BY <3>1, Zenon
    <3> QED BY <3>2, FlagValue
  <2> HIDE DEF x
  <2>3. args' \in Seq(RN!AnyText) /\ \A k \in DOMAIN args' : RN!Written(args'[k])
    <3> DEFINE f == RN!Front(args)
    <3>1. args \in Seq(RN!AnyText) /\ \A k \in DOMAIN args : RN!Written(args[k])
      BY <1>2 DEF Vectors
    <3>2. /\ f \in Seq(RN!AnyText) /\ Len(f) = Len(args) - 1 /\ Len(args) \in Nat
          /\ \A k \in 1 .. Len(args) - 1 : f[k] = args[k]
      BY <1>2, <3>1, Pop
    <3>3. \A k \in DOMAIN f : RN!Written(f[k])
      BY <3>1, <3>2
    <3> HIDE DEF f
    <3>4. CASE RN!back.cls = "SHORT" /\ RN!back.value # ""
      <4> DEFINE d == Dashed[RN!back.value]
      <4>1. d \in RN!AnyText /\ RN!Written(d)
        <5>1. RN!back.value \in DOMAIN Dashed
          BY <1>2, <3>4 DEF RN!Written
        <5> QED BY <5>1, SuiteAssumption, AnArgument DEF RN!RunnerAssumption
      <4>2. args' = f \o <<d>>
        BY <2>1, <3>4 DEF f
      <4> HIDE DEF d
      <4>3. args' = Append(f, d)
        BY <3>2, <4>1, <4>2, AppendIsConcat
      <4> QED BY <3>2, <3>3, <4>1, <4>3, Push
    <3>5. CASE ~(RN!back.cls = "SHORT" /\ RN!back.value # "")
      <4>1. args' = f
        <5>1. args' = f \o <<>>
          BY <2>1, <3>5 DEF f
        <5> QED BY <3>2, <5>1, ConcatEmptySeq
      <4> QED BY <3>2, <3>3, <4>1
    <3> QED BY <3>4, <3>5
  <2>4. ASSUME RN!OnTrack PROVE RN!OnTrack' \/ RN!Doomed'
    <3>1. /\ RN!back = argv[RN!gone + 1] /\ RN!gone + 1 \in RN!Mentions(o) /\ RN!gone \in Nat
          /\ argv' = argv /\ runner' = runner
      BY <1>2, <2>4, MentionAhead
    <3>2. CASE o.type = "none"
      <4>1. ~RN!Right
        BY <1>1, <1>2, <3>1, <3>2 DEF RN!Right
      <4>2. o.name = "help" /\ "help" \in RN!Names
        BY <1>2, <3>2, Sorts
      <4>3. results' = [results EXCEPT ![o.name] = Append(@, x)]
        BY <2>1 DEF RN!add_result
      <4>4. results \in [RN!Names -> Seq(RN!AnyText)]
        BY <1>2 DEF Vectors
      <4>5. results'["help"] = Append(results["help"], x) /\ results["help"] \in Seq(RN!AnyText)
        BY <4>2, <4>3, <4>4
      <4>6. results'["help"] # <<>>
        BY <2>2, <4>5, Push
      <4> QED BY <1>2, <4>1, <4>6, Same DEF RN!Doomed
    <3>3. CASE o.type = "bool"
      <4>1. RN!back.cls = "LONG"
        BY <1>2, <3>3
      <4>2. x = RN!Result(o, RN!gone + 1)
        BY <1>1, <3>1, <4>1 DEF x, RN!Result
      <4>3. args' = RN!Front(args)
        <5>1. args' = RN!Front(args) \o <<>> /\ args \in Seq(RN!AnyText)
          BY <1>2, <2>1, <4>1 DEF Vectors
        <5>2. RN!Front(args) \in Seq(RN!AnyText)
          BY <1>2, <5>1, Pop
        <5> QED BY <5>1, <5>2, ConcatEmptySeq
      <4>4. RN!Goes(o, RN!gone + 1)
        BY <1>1, <1>4, <3>1, <4>1 DEF RN!Goes
      <4> QED BY <1>2, <2>1, <2>2, <2>4, <3>3, <4>2, <4>3, <4>4, OptionOn
    <3> QED BY <1>2, <3>2, <3>3
  <2> QED BY <2>1, <2>2, <2>3, <2>4, ResultMore
<1> QED BY <1>3, <1>4

LEMMA ParseOptionStep == ASSUME RN!RInv, RN!Parsing, RN!Given, RN!ParseOption PROVE RN!RInv'
<1>1. PICK o \in RN!Named(RN!back) :
        /\ ~RN!is_flag(o)
        /\ \/ /\ RN!back.value # "" /\ RN!add_result(o, RN!Word(RN!back.value)) /\ args' = RN!Front(args)
              /\ RN!Continue /\ UNCHANGED <<positional_only, missing_>>
           \/ /\ RN!back.value = "" /\ Len(args) > 1
              /\ RN!add_result(o, RN!Last(RN!Front(args))) /\ args' = RN!Front(RN!Front(args))
              /\ RN!Continue /\ UNCHANGED <<positional_only, missing_>>
           \/ /\ RN!back.value = "" /\ ~(Len(args) > 1)
              /\ RN!Throw /\ UNCHANGED RN!parseVars
  BY DEF RN!ParseOption, RN!TakesNext
<1>2. /\ argv' = argv /\ runner' = runner /\ phase = "parse" /\ argv \in CommandLines
      /\ Vectors /\ (RN!Doomed \/ RN!OnTrack) /\ args # <<>> /\ RN!back \in RN!AnyText
      /\ o \in RN!Range(RN!options_) /\ o.name \in RN!Names /\ o.type # "none"
  BY <1>1, OptionAhead DEF RN!is_flag
<1>a. RN!NamesValued(RN!back) <=> RN!back.value = ""
  BY <1>1, OptionAhead
<1>b. argv \in CommandLines /\ args # <<>>
  BY <1>2
<1>3. /\ args \in Seq(RN!AnyText) /\ \A k \in DOMAIN args : RN!Written(args[k])
      /\ DOMAIN args = 1 .. Len(args)
  <2>1. args \in Seq(RN!AnyText) /\ \A k \in DOMAIN args : RN!Written(args[k])
    BY <1>2, Zenon DEF Vectors
  <2> QED BY <2>1
<1>4. /\ RN!Front(args) \in Seq(RN!AnyText) /\ Len(RN!Front(args)) = Len(args) - 1
      /\ Len(args) \in Nat \ {0} /\ \A k \in 1 .. Len(args) - 1 : RN!Front(args)[k] = args[k]
  <2>1. args # <<>> /\ args \in Seq(RN!AnyText)
    BY <1>b, <1>3
  <2> QED BY <2>1, Pop
<1>5. CASE /\ RN!back.value # "" /\ RN!add_result(o, RN!Word(RN!back.value)) /\ args' = RN!Front(args)
           /\ RN!Continue /\ UNCHANGED <<positional_only, missing_>>
  <2>1. RN!Word(RN!back.value) \in RN!AnyText
    BY <1>2, AWord DEF RN!AnyText
  <2>2. \A k \in DOMAIN args' : RN!Written(args'[k])
    <3>1. args' = RN!Front(args)
      BY <1>5
    <3>2. DOMAIN args' = 1 .. Len(args) - 1
      BY <1>4, <3>1
    <3> QED BY <1>3, <1>4, <3>1, <3>2
  <2>3. ASSUME RN!OnTrack PROVE RN!OnTrack'
    <3>1. RN!back = argv[RN!gone + 1] /\ RN!gone + 1 \in RN!Mentions(o)
      BY <1>2, <2>3, MentionAhead DEF RN!Given
    <3>2. RN!Result(o, RN!gone + 1) = RN!Word(RN!back.value)
      BY <1>1, <1>5, <3>1 DEF RN!Result, RN!ValueAt
    <3>3. RN!Goes(o, RN!gone + 1)
      BY <1>1, <1>5, <3>1 DEF RN!Goes
    <3> QED BY <1>2, <1>a, <1>5, <2>1, <2>3, <3>2, <3>3, OptionOn
  <2> QED BY <1>4, <1>5, <2>1, <2>2, <2>3, ResultMore
<1>6. CASE /\ RN!back.value = "" /\ Len(args) > 1
           /\ RN!add_result(o, RN!Last(RN!Front(args))) /\ args' = RN!Front(RN!Front(args))
           /\ RN!Continue /\ UNCHANGED <<positional_only, missing_>>
  <2> DEFINE f == RN!Front(args)
             x == RN!Last(f)
  <2>1. f \in Seq(RN!AnyText) /\ f # <<>> /\ Len(f) = Len(args) - 1
    <3>1. f \in Seq(RN!AnyText) /\ Len(f) = Len(args) - 1 /\ Len(args) \in Nat
      BY <1>4
    <3>2. Len(args) > 1
      BY <1>6
    <3> HIDE DEF f
    <3> QED BY <3>1, <3>2
  <2>2. \A k \in 1 .. Len(args) - 1 : f[k] = args[k]
    BY <1>4
  <2>3. RN!add_result(o, x) /\ args' = RN!Front(f)
    BY <1>6
  <2> HIDE DEF f
  <2>4. /\ args' \in Seq(RN!AnyText) /\ Len(args') = Len(f) - 1 /\ x \in RN!AnyText
        /\ \A k \in 1 .. Len(f) - 1 : args'[k] = f[k]
    BY <2>1, <2>3, Pop
  <2>5. \A k \in DOMAIN args' : RN!Written(args'[k])
    <3>1. DOMAIN args' = 1 .. Len(args) - 2 /\ Len(args) \in Nat
      BY <1>4, <2>1, <2>4
    <3>2. \A k \in 1 .. Len(args) - 2 : args'[k] = args[k]
      BY <2>1, <2>2, <2>4, <3>1
    <3> QED BY <1>3, <3>1, <3>2
  <2>6. ASSUME RN!OnTrack PROVE RN!OnTrack'
    <3>1. RN!back = argv[RN!gone + 1] /\ RN!gone + 1 \in RN!Mentions(o) /\ RN!gone \in Nat
      BY <1>2, <2>6, MentionAhead DEF RN!Given
    <3>2. x = argv[RN!gone + 2] /\ RN!gone + 2 \in DOMAIN argv
      BY <1>2, <1>3, <1>6, <2>6, NextArg DEF RN!OnTrack, f
    <3>3. RN!Result(o, RN!gone + 1) = x
      <4>1. argv[RN!gone + 1].value = ""
        BY <1>6, <3>1, Zenon
      <4>a. RN!gone \in Nat
        BY <3>1
      <4>b. (RN!gone + 1) + 1 = RN!gone + 2
        BY <4>a
      <4>2. RN!ValueAt(RN!gone + 1) = argv[RN!gone + 2]
        BY <4>1, <4>b, Zenon DEF RN!ValueAt
      <4> QED BY <1>1, <3>2, <4>2 DEF RN!Result
    <3>4. RN!Goes(o, RN!gone + 1)
      <4>1. RN!gone + 1 < Len(argv)
        BY <1>b, <3>1, <3>2, Lines
      <4> QED BY <1>1, <4>1 DEF RN!Goes
    <3> QED BY <1>2, <1>a, <1>6, <2>3, <2>4, <2>6, <3>3, <3>4, OptionOn
  <2> QED BY <1>6, <2>3, <2>4, <2>5, <2>6, ResultMore
<1>7. CASE /\ RN!back.value = "" /\ ~(Len(args) > 1)
           /\ RN!Throw /\ UNCHANGED RN!parseVars
  <2>1. ~RN!Right
    <3>1. CASE RN!Doomed
      BY <3>1 DEF RN!Doomed
    <3>2. CASE RN!OnTrack
      <4>1. RN!back = argv[RN!gone + 1] /\ RN!gone + 1 \in RN!Mentions(o) /\ RN!gone \in Nat
        BY <1>2, <3>2, MentionAhead DEF RN!Given
      <4>2. RN!gone + 1 = Len(argv)
        <5>1. Len(argv) \in Nat
          BY <1>b, Lines
        <5>2. ~(Len(args) > 1)
          BY <1>7, Zenon
        <5>3. Len(args) = 1
          BY <1>4, <5>2
        <5> QED BY <5>1, <5>3 DEF RN!gone
      <4>3. SUFFICES ASSUME RN!Right PROVE FALSE
        OBVIOUS
      <4>4. RN!Cardinality(RN!Mentions(o)) = 1
        BY <1>1, <1>2, <4>1, <4>3, Zenon DEF RN!Right
      <4>5. argv[RN!LastMention(o)].value = "" => RN!LastMention(o) < Len(argv)
        BY <1>1, <1>2, <4>1, <4>3, Zenon DEF RN!Right
      <4>6. PICK m : RN!Mentions(o) = {m}
        <5>1. IsFiniteSet(RN!Mentions(o))
          <6>1. RN!Mentions(o) \subseteq 1 .. Len(argv)
            BY <1>b, Lines DEF RN!Mentions, RN!Heads
          <6>2. IsFiniteSet(1 .. Len(argv))
            <7>1. Len(argv) \in Int
              BY <1>b, Lines
            <7> QED BY <7>1, FS_Interval
          <6> QED BY <6>1, <6>2, FS_Subset
        <5> QED BY <4>4, <5>1, FS_Singleton, SameSize
      <4>7. RN!LastMention(o) = RN!gone + 1
        <5>1. RN!Mentions(o) = {RN!gone + 1}
          BY <4>1, <4>6
        <5>2. \A j \in {RN!gone + 1} : j <= RN!gone + 1
          BY <4>1
        <5> QED BY <5>1, <5>2 DEF RN!LastMention
      <4>8. argv[RN!gone + 1].value = ""
        BY <1>7, <4>1
      <4>9. RN!gone + 1 < Len(argv)
        BY <4>5, <4>7, <4>8
      <4> QED BY <4>1, <4>2, <4>9
    <3> QED BY <1>2, <3>1, <3>2
  <2> QED BY <1>2, <1>7, <2>1, Stopped DEF RN!Throw
<1> QED BY <1>1, <1>5, <1>6, <1>7

LEMMA ParseArgStep == ASSUME RN!RInv, RN!_parse_arg PROVE RN!RInv'
  BY ParseFlagStep, ParseOptionStep DEF RN!_parse_arg

LEMMA EndParseStep == ASSUME RN!RInv, RN!EndParse PROVE RN!RInv'
<1>1. /\ phase = "parse" /\ phase' = "callbacks" /\ args = <<>>
      /\ argv' = argv /\ runner' = runner /\ args' = args /\ missing_' = missing_
      /\ positional_only' = positional_only /\ results' = results
      /\ opt' = opt /\ config' = config /\ log' = log /\ top' = top
  BY DEF RN!EndParse, RN!Parsing, RN!parseVars
<1>2. RN!RunnerTypes'
  BY <1>1, Same DEF RN!RInv, RN!RunnerTypes
<1>3. /\ phase' \in RN!Before \cup RN!Going \cup RN!After /\ phase' \notin RN!Going \cup RN!After
      /\ phase' \notin {"parse", "exit", "terminated"} /\ phase \in RN!Before
  BY <1>1 DEF RN!Before, RN!Going, RN!After
<1>4. top' = RN!NoModel /\ ~log'.log_enabled
  BY <1>1, <1>3 DEF RN!RInv
<1>5. opt' = 1 /\ config' = RN!Defaults
  BY <1>1 DEF RN!RInv
<1>6. RN!Called'
  BY <1>5 DEF RN!Called
<1>7. RN!Doomed' \/ (RN!OnTrack' /\ args' = <<>>)
  <2>1. RN!Doomed \/ RN!OnTrack
    BY <1>1, ParseInv
  <2>2. RN!Doomed => RN!Doomed'
    BY <1>1, Same DEF RN!Doomed
  <2>3. RN!Aligned => RN!Aligned'
    BY <1>1, Same DEF RN!Aligned
  <2>4. RN!Found => RN!Found'
    <3>1. \A p : RN!Recorded(p)' = RN!Recorded(p)
      <4>1. \A p : RN!Seen(p)' = RN!Seen(p)
        BY <1>1, Same DEF RN!Seen, RN!gone
      <4> QED BY <1>1, <4>1, Same DEF RN!Recorded
    <3>2. RN!options_' = RN!options_
      BY <1>1, Same
    <3> QED BY <3>1, <3>2, Zenon DEF RN!Found
  <2>5. RN!Clean => RN!Clean'
    BY <1>1, Same DEF RN!Clean, RN!gone, RN!Named
  <2> QED BY <1>1, <2>1, <2>2, <2>3, <2>4, <2>5 DEF RN!OnTrack
<1> QED BY <1>1, <1>2, <1>3, <1>4, <1>6, <1>7 DEF RN!RInv

-----------------------------------------------------------------------------
(* Runner: the whole command line                                          *)

\* At the end everything has been gone through.
LEMMA AllSeen ==
  ASSUME argv \in CommandLines, args = <<>>
  PROVE  (\A o : RN!Seen(o) = RN!Mentions(o)) /\ \A i \in RN!Heads : i <= RN!gone
<1>1. Len(argv) \in Nat /\ DOMAIN argv = 1 .. Len(argv) /\ RN!gone = Len(argv)
  BY Lines DEF RN!gone
<1>2. \A i \in RN!Heads : i <= RN!gone
  BY <1>1 DEF RN!Heads
<1> QED BY <1>2 DEF RN!Seen, RN!Mentions

\* The greatest of some numbers, as LastMention takes it.
LEMMA LastIs ==
  ASSUME argv \in CommandLines, NEW o, NEW m \in RN!Mentions(o), \A j \in RN!Mentions(o) : j <= m
  PROVE  RN!LastMention(o) = m
<1>1. \A j \in RN!Mentions(o) : j \in Nat
  BY Lines DEF RN!Mentions, RN!Heads
<1>2. \A j \in RN!Mentions(o) : (\A k \in RN!Mentions(o) : k <= j) => j = m
  BY <1>1
<1> QED BY <1>2 DEF RN!LastMention

\* One is all, counted.
LEMMA OnlyOne ==
  ASSUME argv \in CommandLines, NEW o
  PROVE  RN!Cardinality(RN!Mentions(o)) = 1 <=> \E i \in RN!Mentions(o) : RN!Mentions(o) = {i}
<1>1. RN!Mentions(o) \subseteq 1 .. Len(argv)
  BY Lines DEF RN!Mentions, RN!Heads
<1>2. Len(argv) \in Int
  BY Lines
<1>3. IsFiniteSet(RN!Mentions(o))
  <2>1. IsFiniteSet(1 .. Len(argv))
    BY <1>2, FS_Interval
  <2> QED BY <1>1, <2>1, FS_Subset
<1>4. RN!Cardinality(RN!Mentions(o)) = 1 <=> \E i : RN!Mentions(o) = {i}
  BY <1>3, FS_Singleton, SameSize
<1> QED BY <1>4

\* What an option has in the end.
LEMMA Final ==
  ASSUME argv \in CommandLines, RN!OnTrack, args = <<>>, NEW o \in RN!Range(RN!options_)
  PROVE  /\ results[o.name] = <<>> <=> RN!Mentions(o) = {}
         /\ Len(results[o.name]) = 1 <=> RN!Cardinality(RN!Mentions(o)) = 1
         /\ results[o.name] # <<>> =>
              /\ RN!LastMention(o) \in RN!Mentions(o)
              /\ RN!Last(results[o.name]) = RN!Result(o, RN!LastMention(o))
         /\ \A i \in RN!Mentions(o) : RN!Goes(o, i)
<1>1. RN!Recorded(o)
  BY DEF RN!OnTrack, RN!Found
<1>2. RN!Seen(o) = RN!Mentions(o)
  BY AllSeen
<1>3. Len(results[o.name]) = 1 <=> RN!Cardinality(RN!Mentions(o)) = 1
  BY <1>1, <1>2, OnlyOne, Zenon DEF RN!Recorded
<1>4. results[o.name] # <<>> =>
        /\ RN!LastMention(o) \in RN!Mentions(o)
        /\ RN!Last(results[o.name]) = RN!Result(o, RN!LastMention(o))
  BY <1>1, <1>2, LastIs, Zenon DEF RN!Recorded
<1> QED BY <1>1, <1>2, <1>3, <1>4, Zenon DEF RN!Recorded

\* What is left of an option's results.
LEMMA Reduced ==
  ASSUME results \in [RN!Names -> Seq(RN!AnyText)], NEW o \in RN!Range(RN!options_), results[o.name] # <<>>
  PROVE  /\ Len(RN!_reduce_results(o)) <= 1 <=> RN!is_flag(o) \/ Len(results[o.name]) = 1
         /\ Len(RN!_reduce_results(o)) <= 1 => RN!_reduce_results(o)[1] = RN!Last(results[o.name])
<1> DEFINE s == results[o.name]
<1>0. o.name \in RN!Names
  BY Sorts
<1>1. s \in Seq(RN!AnyText) /\ s # <<>> /\ Len(s) \in Nat
  BY <1>0
<1>2. Len(s) # 0
  BY <1>1, EmptySeq
<1>3. o.policy = IF RN!is_flag(o) THEN "TakeLast" ELSE "Throw"
  BY Sorts
<1>4. CASE RN!is_flag(o)
  <2>1. RN!_reduce_results(o) = <<RN!Last(s)>>
    BY <1>3, <1>4 DEF RN!_reduce_results
  <2> HIDE DEF s
  <2> QED BY <1>4, <2>1 DEF s
<1>5. CASE ~RN!is_flag(o)
  <2>1. RN!_reduce_results(o) = s
    BY <1>3, <1>5 DEF RN!_reduce_results
  <2>2. RN!Last(s) = s[Len(s)]
    BY DEF RN!Last
  <2>3. Len(s) <= 1 <=> Len(s) = 1
    <3> DEFINE n == Len(s)
    <3>1. n \in Nat /\ n # 0
      BY <1>1, <1>2
    <3> HIDE DEF n
    <3>2. n <= 1 <=> n = 1
      BY <3>1
    <3> QED BY <3>2 DEF n
  <2> HIDE DEF s
  <2> QED BY <1>5, <2>1, <2>2, <2>3 DEF s
<1> QED BY <1>4, <1>5

LEMMA WordValue == \A w : RN!Word(w).value = w
  BY DEF RN!Word, RN!Text

\* What a flag makes of an argument.
LEMMA FlagSays ==
  ASSUME NEW o \in RN!Range(RN!options_), o.type = "bool", NEW i, argv[i].cls = "LONG"
  PROVE  /\ RN!converts(o, RN!Result(o, i)) <=> argv[i].value = "" \/ RN!is_bool(argv[i].value)
         /\ RN!converts(o, RN!Result(o, i)) => RN!lexical_cast(o, RN!Result(o, i)) = RN!Says(o, i)
<1> DEFINE v == argv[i].value
           no == argv[i].name \in o.names.negated
           r == RN!Result(o, i)
<1>1. r = RN!get_flag_value(o, argv[i].name, v)
  BY Zenon DEF RN!Result, RN!is_flag
<1>2. r.value = IF v = "" THEN (IF no THEN "false" ELSE "true")
                ELSE IF no /\ RN!is_bool(v) THEN (IF RN!is_true(v) THEN "false" ELSE "true")
                ELSE v
  BY <1>1, WordValue, Zenon DEF RN!get_flag_value
<1>3. /\ RN!is_bool("true") /\ RN!is_bool("false") /\ RN!is_true("true") /\ ~RN!is_true("false")
  BY SuiteAssumption DEF RN!RunnerAssumption, RN!is_bool, RN!is_true
<1>4. (RN!converts(o, r) <=> RN!is_bool(r.value)) /\ RN!lexical_cast(o, r) = RN!is_true(r.value)
  BY DEF RN!converts, RN!lexical_cast
<1>5. RN!Says(o, i) <=> ((v = "" \/ RN!is_true(v)) /\ ~no) \/ (~(v = "" \/ RN!is_true(v)) /\ no)
  <2> DEFINE yes == v = "" \/ RN!is_true(v)
  <2>1. RN!Says(o, i) <=> yes # no
    BY Zenon DEF RN!Says
  <2>2. yes \in BOOLEAN /\ no \in BOOLEAN
    BY DEF RN!is_true
  <2> HIDE DEF yes, no
  <2>3. yes # no <=> (yes /\ ~no) \/ (~yes /\ no)
    BY <2>2
  <2> QED BY <2>1, <2>3, Zenon DEF yes
<1>6. RN!Says(o, i) \in BOOLEAN /\ RN!is_true(r.value) \in BOOLEAN
  BY DEF RN!Says, RN!is_true
<1> HIDE DEF v, no, r
<1>a. /\ RN!is_bool(r.value) <=> v = "" \/ RN!is_bool(v)
      /\ RN!is_bool(r.value) => (RN!is_true(r.value) <=> RN!Says(o, i))
  <2>1. CASE v = ""
    <3>1. r.value = IF no THEN "false" ELSE "true"
      BY <1>2, <2>1, Zenon
    <3> QED BY <1>3, <1>5, <2>1, <3>1, Zenon
  <2>2. CASE v # "" /\ no /\ RN!is_bool(v)
    <3>1. r.value = IF RN!is_true(v) THEN "false" ELSE "true"
      BY <1>2, <2>2, Zenon
    <3> QED BY <1>3, <1>5, <2>2, <3>1, Zenon
  <2>3. CASE v # "" /\ ~(no /\ RN!is_bool(v))
    <3>1. r.value = v
      BY <1>2, <2>3, Zenon
    <3> QED BY <1>5, <2>3, <3>1, Zenon
  <2> QED BY <2>1, <2>2, <2>3
<1>b. RN!is_bool(r.value) => RN!is_true(r.value) = RN!Says(o, i)
  BY <1>6, <1>a
<1> QED BY <1>4, <1>a, <1>b, Zenon DEF v, r

\* A flag with two values has no short name.
LEMMA LongFlag ==
  ASSUME argv \in CommandLines, NEW o \in RN!Range(RN!options_), o.type = "bool", NEW i \in RN!Mentions(o)
  PROVE  argv[i].cls = "LONG"
<1>1. RN!Written(argv[i]) /\ o \in RN!Named(argv[i])
  BY Lines DEF RN!Mentions, RN!Heads
<1> QED BY <1>1, Sorts DEF RN!Named, RN!Written

\* A command line that is right passes every callback.
LEMMA Passing ==
  ASSUME argv \in CommandLines, Vectors, RN!OnTrack, args = <<>>, RN!Right,
         NEW o \in RN!Range(RN!options_), results[o.name] # <<>>
  PROVE  Len(RN!_reduce_results(o)) <= 1 /\ RN!converts(o, RN!_reduce_results(o)[1])
<1> DEFINE m == RN!LastMention(o)
<1>1. /\ RN!Mentions(o) # {} /\ m \in RN!Mentions(o) /\ RN!Last(results[o.name]) = RN!Result(o, m)
      /\ Len(results[o.name]) = 1 <=> RN!Cardinality(RN!Mentions(o)) = 1
  BY Final
<1>2. /\ Len(RN!_reduce_results(o)) <= 1 <=> RN!is_flag(o) \/ Len(results[o.name]) = 1
      /\ Len(RN!_reduce_results(o)) <= 1 => RN!_reduce_results(o)[1] = RN!Last(results[o.name])
  BY Reduced DEF Vectors
<1>3. CASE RN!is_flag(o)
  <2>1. o.type = "bool" /\ (argv[m].value = "" \/ RN!is_bool(argv[m].value))
    BY <1>1, <1>3, Zenon DEF RN!Right
  <2>2. argv[m].cls = "LONG"
    BY <1>1, <2>1, LongFlag
  <2>3. RN!converts(o, RN!Result(o, m))
    BY <2>1, <2>2, FlagSays
  <2> QED BY <1>1, <1>2, <1>3, <2>3, Zenon
<1>4. CASE ~RN!is_flag(o)
  <2>1. RN!Cardinality(RN!Mentions(o)) = 1 /\ RN!converts(o, RN!ValueAt(m))
    BY <1>1, <1>4, Zenon DEF RN!Right
  <2>2. RN!Result(o, m) = RN!ValueAt(m)
    BY <1>4, Zenon DEF RN!Result
  <2> QED BY <1>1, <1>2, <2>1, <2>2, Zenon
<1> QED BY <1>3, <1>4

\* A command line that passes every callback is right, without help, and
\* each variable has what the command line says.
LEMMA PassedRight ==
  ASSUME RN!RunnerTypes, RN!OnTrack, args = <<>>, RN!Called, opt = Len(RN!options_) + 1,
         results["help"] = <<>>
  PROVE  RN!Right /\ \A nm \in DOMAIN RN!Defaults : config[nm] = RN!Wanted(nm)
<1>1. argv \in CommandLines /\ results \in [RN!Names -> Seq(RN!AnyText)]
  BY DEF RN!RunnerTypes
<1>2. \A o \in RN!Range(RN!options_) : RN!Passed(o)
  <2>1. \A o \in RN!Range(RN!options_) : \E k \in 1 .. Len(RN!options_) : o = RN!options_[k]
    BY Offered DEF RN!Range
  <2>2. Len(RN!options_) \in Nat /\ opt - 1 = Len(RN!options_)
    BY Offered
  <2> QED BY <2>1, <2>2 DEF RN!Called
<1>3. ASSUME NEW o \in RN!Range(RN!options_), RN!Mentions(o) # {}
      PROVE  LET m == RN!LastMention(o)
             IN  /\ m \in RN!Mentions(o) /\ RN!Mentions(o) # {} /\ results[o.name] # <<>>
                 /\ RN!converts(o, RN!Result(o, m))
                 /\ o.type # "none" /\ config[o.name] = RN!lexical_cast(o, RN!Result(o, m))
                 /\ ~RN!is_flag(o) => RN!Cardinality(RN!Mentions(o)) = 1 /\ RN!Result(o, m) = RN!ValueAt(m)
                 /\ RN!is_flag(o) => o.type = "bool" /\ argv[m].cls = "LONG"
                 /\ \A i \in RN!Mentions(o) : RN!Goes(o, i)
  <2> DEFINE m == RN!LastMention(o)
  <2>1. /\ m \in RN!Mentions(o) /\ results[o.name] # <<>>
        /\ RN!Last(results[o.name]) = RN!Result(o, m)
        /\ Len(results[o.name]) = 1 <=> RN!Cardinality(RN!Mentions(o)) = 1
        /\ \A i \in RN!Mentions(o) : RN!Goes(o, i)
    BY <1>1, <1>3, Final
  <2>2. o.type # "none"
    <3>1. o.name # "help"
      BY <2>1
    <3> QED BY <3>1, Sorts
  <2>3. /\ Len(RN!_reduce_results(o)) <= 1 <=> RN!is_flag(o) \/ Len(results[o.name]) = 1
        /\ Len(RN!_reduce_results(o)) <= 1 => RN!_reduce_results(o)[1] = RN!Last(results[o.name])
    BY <1>1, <2>1, Reduced
  <2>4. /\ Len(RN!_reduce_results(o)) <= 1 /\ RN!converts(o, RN!_reduce_results(o)[1])
        /\ config[o.name] = RN!lexical_cast(o, RN!_reduce_results(o)[1])
    BY <1>2, <2>1, <2>2, Zenon DEF RN!Passed
  <2>5. ~RN!is_flag(o) => RN!Cardinality(RN!Mentions(o)) = 1 /\ RN!Result(o, m) = RN!ValueAt(m)
    BY <2>1, <2>3, <2>4, Zenon DEF RN!Result
  <2>6. RN!is_flag(o) => o.type = "bool"
    BY <2>2 DEF RN!is_flag
  <2>7. RN!is_flag(o) => argv[m].cls = "LONG"
    BY <1>1, <2>1, <2>6, LongFlag
  <2> QED BY <1>3, <2>1, <2>2, <2>3, <2>4, <2>5, <2>6, <2>7, Zenon
<1>4. RN!Right
  <2>1. \A i \in RN!Heads :
          \/ RN!Named(argv[i]) # {}
          \/ argv[i].cls = "POSITIONAL_MARK" /\
               \A j \in RN!Heads : j >= i => argv[j].cls = "POSITIONAL_MARK"
    <3> SUFFICES ASSUME NEW i \in RN!Heads, RN!Named(argv[i]) = {}
                 PROVE  /\ argv[i].cls = "POSITIONAL_MARK"
                        /\ \A j \in RN!Heads : j >= i => argv[j].cls = "POSITIONAL_MARK"
      OBVIOUS
    <3>1. RN!IsMark(i) /\ \A j \in RN!Heads : i <= j => RN!IsMark(j)
      BY <1>1, AllSeen DEF RN!OnTrack, RN!Clean
    <3>2. i \in Nat /\ \A j \in RN!Heads : j \in Nat
      BY <1>1, Lines DEF RN!Heads
    <3>3. \A j \in RN!Heads : j >= i => i <= j
      BY <3>2
    <3> QED BY <3>1, <3>3, Zenon DEF RN!IsMark
  <2>2. ASSUME NEW o \in RN!Range(RN!options_), RN!Mentions(o) # {}, RN!is_flag(o)
        PROVE  /\ o.type = "bool"
               /\ LET v == argv[RN!LastMention(o)].value IN v = "" \/ RN!is_bool(v)
               /\ \A i \in RN!Mentions(o) : argv[i].value \in Huge => argv[i].name \notin o.names.negated
    <3>1. o.type = "bool" /\ argv[RN!LastMention(o)].cls = "LONG" /\ RN!converts(o, RN!Result(o, RN!LastMention(o)))
          /\ \A i \in RN!Mentions(o) : RN!Goes(o, i)
      BY <1>3, <2>2, Zenon
    <3>2. LET v == argv[RN!LastMention(o)].value IN v = "" \/ RN!is_bool(v)
      BY <3>1, FlagSays, Zenon
    <3> QED BY <2>2, <3>1, <3>2, Zenon DEF RN!Goes
  <2>3. ASSUME NEW o \in RN!Range(RN!options_), RN!Mentions(o) # {}, ~RN!is_flag(o)
        PROVE  /\ RN!Cardinality(RN!Mentions(o)) = 1
               /\ LET i == RN!LastMention(o)
                  IN  (argv[i].value = "" => i < Len(argv)) /\ RN!converts(o, RN!ValueAt(i))
    <3>1. /\ RN!Cardinality(RN!Mentions(o)) = 1 /\ RN!Result(o, RN!LastMention(o)) = RN!ValueAt(RN!LastMention(o))
          /\ RN!LastMention(o) \in RN!Mentions(o)
          /\ RN!converts(o, RN!Result(o, RN!LastMention(o)))
          /\ \A i \in RN!Mentions(o) : RN!Goes(o, i)
      BY <1>3, <2>3, Zenon
    <3> QED BY <2>3, <3>1, Zenon DEF RN!Goes
  <2> QED BY <2>1, <2>2, <2>3, Zenon DEF RN!Right
<1>5. ASSUME NEW nm \in DOMAIN RN!Defaults PROVE config[nm] = RN!Wanted(nm)
  <2>1. CASE nm \notin RN!Names
    <3>1. \A o \in RN!Range(RN!options_) : o.name # nm
      BY <2>1 DEF RN!Names
    <3>2. config[nm] = RN!Defaults[nm]
      BY <3>1, Zenon DEF RN!Called
    <3> QED BY <2>1, <3>2, Zenon DEF RN!Wanted
  <2>2. CASE nm \in RN!Names
    <3>1. RN!OptionAt(nm) \in RN!Range(RN!options_) /\ RN!OptionAt(nm).name = nm
      BY <2>2 DEF RN!Names, RN!OptionAt
    <3> DEFINE o == RN!OptionAt(nm)
               m == RN!LastMention(o)
    <3>2. CASE RN!Mentions(o) = {}
      <4>1. results[nm] = <<>>
        BY <1>1, <3>1, <3>2, Final
      <4>2. config[nm] = RN!Defaults[nm]
        BY <4>1, Zenon DEF RN!Called
      <4> QED BY <3>2, <4>2, Zenon DEF RN!Wanted
    <3>3. CASE RN!Mentions(o) # {}
      <4>1. /\ RN!converts(o, RN!Result(o, m)) /\ config[nm] = RN!lexical_cast(o, RN!Result(o, m))
            /\ ~RN!is_flag(o) => RN!Result(o, m) = RN!ValueAt(m)
            /\ RN!is_flag(o) => o.type = "bool" /\ argv[m].cls = "LONG"
        BY <1>3, <3>1, <3>3, Zenon
      <4>2. CASE RN!is_flag(o)
        <5>1. config[nm] = RN!Says(o, m)
          BY <3>1, <4>1, <4>2, FlagSays, Zenon
        <5> QED BY <2>2, <3>3, <4>2, <5>1, Zenon DEF RN!Wanted
      <4>3. CASE ~RN!is_flag(o)
        <5>1. o.type # "bool"
          BY <4>3, Zenon DEF RN!is_flag
        <5>2. config[nm] = RN!ValueAt(m)
          BY <4>1, <4>3, <5>1, Zenon DEF RN!lexical_cast
        <5> QED BY <2>2, <3>3, <4>3, <5>2, Zenon DEF RN!Wanted
      <4> QED BY <4>2, <4>3
    <3> QED BY <3>2, <3>3
  <2> QED BY <2>1, <2>2
<1> QED BY <1>4, <1>5

-----------------------------------------------------------------------------
(* Runner: steps after the parser                                          *)

\* What the parser has found stays as long as its vectors do.
LEMMA SameFound ==
  ASSUME argv' = argv, runner' = runner, UNCHANGED RN!parseVars
  PROVE  /\ RN!Doomed => RN!Doomed'
         /\ RN!OnTrack => RN!OnTrack'
<1>1. /\ args' = args /\ missing_' = missing_ /\ positional_only' = positional_only
      /\ results' = results
  BY DEF RN!parseVars
<1>2. RN!Doomed => RN!Doomed'
  BY <1>1, Same DEF RN!Doomed
<1>3. RN!Aligned => RN!Aligned'
  <2>1. RN!gone' = RN!gone /\ RN!Taken' = RN!Taken
    BY <1>1, Same DEF RN!gone
  <2> QED BY <1>1, <2>1, Zenon DEF RN!Aligned
<1>4. RN!Found => RN!Found'
  <2>1. \A p : RN!Recorded(p)' = RN!Recorded(p)
    <3>1. \A p : RN!Seen(p)' = RN!Seen(p)
      BY <1>1, Same DEF RN!Seen, RN!gone
    <3> QED BY <1>1, <3>1, Same DEF RN!Recorded
  <2>2. RN!options_' = RN!options_
    BY Same
  <2> QED BY <2>1, <2>2, Zenon DEF RN!Found
<1>5. RN!Clean => RN!Clean'
  BY <1>1, Same DEF RN!Clean, RN!gone, RN!Named
<1> QED BY <1>2, <1>3, <1>4, <1>5 DEF RN!OnTrack

LEMMA CallbackInv ==
  ASSUME RN!RInv, phase = "callbacks"
  PROVE  /\ argv \in CommandLines /\ RN!RunnerTypes /\ Vectors /\ RN!Called
         /\ RN!Doomed \/ (RN!OnTrack /\ args = <<>>)
  BY DEF RN!RInv, RN!RunnerTypes, Vectors

\* The callbacks go on.
LEMMA StillCalling ==
  ASSUME RN!RInv, phase = "callbacks", phase' = "callbacks",
         UNCHANGED <<argv, runner, RN!parseVars, log, top>>,
         opt' \in 1 .. Len(RN!options_) + 1, DOMAIN config' = DOMAIN RN!Defaults, RN!Called'
  PROVE  RN!RInv'
<1>1. /\ argv' = argv /\ runner' = runner /\ args' = args /\ missing_' = missing_
      /\ positional_only' = positional_only /\ results' = results /\ log' = log /\ top' = top
  BY DEF RN!parseVars
<1>2. RN!RunnerTypes'
  BY <1>1, Same DEF RN!RInv, RN!RunnerTypes
<1>3. /\ phase' \in RN!Before \cup RN!Going \cup RN!After /\ phase' \notin RN!Going \cup RN!After
      /\ phase' \notin {"parse", "exit", "terminated"} /\ phase \in RN!Before
  BY DEF RN!Before, RN!Going, RN!After
<1>4. top' = RN!NoModel /\ ~log'.log_enabled
  BY <1>1, <1>3 DEF RN!RInv
<1>5. RN!Doomed' \/ (RN!OnTrack' /\ args' = <<>>)
  BY <1>1, CallbackInv, SameFound
<1> QED BY <1>2, <1>3, <1>4, <1>5 DEF RN!RInv

LEMMA CallbackStep == ASSUME RN!RInv, RN!_process_callbacks PROVE RN!RInv'
<1> PICK o : o = RN!options_[opt]
  OBVIOUS
<1>1. /\ phase = "callbacks" /\ opt <= Len(RN!options_)
      /\ argv' = argv /\ runner' = runner /\ UNCHANGED RN!parseVars
      /\ \/ results[o.name] = <<>> /\ opt' = opt + 1 /\ UNCHANGED <<phase, config, log, top>>
         \/ results[o.name] # <<>> /\ RN!run_callback(o)
  BY DEF RN!_process_callbacks
<1>2. /\ argv \in CommandLines /\ RN!RunnerTypes /\ Vectors /\ RN!Called
      /\ RN!Doomed \/ (RN!OnTrack /\ args = <<>>)
  BY <1>1, CallbackInv
<1>3. opt \in 1 .. Len(RN!options_) + 1 /\ Len(RN!options_) \in Nat /\ DOMAIN config = DOMAIN RN!Defaults
  BY <1>2, Offered DEF RN!RunnerTypes
<1>4. o \in RN!Range(RN!options_)
  <2>1. opt \in 1 .. Len(RN!options_)
    BY <1>1, <1>3
  <2> QED BY <2>1, Offered DEF RN!Range
<1>5. opt + 1 \in 1 .. Len(RN!options_) + 1 /\ 1 .. (opt + 1) - 1 = (1 .. opt - 1) \cup {opt}
  BY <1>1, <1>3
<1>6. RN!options_' = RN!options_ /\ results' = results
  BY <1>1, Same DEF RN!parseVars
<1>7. \A p : RN!_reduce_results(p)' = RN!_reduce_results(p)
  BY <1>6 DEF RN!_reduce_results
<1>8. CASE results[o.name] = <<>> /\ opt' = opt + 1 /\ UNCHANGED <<phase, config, log, top>>
  <2>1. \A p \in {RN!options_[k] : k \in 1 .. opt' - 1} : RN!Passed(p)
    BY <1>2, <1>5, <1>8 DEF RN!Called, RN!Passed
  <2>2. \A p : RN!Passed(p)' = RN!Passed(p)
    BY <1>6, <1>7, <1>8 DEF RN!Passed
  <2>3. \A p \in {RN!options_[k] : k \in 1 .. opt - 1}' : RN!Passed(p)'
    BY <1>6, <1>8, <2>1, <2>2
  <2>4. RN!Called'
    BY <1>2, <1>6, <1>8, <2>3 DEF RN!Called
  <2> QED BY <1>1, <1>3, <1>5, <1>8, <2>4, StillCalling
<1>9. CASE results[o.name] # <<>> /\ RN!run_callback(o)
  <2> DEFINE res == RN!_reduce_results(o)
  <2>1. CASE Len(res) > 1 \/ ~RN!converts(o, res[1])
    <3>1. RN!Throw
      BY <1>9, <2>1, Zenon DEF RN!run_callback
    <3>2. ~(Len(res) <= 1 /\ RN!converts(o, res[1]))
      <4>1. Len(res) \in Nat
        <5>1. results[o.name] \in Seq(RN!AnyText)
          BY <1>2, <1>4, Sorts DEF Vectors
        <5>2. Len(results[o.name]) \in Nat /\ Len(<<RN!Last(results[o.name])>>) \in Nat
          BY <5>1
        <5> QED BY <5>2, Zenon DEF RN!_reduce_results
      <4>2. Len(res) > 1 => ~(Len(res) <= 1)
        BY <4>1
      <4> QED BY <2>1, <4>2, Zenon
    <3>3. ~RN!Right
      <4>1. CASE RN!Doomed
        BY <4>1 DEF RN!Doomed
      <4>2. CASE RN!OnTrack /\ args = <<>>
        BY <1>2, <1>4, <1>9, <3>2, <4>2, Passing
      <4> QED BY <1>2, <4>1, <4>2
    <3> QED BY <1>1, <3>1, <3>3, Stopped DEF RN!Throw
  <2>2. CASE ~(Len(res) > 1 \/ ~RN!converts(o, res[1]))
    <3>1. /\ opt' = opt + 1
          /\ config' = IF o.type = "none" THEN config
                       ELSE [config EXCEPT ![o.name] = RN!lexical_cast(o, res[1])]
          /\ UNCHANGED <<phase, log, top>>
      BY <1>9, <2>2, Zenon DEF RN!run_callback
    <3>2. /\ DOMAIN config' = DOMAIN RN!Defaults
          /\ \A nm \in DOMAIN RN!Defaults : nm # o.name => config'[nm] = config[nm]
          /\ o.type # "none" => config'[o.name] = RN!lexical_cast(o, res[1])
      <4>1. CASE o.type = "none"
        BY <1>3, <3>1, <4>1
      <4>2. CASE o.type # "none"
        <5>1. o.name \in DOMAIN config
          BY <1>3, <1>4, <4>2, Sorts
        <5>2. config' = [config EXCEPT ![o.name] = RN!lexical_cast(o, res[1])]
          BY <3>1, <4>2
        <5> QED BY <1>3, <5>1, <5>2
      <4> QED BY <4>1, <4>2
    <3>3. RN!Passed(o)'
      <4>1. Len(res) <= 1
        <5>1. Len(res) \in Nat
          <6>1. results[o.name] \in Seq(RN!AnyText)
            BY <1>2, <1>4, Sorts DEF Vectors
          <6>2. Len(results[o.name]) \in Nat /\ Len(<<RN!Last(results[o.name])>>) \in Nat
            BY <6>1
          <6> QED BY <6>2, Zenon DEF RN!_reduce_results
        <5> QED BY <2>2, <5>1
      <4>2. RN!converts(o, res[1])
        BY <2>2
      <4> QED BY <1>6, <1>7, <3>2, <4>1, <4>2 DEF RN!Passed
    <3>4. ASSUME NEW p \in {RN!options_[k] : k \in 1 .. opt - 1} PROVE RN!Passed(p)'
      <4>1. RN!Passed(p) /\ p \in RN!Range(RN!options_)
        <5>1. 1 .. opt - 1 \subseteq 1 .. Len(RN!options_)
          BY <1>1, <1>3
        <5> QED BY <1>2, <5>1, Offered DEF RN!Called, RN!Range
      <4>2. CASE p = o
        BY <3>3, <4>2
      <4>3. CASE p # o
        <5>1. p.name # o.name
          BY <1>4, <4>1, <4>3, OneNamed
        <5>2. p.type # "none" => config'[p.name] = config[p.name]
          BY <3>2, <4>1, <5>1, Sorts
        <5> QED BY <1>6, <1>7, <4>1, <5>2 DEF RN!Passed
      <4> QED BY <4>2, <4>3
    <3>5. RN!Called'
      <4>1. \A p \in {RN!options_[k] : k \in 1 .. opt - 1}' : RN!Passed(p)'
        <5>1. {RN!options_[k] : k \in 1 .. opt - 1}' = {RN!options_[k] : k \in 1 .. opt - 1} \cup {o}
          BY <1>5, <1>6, <3>1
        <5> QED BY <3>3, <3>4, <5>1
      <4>2. ASSUME NEW nm \in DOMAIN RN!Defaults,
                   \A p \in RN!Range(RN!options_) : p.name = nm => results[nm] = <<>>
            PROVE  config'[nm] = RN!Defaults[nm]
        <5>1. nm # o.name
          BY <1>4, <1>9, <4>2
        <5>2. config[nm] = RN!Defaults[nm]
          BY <1>2, <4>2, Zenon DEF RN!Called
        <5> QED BY <3>2, <5>1, <5>2
      <4> QED BY <1>6, <4>1, <4>2 DEF RN!Called
    <3> QED BY <1>1, <1>5, <3>1, <3>2, <3>5, StillCalling
  <2> QED BY <2>1, <2>2
<1> QED BY <1>1, <1>8, <1>9

LEMMA NothingMissing ==
  ASSUME missing_ \in Seq(RN!AnyText)
  PROVE  RN!remaining_size = 0 <=> \A k \in DOMAIN missing_ : missing_[k].cls = "POSITIONAL_MARK"
<1> DEFINE S == {i \in DOMAIN missing_ : missing_[i].cls # "POSITIONAL_MARK"}
<1>1. S \subseteq 1 .. Len(missing_) /\ Len(missing_) \in Int
  OBVIOUS
<1>2. IsFiniteSet(1 .. Len(missing_))
  BY <1>1, FS_Interval
<1>3. IsFiniteSet(S)
  BY <1>1, <1>2, FS_Subset
<1>4. RN!Cardinality(S) = 0 <=> S = {}
  BY <1>3, FS_EmptySet, SameSize
<1> QED BY <1>4 DEF RN!remaining_size

LEMMA ProcessStep == ASSUME RN!RInv, RN!Process PROVE RN!RInv'
<1>1. /\ phase = "callbacks" /\ opt > Len(RN!options_)
      /\ argv' = argv /\ runner' = runner /\ UNCHANGED RN!parseVars
      /\ \/ /\ RN!_process_help_flags /\ RN!_process_requirements /\ RN!remaining_size = 0
            /\ phase' = "configure" /\ UNCHANGED <<opt, config, log, top>>
         \/ ~(RN!_process_help_flags /\ RN!_process_requirements /\ RN!remaining_size = 0) /\ RN!Throw
  BY Zenon DEF RN!Process
<1>2. /\ argv \in CommandLines /\ RN!RunnerTypes /\ Vectors /\ RN!Called
      /\ RN!Doomed \/ (RN!OnTrack /\ args = <<>>)
  BY <1>1, CallbackInv
<1>3. missing_ \in Seq(RN!AnyText) /\ results["help"] \in Seq(RN!AnyText)
  BY <1>2, Sorts DEF Vectors
<1>4. RN!_process_help_flags <=> results["help"] = <<>>
  BY <1>3, EmptySeq DEF RN!_process_help_flags, RN!count
<1>5. RN!_process_requirements
  BY Sorts DEF RN!_process_requirements
<1>6. CASE /\ RN!_process_help_flags /\ RN!remaining_size = 0
           /\ phase' = "configure" /\ UNCHANGED <<opt, config, log, top>>
  <2>1. results["help"] = <<>> /\ RN!OnTrack /\ args = <<>>
    BY <1>2, <1>3, <1>4, <1>6, NothingMissing DEF RN!Doomed
  <2>2. opt = Len(RN!options_) + 1
    BY <1>1, <1>2, Offered DEF RN!RunnerTypes
  <2>3. RN!Right /\ \A nm \in DOMAIN RN!Defaults : config[nm] = RN!Wanted(nm)
    BY <1>2, <2>1, <2>2, PassedRight
  <2>4. /\ args' = args /\ missing_' = missing_ /\ positional_only' = positional_only
        /\ results' = results /\ opt' = opt /\ config' = config /\ log' = log /\ top' = top
    BY <1>1, <1>6 DEF RN!parseVars
  <2>5. RN!RunnerTypes'
    BY <1>1, <1>2, <2>4, Same DEF RN!RunnerTypes
  <2>6. /\ phase' \in RN!Going /\ phase' \notin RN!Before
        /\ phase' \notin {"parse", "callbacks", "exit", "terminated"}
    BY <1>6 DEF RN!Before, RN!Going
  <2>7. RN!Right'
    BY <1>1, <2>3, Same
  <2>8. RN!Told'
    <3>1. \A nm \in DOMAIN RN!Defaults : config'[nm] = RN!Wanted(nm)'
      BY <1>1, <2>3, <2>4, Same
    <3> QED BY <1>6, <3>1 DEF RN!Told
  <2> QED BY <2>5, <2>6, <2>7, <2>8 DEF RN!RInv
<1>7. CASE ~(RN!_process_help_flags /\ RN!remaining_size = 0) /\ RN!Throw
  <2>1. ~RN!Right
    <3>1. CASE RN!Doomed
      BY <3>1 DEF RN!Doomed
    <3>2. CASE RN!OnTrack
      BY <1>3, <1>4, <1>7, <3>2, NothingMissing DEF RN!OnTrack, RN!Clean
    <3> QED BY <1>2, <3>1, <3>2
  <2> QED BY <1>1, <1>7, <2>1, Stopped DEF RN!Throw
<1> QED BY <1>1, <1>5, <1>6, <1>7

\* A step of main after the command line.
LEMMA MainOn ==
  ASSUME RN!RInv, phase \in RN!Going, phase' \in RN!Going \cup RN!After,
         UNCHANGED <<argv, runner, RN!parseVars, opt>>, DOMAIN config' = DOMAIN config,
         phase' \in RN!Going => RN!Told'
  PROVE  RN!RInv'
<1>1. /\ argv' = argv /\ runner' = runner /\ args' = args /\ missing_' = missing_
      /\ positional_only' = positional_only /\ results' = results /\ opt' = opt
  BY DEF RN!parseVars
<1>2. RN!RunnerTypes'
  BY <1>1, Same DEF RN!RInv, RN!RunnerTypes
<1>3. phase' \notin RN!Before /\ phase' \notin {"parse", "callbacks", "exit", "terminated"}
  BY DEF RN!Before, RN!Going, RN!After
<1>4. RN!Right'
  BY <1>1, Same DEF RN!RInv
<1> QED BY <1>2, <1>3, <1>4 DEF RN!RInv

LEMMA FailStep ==
  ASSUME RN!RInv, NEW from \in RN!Going, RN!Fail(from)
  PROVE  RN!RInv'
<1>1. /\ phase = from /\ phase' = "aborted" /\ config' = config
      /\ UNCHANGED <<argv, runner, RN!parseVars, opt>>
  BY DEF RN!Fail, RN!Step
<1>2. phase' \in RN!After /\ phase' \notin RN!Going
  BY <1>1 DEF RN!After, RN!Going
<1> QED BY <1>1, <1>2, MainOn

LEMMA ConfigureStep == ASSUME RN!RInv, RN!Configure PROVE RN!RInv'
<1> DEFINE c == IF config.memfile = RN!Defaults.memfile /\ config.ref_trace = RN!Word("")
                THEN [config EXCEPT !.ref_trace = RN!Word("func_test.txt")] ELSE config
<1>1. /\ phase = "configure" /\ phase' = "memory" /\ config' = c
      /\ argv' = argv /\ runner' = runner /\ UNCHANGED <<argv, runner, RN!parseVars, opt>>
      /\ log' = [log_enabled |-> TRUE, status_enabled |-> c.status, debug_enabled |-> c.debug]
      /\ top' = [made |-> TRUE, p_disable |-> c.p_disable, force_diff |-> c.force_diff,
                 memory |-> "none", image |-> RN!Word(""), fst |-> RN!Word(""), text |-> RN!Word(""),
                 pty |-> RN!Word(""), _fst_folder |-> RN!Word(""), _num_workers |-> RN!Word("1")]
  BY DEF RN!Configure, RN!Step
<1>a. DOMAIN config = DOMAIN RN!Defaults
  BY DEF RN!RInv, RN!RunnerTypes
<1>2. /\ DOMAIN c = DOMAIN config
      /\ \A nm \in DOMAIN RN!Defaults : nm # "ref_trace" => c[nm] = config[nm]
  <2> DEFINE d == [config EXCEPT !.ref_trace = RN!Word("func_test.txt")]
  <2>1. /\ DOMAIN d = DOMAIN config
        /\ \A nm \in DOMAIN RN!Defaults : nm # "ref_trace" => d[nm] = config[nm]
    BY <1>a
  <2>2. c = d \/ c = config
    BY Zenon
  <2> HIDE DEF c, d
  <2> QED BY <2>1, <2>2
<1> HIDE DEF c
<1>3. phase \in RN!Going /\ phase' \in RN!Going
  BY <1>1 DEF RN!Going
<1>4. RN!Told
  BY <1>3 DEF RN!RInv
<1>5. \A nm \in DOMAIN RN!Defaults : nm = "ref_trace" \/ config'[nm] = RN!Wanted(nm)'
  BY <1>1, <1>2, <1>4, Same DEF RN!Told
<1>6. {"status", "debug", "p_disable", "force_diff"} \subseteq DOMAIN RN!Defaults
  BY DEF RN!Defaults
<1>7. /\ c["status"] = RN!Wanted("status")' /\ c["debug"] = RN!Wanted("debug")'
      /\ c["p_disable"] = RN!Wanted("p_disable")' /\ c["force_diff"] = RN!Wanted("force_diff")'
  <2> HIDE DEF RN!Defaults
  <2> QED BY <1>1, <1>5, <1>6
<1>8. /\ log'.status_enabled = RN!Wanted("status")' /\ log'.debug_enabled = RN!Wanted("debug")'
      /\ DOMAIN top' = RN!TopFields
      /\ top'.p_disable = RN!Wanted("p_disable")' /\ top'.force_diff = RN!Wanted("force_diff")'
  BY <1>1, <1>7 DEF RN!TopFields
<1>9. RN!Told'
  BY <1>1, <1>5, <1>8 DEF RN!Told
<1> QED BY <1>1, <1>2, <1>3, <1>9, MainOn

LEMMA InstallStep == ASSUME RN!RInv, RN!InstallMemory PROVE RN!RInv'
<1>1. /\ phase = "memory" /\ phase' = "traces" /\ config' = config /\ log' = log
      /\ argv' = argv /\ runner' = runner /\ UNCHANGED <<argv, runner, RN!parseVars, opt>>
      /\ top' = [top EXCEPT !.image = IF runner._init_memory THEN config.memfile ELSE @,
                            !.memory = IF runner._init_soc THEN "soc" ELSE "memory"]
  BY DEF RN!InstallMemory, RN!Step
<1>2. phase \in RN!Going /\ phase' \in RN!Going
  BY <1>1 DEF RN!Going
<1>3. RN!Told /\ DOMAIN top = RN!TopFields
  BY <1>1, <1>2 DEF RN!RInv, RN!Told
<1>4. /\ DOMAIN top' = RN!TopFields /\ top'.p_disable = top.p_disable
      /\ top'.force_diff = top.force_diff
      /\ top'.image = IF runner._init_memory THEN config.memfile ELSE top.image
      /\ top'.memory = IF runner._init_soc THEN "soc" ELSE "memory"
  BY <1>1, <1>3 DEF RN!TopFields
<1>5. config.memfile = RN!Wanted("memfile")
  <2>1. "memfile" \in DOMAIN RN!Defaults
    BY DEF RN!Defaults
  <2> QED BY <1>3, <2>1 DEF RN!Told
<1>6. /\ \A nm : RN!Wanted(nm)' = RN!Wanted(nm)
      /\ \A nm \in DOMAIN RN!Defaults : nm = "ref_trace" \/ config'[nm] = RN!Wanted(nm)'
  BY <1>1, <1>3, Same DEF RN!Told
<1>7. /\ log'.status_enabled = RN!Wanted("status")' /\ log'.debug_enabled = RN!Wanted("debug")'
      /\ top'.p_disable = RN!Wanted("p_disable")' /\ top'.force_diff = RN!Wanted("force_diff")'
  BY <1>1, <1>3, <1>4, <1>6 DEF RN!Told
<1>8. /\ runner'._init_memory => top'.image = RN!Wanted("memfile")'
      /\ top'.memory = IF runner'._init_soc THEN "soc" ELSE "memory"
  BY <1>1, <1>4, <1>5, <1>6
<1>9. RN!Told'
  BY <1>1, <1>4, <1>6, <1>7, <1>8 DEF RN!Told
<1> QED BY <1>1, <1>2, <1>9, MainOn

LEMMA TracesStep == ASSUME RN!RInv, RN!StartTraces PROVE RN!RInv'
<1>1. /\ phase = "traces" /\ phase' = "pty" /\ config' = config /\ log' = log
      /\ argv' = argv /\ runner' = runner /\ UNCHANGED <<argv, runner, RN!parseVars, opt>>
      /\ top' = [top EXCEPT !.fst = IF runner._init_fst_trace THEN config.fst_trace ELSE @,
                            !.text = IF runner._init_text_trace THEN config.text_trace ELSE @]
  BY DEF RN!StartTraces, RN!Step
<1>2. phase \in RN!Going /\ phase' \in RN!Going
  BY <1>1 DEF RN!Going
<1>3. RN!Told /\ DOMAIN top = RN!TopFields
  BY <1>1, <1>2 DEF RN!RInv, RN!Told
<1>4. /\ DOMAIN top' = RN!TopFields /\ top'.p_disable = top.p_disable
      /\ top'.force_diff = top.force_diff /\ top'.image = top.image /\ top'.memory = top.memory
      /\ top'.fst = IF runner._init_fst_trace THEN config.fst_trace ELSE top.fst
      /\ top'.text = IF runner._init_text_trace THEN config.text_trace ELSE top.text
  BY <1>1, <1>3 DEF RN!TopFields
<1>5. config.fst_trace = RN!Wanted("fst_trace") /\ config.text_trace = RN!Wanted("text_trace")
  <2>1. "fst_trace" \in DOMAIN RN!Defaults /\ "text_trace" \in DOMAIN RN!Defaults
    BY DEF RN!Defaults
  <2> QED BY <1>3, <2>1 DEF RN!Told
<1>6. /\ \A nm : RN!Wanted(nm)' = RN!Wanted(nm)
      /\ \A nm \in DOMAIN RN!Defaults : nm = "ref_trace" \/ config'[nm] = RN!Wanted(nm)'
  BY <1>1, <1>3, Same DEF RN!Told
<1>7. /\ log'.status_enabled = RN!Wanted("status")' /\ log'.debug_enabled = RN!Wanted("debug")'
      /\ top'.p_disable = RN!Wanted("p_disable")' /\ top'.force_diff = RN!Wanted("force_diff")'
  BY <1>1, <1>3, <1>4, <1>6 DEF RN!Told
<1>8. /\ runner'._init_memory => top'.image = RN!Wanted("memfile")'
      /\ top'.memory = IF runner'._init_soc THEN "soc" ELSE "memory"
  BY <1>1, <1>3, <1>4, <1>6 DEF RN!Told
<1>9. /\ runner'._init_fst_trace => top'.fst = RN!Wanted("fst_trace")'
      /\ runner'._init_text_trace => top'.text = RN!Wanted("text_trace")'
  BY <1>1, <1>4, <1>5, <1>6
<1>10. RN!Told'
  BY <1>1, <1>4, <1>6, <1>7, <1>8, <1>9 DEF RN!Told
<1> QED BY <1>1, <1>2, <1>10, MainOn

LEMMA SetUpStep == ASSUME RN!RInv, RN!SetUp PROVE RN!RInv'
<1>1. /\ phase = "pty" /\ phase' = "run" /\ config' = config /\ log' = log
      /\ argv' = argv /\ runner' = runner /\ UNCHANGED <<argv, runner, RN!parseVars, opt>>
      /\ top' = [top EXCEPT
                   !.pty = IF runner._init_pty /\ top.memory = "soc" THEN config.pty ELSE @,
                   !._fst_folder = IF runner._set_fst_folder THEN config.fst_folder ELSE @,
                   !._num_workers = IF runner._set_num_workers THEN config.num_workers ELSE @]
  BY DEF RN!SetUp, RN!Step
<1>2. phase \in RN!Going /\ phase' \in RN!Going
  BY <1>1 DEF RN!Going
<1>3. RN!Told /\ DOMAIN top = RN!TopFields
  BY <1>1, <1>2 DEF RN!RInv, RN!Told
<1>4. /\ DOMAIN top' = RN!TopFields /\ top'.p_disable = top.p_disable
      /\ top'.force_diff = top.force_diff /\ top'.image = top.image /\ top'.memory = top.memory
      /\ top'.fst = top.fst /\ top'.text = top.text
      /\ top'.pty = IF runner._init_pty /\ top.memory = "soc" THEN config.pty ELSE top.pty
      /\ top'._fst_folder = IF runner._set_fst_folder THEN config.fst_folder ELSE top._fst_folder
      /\ top'._num_workers =
           IF runner._set_num_workers THEN config.num_workers ELSE top._num_workers
  BY <1>1, <1>3 DEF RN!TopFields
<1>5. /\ config.pty = RN!Wanted("pty") /\ config.fst_folder = RN!Wanted("fst_folder")
      /\ config.num_workers = RN!Wanted("num_workers")
  <2>1. {"pty", "fst_folder", "num_workers"} \subseteq DOMAIN RN!Defaults
    BY DEF RN!Defaults
  <2> QED BY <1>3, <2>1 DEF RN!Told
<1>6. /\ \A nm : RN!Wanted(nm)' = RN!Wanted(nm)
      /\ \A nm \in DOMAIN RN!Defaults : nm = "ref_trace" \/ config'[nm] = RN!Wanted(nm)'
  BY <1>1, <1>3, Same DEF RN!Told
<1>7. /\ log'.status_enabled = RN!Wanted("status")' /\ log'.debug_enabled = RN!Wanted("debug")'
      /\ top'.p_disable = RN!Wanted("p_disable")' /\ top'.force_diff = RN!Wanted("force_diff")'
  BY <1>1, <1>3, <1>4, <1>6 DEF RN!Told
<1>8. /\ runner'._init_memory => top'.image = RN!Wanted("memfile")'
      /\ top.memory = IF runner._init_soc THEN "soc" ELSE "memory"
      /\ top'.memory = IF runner'._init_soc THEN "soc" ELSE "memory"
  BY <1>1, <1>3, <1>4, <1>6 DEF RN!Told
<1>9. /\ runner'._init_fst_trace => top'.fst = RN!Wanted("fst_trace")'
      /\ runner'._init_text_trace => top'.text = RN!Wanted("text_trace")'
  BY <1>1, <1>3, <1>4, <1>6 DEF RN!Told
<1>10. /\ runner'._init_pty /\ runner'._init_soc => top'.pty = RN!Wanted("pty")'
       /\ runner'._set_fst_folder => top'._fst_folder = RN!Wanted("fst_folder")'
       /\ runner'._set_num_workers => top'._num_workers = RN!Wanted("num_workers")'
  BY <1>1, <1>4, <1>5, <1>6, <1>8, Zenon
<1>11. RN!Told'
  BY <1>1, <1>4, <1>6, <1>7, <1>8, <1>9, <1>10 DEF RN!Told
<1> QED BY <1>1, <1>2, <1>11, MainOn

LEMMA RunStep == ASSUME RN!RInv, RN!Run PROVE RN!RInv'
<1>1. /\ phase = "run" /\ phase' = "done" /\ config' = config
      /\ UNCHANGED <<argv, runner, RN!parseVars, opt>>
  BY DEF RN!Run, RN!Step
<1>2. phase \in RN!Going /\ phase' \in RN!After /\ phase' \notin RN!Going
  BY <1>1 DEF RN!After, RN!Going
<1> QED BY <1>1, <1>2, MainOn

LEMMA MainStep == ASSUME RN!RInv, RN!main PROVE RN!RInv'
<1>1. CASE RN!MemoryFails
  BY <1>1, FailStep DEF RN!MemoryFails, RN!Going
<1>2. CASE RN!TraceFails
  BY <1>2, FailStep DEF RN!TraceFails, RN!Going
<1> QED BY <1>1, <1>2, ConfigureStep, InstallStep, TracesStep, SetUpStep, RunStep DEF RN!main

-----------------------------------------------------------------------------
(* Runner: the theorems                                                    *)

LEMMA RunnerInit == ASSUME RN!Init PROVE RN!RInv
<1>1. /\ argv \in CommandLines /\ runner \in Runners /\ phase = "parse"
      /\ args = RN!Reverse(argv) /\ positional_only = FALSE
      /\ results = [n \in RN!Names |-> <<>>] /\ missing_ = <<>>
      /\ opt = 1 /\ config = RN!Defaults /\ ~log.log_enabled /\ top = RN!NoModel
  BY DEF RN!Init
<1>2. /\ argv \in Seq(RN!AnyText) /\ Len(argv) \in Nat /\ DOMAIN argv = 1 .. Len(argv)
      /\ \A i \in DOMAIN argv : argv[i] \in RN!AnyText /\ RN!Written(argv[i])
  BY <1>1, Lines
<1>3. args = [k \in 1 .. Len(argv) |-> argv[Len(argv) - k + 1]]
  BY <1>1 DEF RN!Reverse
<1>4. /\ args \in Seq(RN!AnyText) /\ Len(args) = Len(argv) /\ DOMAIN args = 1 .. Len(argv)
      /\ \A k \in DOMAIN args : args[k] = argv[Len(argv) + 1 - k] /\ RN!Written(args[k])
  <2>1. \A k \in 1 .. Len(argv) : /\ Len(argv) - k + 1 \in 1 .. Len(argv)
                                 /\ Len(argv) - k + 1 = Len(argv) + 1 - k
    BY <1>2
  <2>2. \A k \in 1 .. Len(argv) : argv[Len(argv) - k + 1] \in RN!AnyText
    BY <1>2, <2>1
  <2>3. args \in Seq(RN!AnyText) /\ Len(args) = Len(argv) /\ DOMAIN args = 1 .. Len(argv)
    BY <1>2, <1>3, <2>2
  <2> QED BY <1>2, <1>3, <2>1, <2>3
<1>5. RN!gone = 0
  BY <1>2, <1>4 DEF RN!gone
<1>6. RN!RunnerTypes
  <2>1. results \in [RN!Names -> Seq(RN!AnyText)] /\ missing_ \in Seq(RN!AnyText)
    BY <1>1
  <2>2. opt \in 1 .. Len(RN!options_) + 1
    BY <1>1, Offered
  <2> QED BY <1>1, <1>4, <2>1, <2>2 DEF RN!RunnerTypes
<1>7. RN!Aligned
  <2>1. 1 \in DOMAIN argv => 1 \notin RN!Taken
    <3>1. \A i \in DOMAIN argv : i \in RN!Taken => i > 1
      BY <1>2, TakenIs, Zenon
    <3> QED BY <3>1
  <2>2. RN!Taken \subseteq DOMAIN argv
    BY DEF RN!Taken
  <2> QED BY <1>2, <1>4, <1>5, <2>1, <2>2 DEF RN!Aligned
<1>8. \A i \in RN!Heads : ~(i <= RN!gone)
  BY <1>2, <1>5 DEF RN!Heads
<1>9. RN!Found
  <2> SUFFICES ASSUME NEW o \in RN!Range(RN!options_) PROVE RN!Recorded(o)
    BY DEF RN!Found
  <2>1. RN!Seen(o) = {}
    BY <1>8 DEF RN!Seen, RN!Mentions
  <2>2. results[o.name] = <<>>
    BY <1>1, Sorts
  <2>3. Len(results[o.name]) # 1
    BY <2>2
  <2> QED BY <2>1, <2>2, <2>3, Zenon DEF RN!Recorded
<1>10. RN!Clean
  <2>1. "help" \in RN!Names
    BY Sorts
  <2>2. results["help"] = <<>> /\ ~positional_only
    BY <1>1, <2>1
  <2>3. DOMAIN missing_ = {}
    BY <1>1
  <2> QED BY <1>8, <2>2, <2>3, Zenon DEF RN!Clean
<1>11. phase \in RN!Before /\ phase \notin RN!Going \cup RN!After /\ phase \notin {"callbacks", "exit", "terminated"}
  BY <1>1 DEF RN!Before, RN!Going, RN!After
<1> QED BY <1>1, <1>6, <1>7, <1>9, <1>10, <1>11 DEF RN!RInv, RN!OnTrack

LEMMA RunnerNext == ASSUME RN!RInv, RN!Next PROVE RN!RInv'
  BY ParseMarkStep, ParsePositionalStep, ParseUnknownStep, ParseArgStep, EndParseStep,
     CallbackStep, ProcessStep, MainStep DEF RN!Next

LEMMA RunnerStutter == ASSUME RN!RInv, UNCHANGED RN!vars PROVE RN!RInv'
<1>1. /\ argv' = argv /\ runner' = runner /\ phase' = phase /\ UNCHANGED RN!parseVars
      /\ args' = args /\ missing_' = missing_ /\ positional_only' = positional_only
      /\ results' = results /\ opt' = opt /\ config' = config /\ log' = log /\ top' = top
  BY DEF RN!vars, RN!parseVars
<1>2. RN!RunnerTypes'
  BY <1>1, Same DEF RN!RInv, RN!RunnerTypes
<1>3. RN!Right' = RN!Right /\ (RN!Doomed => RN!Doomed') /\ (RN!OnTrack => RN!OnTrack')
  BY <1>1, Same, SameFound
<1>4. RN!Called => RN!Called'
  <2>1. \A p : RN!_reduce_results(p)' = RN!_reduce_results(p)
    BY <1>1 DEF RN!_reduce_results
  <2>2. \A p : RN!Passed(p)' = RN!Passed(p)
    BY <1>1, <2>1 DEF RN!Passed
  <2>3. RN!options_' = RN!options_
    BY <1>1, Same
  <2> QED BY <1>1, <2>2, <2>3 DEF RN!Called
<1>5. RN!Told => RN!Told'
  BY <1>1, Same DEF RN!Told
<1> QED BY <1>1, <1>2, <1>3, <1>4, <1>5 DEF RN!RInv

LEMMA RInvTold == RN!RInv => RN!RunsAsTold
<1> SUFFICES ASSUME RN!RInv PROVE RN!RunsAsTold
  OBVIOUS
<1>1. phase \in RN!Before \cup RN!Going \cup RN!After
  BY DEF RN!RInv
<1>2. top.made => RN!Right
  <2>1. phase \in RN!Before => ~top.made
    BY DEF RN!RInv, RN!NoModel
  <2> QED BY <1>1, <2>1 DEF RN!RInv
<1>3. phase \in {"exit", "terminated"} => ~RN!Right /\ ~log.log_enabled
  BY DEF RN!RInv, RN!Before
<1>4. phase = "run" =>
       /\ log.status_enabled = RN!Wanted("status") /\ log.debug_enabled = RN!Wanted("debug")
       /\ top.p_disable = RN!Wanted("p_disable") /\ top.force_diff = RN!Wanted("force_diff")
       /\ runner._init_memory => top.image = RN!Wanted("memfile")
       /\ runner._init_fst_trace => top.fst = RN!Wanted("fst_trace")
       /\ runner._init_text_trace => top.text = RN!Wanted("text_trace")
       /\ runner._init_pty /\ runner._init_soc => top.pty = RN!Wanted("pty")
       /\ runner._set_fst_folder => top._fst_folder = RN!Wanted("fst_folder")
       /\ runner._set_num_workers => top._num_workers = RN!Wanted("num_workers")
  <2>1. HAVE phase = "run"
  <2>2. RN!Told
    BY <2>1 DEF RN!RInv, RN!Going
  <2> QED BY <2>1, <2>2 DEF RN!Told
<1> QED BY <1>2, <1>3, <1>4 DEF RN!RunsAsTold

\* The invariant, along every run of ProgramRunner::main.
THEOREM RunnerCorrect == RN!Spec => []RN!RInv
<1>1. RN!Init => RN!RInv
  BY RunnerInit
<1>2. RN!RInv /\ [RN!Next]_(RN!vars) => RN!RInv'
  BY RunnerNext, RunnerStutter
<1> QED BY <1>1, <1>2, PTL DEF RN!Spec

-----------------------------------------------------------------------------
(* Runner: the command line among the other parts                          *)

\* What main does in the program around the tests is what it does.
LEMMA RunnerInSuite == AllSpec => RN!Spec
<1>1. AllInit => RN!Init
  BY DEF AllInit
<1>2. [AllNext]_allVars => [RN!Next]_(RN!vars)
  BY DEF AllNext, allVars, Master, Process, OneTest, Logging, CommandLine, Ended,
         runnerVars, RN!vars, RN!parseVars
<1> QED BY <1>1, <1>2, PTL DEF AllSpec, RN!Spec

\* RunsAsTold: for every command line and every runner, a model is made only
\* when the command line is right as a whole, and runs as it says.
THEOREM RunsAsToldHolds == AllSpec => []RunsAsTold
<1>1. RN!RInv => RunsAsTold
  BY RInvTold DEF RunsAsTold
<1> QED BY <1>1, RunnerInSuite, RunnerCorrect, PTL
=============================================================================
