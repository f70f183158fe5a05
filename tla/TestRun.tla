------------------------------ MODULE TestRun ------------------------------
(***************************************************************************)
(* One process of the test bench: the tests one after another, what their  *)
(* plugins switch on and defer, the FST trace, and how a failed assertion  *)
(* or SIGINT ends it all.  verilate/include/testbench.h, verilate/vsrc/    *)
(* testbench.cpp, model.cpp and VCacheTop/vmain.cpp.                       *)
(***************************************************************************)
EXTENDS Naturals, Sequences, SequencesExt

CONSTANTS
  Tests,      \* the test list: of each test its plugins, in order
  Options,    \* what the runner has switched on: subset of Switch
  MaxTicks    \* bound: clock cycles of a test

Switch == {"LOG", "DEBUG", "STATUS", "TRACE", "STAT"}

TestRunAssumption ==
  /\ Tests \in Seq(Seq(Switch \cup {"SKIP"}))
  /\ Options \subseteq {"LOG", "DEBUG", "STATUS"}
  /\ MaxTicks \in Nat

VARIABLES
  pc,           \* "begin", "plugins", "body", "clock", "defers", "report", "end",
                \* "handler" (of SIGABRT), "dead"
  test,         \* current_test
  plugins,      \* of it, not yet set up
  defer_list,   \* what it has deferred
  left,         \* of defer_list, what run_defers has still to run
  on,           \* switches that are on: logging, tracing, statistics...
  fst,          \* the trace file: is it open, _fst_count, last time dumped
  ticks,        \* cycles of this test so far
  ran,          \* observer: what has run of this test's defer_list
  ordered       \* observer: every file's times have gone up

control == <<pc, test, plugins>>
defers == <<defer_list, left, ran>>
trace == <<fst, ordered>>
vars == <<control, defers, on, trace, ticks>>

FST_TRACE_TIME_SCALE == 10

-----------------------------------------------------------------------------
(* model.cpp: the FST trace                                                *)

fst_time(f) == f.count * FST_TRACE_TIME_SCALE

\* fst_dump, when tracing is enabled and a file is open.
Dump(f, offset) == [f EXCEPT !.last = fst_time(f) + offset]

Ordered(f, offset) == ordered /\ fst_time(f) + offset > f.last

\* start_fst_trace: a new file that begins with time 0; no file may be open.
StartFst ==
  /\ fst' = [open |-> TRUE, count |-> 0, last |-> 0]
  /\ UNCHANGED ordered

\* Mutant: the last dump is at the time of the last cycle.
StopFstNow ==
  /\ fst' = [Dump(fst, 0) EXCEPT !.open = FALSE]
  /\ ordered' = Ordered(fst, 0)

StopFst ==
  /\ fst' = [Dump(fst, FST_TRACE_TIME_SCALE) EXCEPT !.open = FALSE]
  /\ ordered' = Ordered(fst, FST_TRACE_TIME_SCALE)

stop_fst_trace == IF fst.open THEN StopFst ELSE UNCHANGED trace

Tracing == fst.open /\ "TRACE" \in on

\* _tick up to the falling edge: fst_dump(+1).
TickLow ==
  /\ pc = "body" /\ ticks < MaxTicks
  /\ pc' = "clock"
  /\ IF Tracing THEN fst' = Dump(fst, 1) /\ ordered' = Ordered(fst, 1)
                ELSE UNCHANGED trace
  /\ UNCHANGED <<test, plugins, defers, on, ticks>>

\* fst_advance, which needs no file.
Advance == IF "TRACE" \in on THEN [fst EXCEPT !.count = @ + 1] ELSE fst

\* The rising edge: fst_advance, then fst_dump(+0).
TickHigh ==
  /\ pc = "clock"
  /\ pc' = "body"
  /\ ticks' = ticks + 1
  /\ IF Tracing THEN fst' = Dump(Advance, 0) /\ ordered' = Ordered(Advance, 0)
                ELSE fst' = Advance /\ UNCHANGED ordered
  /\ UNCHANGED <<test, plugins, defers, on>>

\* A test may trace a part of itself only.
EnableFstTrace ==
  /\ pc = "body"
  /\ on' \in {on \cup {"TRACE"}, on \ {"TRACE"}}
  /\ UNCHANGED <<control, defers, trace, ticks>>

-----------------------------------------------------------------------------
(* A test: ITestbench::run and what WITH ... AS expand to                  *)

\* The pretest hook, DeferListProxy's constructor, and _.defer(post_fn).
BeginTest ==
  /\ pc = "begin" /\ test <= Len(Tests)
  /\ IF defer_list = <<>>
     THEN /\ defer_list' = <<"post">>
          /\ plugins' = Tests[test] /\ pc' = "plugins"
          /\ ticks' = 0 /\ ran' = <<>>
          /\ UNCHANGED left
     ELSE pc' = "handler" /\ left' = defer_list /\ UNCHANGED <<plugins, defer_list, ticks, ran>>
  /\ UNCHANGED <<test, on, trace>>

\* ENABLE_WITH_BOTH_FN: controller(true), pre_fn, then the deferral.  The
\* reset that TRACE makes of the model is not traced.
Enable ==
  /\ pc = "plugins" /\ plugins # <<>> /\ Head(plugins) # "SKIP"
  /\ plugins' = Tail(plugins)
  /\ on' = on \cup {Head(plugins)}
  /\ IF Head(plugins) # "TRACE"
     THEN UNCHANGED <<pc, trace, left>> /\ defer_list' = Append(defer_list, Head(plugins))
     ELSE IF fst.open
     THEN pc' = "handler" /\ left' = defer_list /\ UNCHANGED <<trace, defer_list>>
     ELSE StartFst /\ UNCHANGED <<pc, left>> /\ defer_list' = Append(defer_list, "TRACE")
  /\ UNCHANGED <<test, ticks, ran>>

\* The plugins are set up; the statements of the test follow.
EnterBody ==
  /\ pc = "plugins" /\ plugins = <<>>
  /\ pc' = "body"
  /\ UNCHANGED <<test, plugins, defers, on, trace, ticks>>

\* SKIP, or the end of the test: DeferListProxy's destructor.
Leave ==
  /\ \/ pc = "plugins" /\ plugins # <<>> /\ Head(plugins) = "SKIP"
     \/ pc = "body"
  /\ pc' = "defers"
  /\ left' = defer_list
  /\ UNCHANGED <<test, plugins, defer_list, ran, on, trace, ticks>>

\* Mutant: the functions are run in the order of their deferral.
NextDeferFirst(l) == Head(l)

NextDefer(l) == Last(l)
Others(l) == Front(l)

\* One function of run_defers: post_fn, then controller(false).
RunDefer ==
  /\ pc \in {"defers", "handler"} /\ left # <<>>
  /\ left' = Others(left)
  /\ ran' = Append(ran, NextDefer(left))
  /\ IF NextDefer(left) = "TRACE" THEN stop_fst_trace ELSE UNCHANGED trace
  /\ on' = on \ {NextDefer(left)}
  /\ UNCHANGED <<control, defer_list, ticks>>

\* run_defers is through: defer_list.clear().
Cleared ==
  /\ pc = "defers" /\ left = <<>>
  /\ pc' = "report"
  /\ defer_list' = <<>>
  /\ UNCHANGED <<test, plugins, left, ran, on, trace, ticks>>

\* info("[OK] ..."), current_test = nullptr, and the next test of run_serial.
Report ==
  /\ pc = "report"
  /\ pc' = "begin"
  /\ test' = test + 1
  /\ UNCHANGED <<plugins, defers, on, trace, ticks>>

\* After the last test the global functions (there are none) and ~ModelBase.
End ==
  /\ pc = "begin" /\ test > Len(Tests)
  /\ pc' = "end"
  /\ stop_fst_trace
  /\ UNCHANGED <<test, plugins, defers, on, ticks>>

-----------------------------------------------------------------------------
(* vmain.cpp: a failed assertion of the test aborts, and so does SIGINT.   *)

\* SIGABRT: on_abort begins abort_testbench, whose run_defers runs it all.
Abort ==
  /\ pc \notin {"handler", "dead", "end"}
  /\ pc' = "handler"
  /\ left' = defer_list
  /\ UNCHANGED <<test, plugins, defer_list, ran, on, trace, ticks>>

\* app.~ProgramRunner() deletes the model; the process ends in abort().
Die ==
  /\ pc = "handler" /\ left = <<>>
  /\ pc' = "dead"
  /\ stop_fst_trace
  /\ UNCHANGED <<test, plugins, defers, on, ticks>>

Stopped == pc \in {"end", "dead"} /\ UNCHANGED vars

\* MyCache::run begins with tracing off.
Init ==
  /\ pc = "begin" /\ test = 1 /\ plugins = <<>>
  /\ defer_list = <<>> /\ left = <<>> /\ ran = <<>>
  /\ on = Options
  /\ fst = [open |-> FALSE, count |-> 0, last |-> 0] /\ ordered = TRUE
  /\ ticks = 0

Run ==
  \/ BeginTest \/ Enable \/ EnterBody \/ TickLow \/ TickHigh \/ EnableFstTrace
  \/ Leave \/ RunDefer \/ Cleared \/ Report \/ End \/ Abort \/ Die

Next == Run \/ Stopped

Spec == Init /\ [][Next]_vars

-----------------------------------------------------------------------------
(* Properties                                                              *)

\* Whatever a test deferred is run, the last first, when the test is over,
\* when it skips half way through its plugins, and when an assertion or a
\* signal cuts it short, be it in the middle of the deferred functions
\* themselves (testbench.cpp:21-36,236-243,276-280; "defer_list acts like a
\* stack").
DefersRun ==
  (pc = "dead" \/ (pc = "defers" /\ left = <<>>)) => IsSuffix(Reverse(defer_list), ran)

\* The times of an FST file go up, through cycles that are not traced, and
\* the file of a test that is cut short is closed too, since it is what a
\* failed assertion asks to look at (model.cpp:44-98, common.h:270).
TraceTimes == ordered /\ (pc \in {"dead", "end", "report"} => ~fst.open)
=============================================================================
