----------------------------- MODULE MCTestRuns -----------------------------
(***************************************************************************)
(* The program around the tests, for TLC: the processes that share out the *)
(* test list (Testbench), what one process does with a test (TestRun), its *)
(* status line (StatusLine) and the command line that set it all up        *)
(* (Runner).  The parts share no state and run in different processes, or  *)
(* one after the other, so an instance runs one of them, its part, from    *)
(* beginning to end, while the variables of the others keep a first value. *)
(***************************************************************************)
EXTENDS Testbench, TLC

CONSTANTS
  Tests, Options,        \* of TestRun
  MaxTicks,              \* bound of TestRun
  Threads, NoThread,     \* of StatusLine
  MaxPrints, MaxBuffer,  \* bounds of StatusLine
  CommandLines, Runners, Dashed, Ints, Floats, TrueWords, FalseWords, Huge,  \* of Runner
  MaxArgs                \* bound: arguments of a command line

VARIABLES
  part,  \* which part runs
  doing, test, plugins, defer_list, left, on, fst, ticks, ran, ordered,
  main, uses, handle, thread, flag, lock, in_status_line, char_buffer, line,
  status_enabled, prints, badFlag, overwritten, covered,
  argv, runner, phase, args, positional_only, results, missing_, opt, config, log, top

testRunVars == <<doing, test, plugins, defer_list, left, on, fst, ticks, ran, ordered>>
statusVars == <<main, uses, handle, thread, flag, lock, in_status_line, char_buffer, line,
                status_enabled, prints, badFlag, overwritten, covered>>
runnerVars == <<argv, runner, phase, args, positional_only, results, missing_, opt, config, log, top>>
allVars == <<part, vars, testRunVars, statusVars, runnerVars>>

-----------------------------------------------------------------------------
(* Values                                                                  *)

\* A test that traces and counts, one that skips after its first plugin, one
\* with two switches, and one that traces again.
MCTests ==
  <<<<"TRACE", "STAT">>, <<"LOG", "SKIP", "TRACE">>, <<"DEBUG", "STATUS">>, <<"STAT", "TRACE">>>>

Arg(cls, name, value) == [cls |-> cls, name |-> name, value |-> value]

\* Short and long options, with and without values, right and wrong.
MCArguments ==
  { Arg("NONE", "", "4"), Arg("NONE", "", "img"), Arg("POSITIONAL_MARK", "", ""),
    Arg("SHORT", "j", ""), Arg("SHORT", "j", "4"), Arg("SHORT", "h", "j4"),
    Arg("LONG", "num-workers", "img"), Arg("SHORT", "m", ""),
    Arg("LONG", "fst-folder", ""), Arg("LONG", "p-disable", "4"), Arg("LONG", "fst-trace", "img"),
    Arg("LONG", "status", ""), Arg("LONG", "no-status", ""),
    Arg("LONG", "no-status", "false"), Arg("LONG", "status", "img"),
    Arg("LONG", "no-debug", "99999999999999999999") }

\* The runner of the cache test bench (VCacheTop/vmain.cpp:19-31), and one
\* with everything.
MCRunners ==
  { [_init_memory |-> FALSE, _init_text_trace |-> FALSE, _init_fst_trace |-> FALSE,
     _init_soc |-> FALSE, _init_pty |-> TRUE, _set_num_workers |-> TRUE, _set_fst_folder |-> TRUE],
    [s \in {"_init_memory", "_init_text_trace", "_init_fst_trace", "_init_soc", "_init_pty",
            "_set_num_workers", "_set_fst_folder"} |-> TRUE] }

MCCommandLines == UNION {[1 .. n -> MCArguments] : n \in 0 .. MaxArgs}

MCDashed == [r \in {"j4"} |-> Arg("SHORT", "j", "4")]

-----------------------------------------------------------------------------
(* The parts                                                               *)

TR == INSTANCE TestRun WITH pc <- doing

SL == INSTANCE StatusLine WITH Worker <- Threads

RN == INSTANCE RunnerInv

ASSUME SuiteAssumption ==
  /\ TR!TestRunAssumption /\ SL!StatusLineAssumption /\ RN!RunnerAssumption
  /\ <<>> \in CommandLines /\ Runners # {}

\* The parts that do not run have one first state.
AllInit ==
  /\ part \in {"testbench", "test run", "status line", "runner"}
  /\ part # "testbench" => outcome = [t \in Test |-> "pass"]
  /\ part # "status line" => uses = "lines" /\ status_enabled = FALSE
  /\ part # "runner" => argv = <<>> /\ runner = CHOOSE r \in Runners : TRUE
  /\ Init /\ TR!Init /\ SL!Init /\ RN!Init

Master == part = "testbench" /\ MasterStep /\ UNCHANGED <<part, testRunVars, statusVars, runnerVars>>
Process(w) == part = "testbench" /\ WorkerStep(w) /\ UNCHANGED <<part, testRunVars, statusVars, runnerVars>>
OneTest == part = "test run" /\ TR!Next /\ UNCHANGED <<part, vars, statusVars, runnerVars>>
Logging == part = "status line" /\ SL!Next /\ UNCHANGED <<part, vars, testRunVars, runnerVars>>
CommandLine == part = "runner" /\ RN!Next /\ UNCHANGED <<part, vars, testRunVars, statusVars>>

\* The master has returned, or waits for tests that hang; main has got to the
\* tests, or ended before; an assertion has ended the process.
Ended ==
  /\ \/ part = "testbench" /\ (pc = "done" \/ \E w \in Worker : st[w] = "run")
     \/ part = "status line" /\ main = "dead"
     \/ part = "runner" /\ phase \in {"done", "aborted", "exit", "terminated"}
  /\ UNCHANGED allVars

AllNext ==
  Master \/ (\E w \in Worker : Process(w)) \/ OneTest \/ Logging \/ CommandLine \/ Ended

\* The fairness of Testbench's FairSpec.
AllSpec ==
  /\ AllInit /\ [][AllNext]_allVars
  /\ WF_allVars(Master) /\ \A w \in Worker : WF_allVars(Process(w))

-----------------------------------------------------------------------------
(* Properties of the parts                                                 *)

\* Testbench's Ends (testbench.cpp:170-183), when the test bench is what runs.
BenchEnds ==
  part = "testbench" /\ ((\A t \in Test : outcome[t] # "hang") \/ failed) ~> pc = "done"

\* TestRun's DefersRun (testbench.cpp:21-36).
DefersRun == TR!DefersRun

\* TestRun's TraceTimes (model.cpp:44-98).
TraceTimes == TR!TraceTimes

\* StatusLine's FlagLive (common.cpp:304-382).
FlagLive == SL!FlagLive

\* StatusLine's StatusApart (common.cpp:167-257).
StatusApart == SL!StatusApart

\* Runner's RunsAsTold (runner.h:90-126).
RunsAsTold == RN!RunsAsTold
=============================================================================
