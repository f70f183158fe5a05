------------------------------ MODULE Testbench ------------------------------
(***************************************************************************)
(* verilate/vsrc/testbench.cpp, run_testbench with -j n: a master process  *)
(* hands the tests of test_list to forked workers.  A worker writes one    *)
(* byte to ask for work and reads the index of a test, or -1; the master   *)
(* selects over the bytes.  A failing test aborts its worker, which the    *)
(* master sees as the end of file of the worker's pipe.                    *)
(***************************************************************************)
EXTENDS Integers, Sequences, FiniteSets

CONSTANTS
  NWorkers,  \* -j
  Total      \* test_list.size()

ASSUME SizesAssumption == NWorkers \in Nat \ {0} /\ Total \in Nat

Worker == 0 .. NWorkers - 1
Test   == 0 .. Total - 1
Exit   == -1   \* the order to exit
NoTest == -2

VARIABLES
  outcome,   \* what each test does when it runs: "pass", "fail" or "hang"
  st,        \* the workers' processes
  task,      \* the test a worker runs, or ran when it died
  req,       \* bytes in the pipe pw of each worker
  resp,      \* orders in the pipe pm of each worker
  pc,        \* where the master is
  ready,     \* the fd_set select returned, but for those served already
  spawned,   \* workers forked so far
  open,      \* workers whose end of pw the master has not closed
  closed,    \* whether the master has closed its ends of the pipes pm
  first, dispatched, exited, passed, failed, reaped,
  ended      \* observer: how often each test ended well

masterVars == <<pc, ready, spawned, open, closed, first, dispatched, exited,
                passed, failed, reaped>>
vars == <<outcome, st, task, req, resp, masterVars, ended>>

-----------------------------------------------------------------------------
(* Pipes                                                                   *)

\* The master reads EOF from w: only w holds the writing end of its pw, since
\* the master closes pw[1] before it forks again.
RequestEof(w) == st[w] = "dead" /\ req[w] = 0

\* w reads EOF: the master has closed pm[1], and the workers forked after w,
\* which inherited it, are gone.
OrderEof(w) == closed /\ resp[w] = <<>> /\ \A v \in Worker : v > w => st[v] = "dead"

-----------------------------------------------------------------------------
(* run_worker                                                              *)

Goto(w, s) == st' = [st EXCEPT ![w] = s]

Ask(w) ==
  /\ st[w] = "ask"
  /\ req' = [req EXCEPT ![w] = @ + 1]
  /\ Goto(w, "wait")
  /\ UNCHANGED <<outcome, task, resp, masterVars, ended>>

\* read(resp, ...): a test, the order to exit, or the end of the pipe.
TakeOrder(w) ==
  /\ st[w] = "wait" /\ resp[w] # <<>>
  /\ resp' = [resp EXCEPT ![w] = Tail(@)]
  /\ task' = [task EXCEPT ![w] = Head(resp[w])]
  /\ Goto(w, IF Head(resp[w]) < 0 THEN "exit" ELSE "run")
  /\ UNCHANGED <<outcome, req, masterVars, ended>>

NoMoreOrders(w) ==
  /\ st[w] = "wait" /\ OrderEof(w)
  /\ Goto(w, "exit")
  /\ UNCHANGED <<outcome, task, req, resp, masterVars, ended>>

\* run_test returns.
EndTest(w) ==
  /\ st[w] = "run" /\ outcome[task[w]] = "pass"
  /\ ended' = [ended EXCEPT ![task[w]] = @ + 1]
  /\ task' = [task EXCEPT ![w] = NoTest]
  /\ Goto(w, "ask")
  /\ UNCHANGED <<outcome, req, resp, masterVars>>

\* A failed assertion: abort, and no return to the loop.
FailTest(w) ==
  /\ st[w] = "run" /\ outcome[task[w]] = "fail"
  /\ Goto(w, "dead")
  /\ UNCHANGED <<outcome, task, req, resp, masterVars, ended>>

\* run_defers<false, true>(); exit(EXIT_SUCCESS)
ExitWorker(w) ==
  /\ st[w] = "exit"
  /\ Goto(w, "dead")
  /\ UNCHANGED <<outcome, task, req, resp, masterVars, ended>>

WorkerStep(w) ==
  \/ Ask(w) \/ TakeOrder(w) \/ NoMoreOrders(w)
  \/ EndTest(w) \/ FailTest(w) \/ ExitWorker(w)

-----------------------------------------------------------------------------
(* run_parallel                                                            *)

\* The head of the while loop, or what follows the fork loop.
LoopHead(f, n) == IF ~f /\ n < NWorkers THEN "select" ELSE "close"

Spawn ==
  /\ pc = "spawn"
  /\ st' = [st EXCEPT ![spawned] = "ask"]
  /\ spawned' = spawned + 1
  /\ open' = open \cup {spawned}
  /\ pc' = IF spawned' = NWorkers THEN "select" ELSE "spawn"
  /\ UNCHANGED <<outcome, task, req, resp, ready, closed, first, dispatched, exited,
                 passed, failed, reaped, ended>>

Readable(w) == req[w] > 0 \/ RequestEof(w)

\* select() blocks until one of the open pipes can be read.
SelectReady ==
  /\ pc = "select"
  /\ ready' = {w \in open : Readable(w)}
  /\ ready' # {}
  /\ pc' = "serve"
  /\ UNCHANGED <<outcome, st, task, req, resp, spawned, open, closed, first, dispatched,
                 exited, passed, failed, reaped, ended>>

\* Mutant: the first byte of a worker counts as a passed test.
PassedNextAlways(w) == passed + 1

PassedNext(w) == IF first[w] THEN passed ELSE passed + 1

\* Mutant: the first test of a worker is not counted as dispatched.
DispatchedNextLate(w) ==
  IF dispatched < Total /\ ~first[w] THEN dispatched + 1 ELSE dispatched

DispatchedNext(w) == IF dispatched < Total THEN dispatched + 1 ELSE dispatched

Order == IF dispatched < Total THEN dispatched ELSE Exit

\* The scan comes to w: the lowest pipe still set.
Lowest(w) == w \in ready /\ \A v \in ready : w <= v

\* The body of the scan: a test or -1 for the byte that was read.  Writing to a worker that is gone kills the master.
Serve(w) ==
  /\ pc = "serve" /\ Lowest(w) /\ req[w] > 0
  /\ req' = [req EXCEPT ![w] = @ - 1]
  /\ first' = [first EXCEPT ![w] = FALSE]
  /\ passed' = PassedNext(w)
  /\ dispatched' = DispatchedNext(w)
  /\ resp' = [resp EXCEPT ![w] = Append(@, Order)]
  /\ exited' = IF Order = Exit THEN exited + 1 ELSE exited
  /\ open' = IF Order = Exit THEN open \ {w} ELSE open
  /\ ready' = ready \ {w}
  /\ pc' = IF st[w] = "dead" THEN "sigpipe"
           ELSE IF ready' = {} THEN LoopHead(failed, exited') ELSE "serve"
  /\ UNCHANGED <<outcome, st, task, spawned, closed, failed, reaped, ended>>

\* read() returns 0: leave the scan and the loop.
ServeEof(w) ==
  /\ pc = "serve" /\ Lowest(w) /\ req[w] = 0
  /\ failed' = TRUE
  /\ ready' = {}
  /\ pc' = LoopHead(TRUE, exited)
  /\ UNCHANGED <<outcome, st, task, req, resp, spawned, open, closed, first, dispatched,
                 exited, passed, reaped, ended>>

CloseAll ==
  /\ pc = "close"
  /\ closed' = TRUE
  /\ pc' = "reap"
  /\ UNCHANGED <<outcome, st, task, req, resp, ready, spawned, open, first, dispatched,
                 exited, passed, failed, reaped, ended>>

\* Mutant: a worker that is still alive is waited for and not killed.
KillsNever(w) == FALSE

Kills(w) == failed /\ st[w] # "dead"

\* waitpid(WNOHANG), kill and waitpid for the next worker.
Reap ==
  /\ pc = "reap" /\ reaped < NWorkers
  /\ st[reaped] = "dead" \/ Kills(reaped)
  /\ Goto(reaped, "dead")
  /\ reaped' = reaped + 1
  /\ pc' = IF reaped' = NWorkers THEN "done" ELSE "reap"
  /\ UNCHANGED <<outcome, task, req, resp, ready, spawned, open, closed, first,
                 dispatched, exited, passed, failed, ended>>

MasterStep ==
  \/ Spawn \/ SelectReady
  \/ \E w \in Worker : Serve(w) \/ ServeEof(w)
  \/ CloseAll \/ Reap

Init ==
  /\ outcome \in [Test -> {"pass", "fail", "hang"}]
  /\ st = [w \in Worker |-> "unborn"]
  /\ task = [w \in Worker |-> NoTest]
  /\ req = [w \in Worker |-> 0]
  /\ resp = [w \in Worker |-> <<>>]
  /\ pc = "spawn" /\ ready = {} /\ spawned = 0 /\ open = {} /\ closed = FALSE
  /\ first = [w \in Worker |-> TRUE]
  /\ dispatched = 0 /\ exited = 0 /\ passed = 0 /\ failed = FALSE /\ reaped = 0
  /\ ended = [t \in Test |-> 0]

Next == MasterStep \/ \E w \in Worker : WorkerStep(w)

Spec == Init /\ [][Next]_vars

\* The scheduler runs every process; a test that hangs goes on hanging.
FairSpec == Spec /\ WF_vars(MasterStep) /\ \A w \in Worker : WF_vars(WorkerStep(w))

-----------------------------------------------------------------------------
(* Properties                                                              *)

\* Every test handed out is in one place, once: in a worker's pipe, run by a
\* worker (alive or not), or ended; and the tests are handed out in order
\* (testbench.cpp:149-163), whatever the order of the answers.
EachOnce ==
  \A t \in Test :
    ended[t] + Cardinality({w \in Worker : task[w] = t})
      + Cardinality({w \in Worker : \E i \in DOMAIN resp[w] : resp[w][i] = t})
    = IF t < dispatched THEN 1 ELSE 0

\* When run_parallel returns it reports a failure exactly if a test failed,
\* without one it has counted every test once, and no worker is left
\* (testbench.cpp:122-188).
Verdict ==
  pc = "done" =>
    /\ failed <=> \E t \in Test : outcome[t] = "fail"
    /\ ~failed => passed = Total /\ \A t \in Test : ended[t] = 1
    /\ passed <= Cardinality({t \in Test : ended[t] = 1})
    /\ \A w \in Worker : st[w] = "dead"
=============================================================================
