---------------------------- MODULE TestbenchInv ----------------------------
(***************************************************************************)
(* The inductive invariant of Testbench: where the master can be, what a   *)
(* worker's pipes hold in each of its states, where each test is, and what *)
(* the master's count of passed tests leaves out.                          *)
(***************************************************************************)
EXTENDS Testbench

TypeOK ==
  /\ outcome \in [Test -> {"pass", "fail", "hang"}]
  /\ st \in [Worker -> {"unborn", "ask", "wait", "run", "exit", "dead"}]
  /\ task \in [Worker -> Test \cup {Exit, NoTest}]
  /\ req \in [Worker -> {0, 1}]
  /\ resp \in [Worker -> {<<>>} \cup {<<o>> : o \in Test \cup {Exit}}]
  /\ pc \in {"spawn", "select", "serve", "close", "reap", "done"}
  /\ ready \in SUBSET Worker /\ open \in SUBSET Worker
  /\ spawned \in 0 .. NWorkers /\ reaped \in 0 .. NWorkers
  /\ closed \in BOOLEAN /\ failed \in BOOLEAN
  /\ first \in [Worker -> BOOLEAN]
  /\ dispatched \in 0 .. Total /\ exited \in Nat /\ passed \in Nat
  /\ ended \in [Test -> {0, 1}]

\* The pipes to the workers stay open until the master leaves its loop: when
\* all workers have their order to exit, or one has failed a test.
Phases ==
  /\ spawned < NWorkers <=> pc = "spawn"
  /\ closed <=> pc \in {"reap", "done"}
  /\ ~closed => reaped = 0
  /\ pc = "done" => reaped = NWorkers
  /\ pc = "serve" <=> ready # {}
  /\ failed => pc \in {"close", "reap", "done"}
  /\ pc \in {"close", "reap", "done"} /\ ~failed => open = {}
  /\ failed => \E t \in Test : outcome[t] = "fail"

\* After a failure a worker can end anywhere: it is killed, or finds its
\* pipe closed.
Abandoned == failed /\ closed

Empty(w) == resp[w] = <<>> /\ req[w] = 0

WorkerOK(w) ==
  /\ st[w] = "unborn" <=> w >= spawned
  /\ st[w] = "unborn" => task[w] = NoTest /\ Empty(w) /\ first[w]
  /\ st[w] = "ask" => task[w] = NoTest /\ Empty(w)
  /\ st[w] = "wait" => task[w] = NoTest /\ (req[w] = 1 <=> resp[w] = <<>>)
  /\ st[w] = "run" => task[w] \in Test /\ Empty(w)
  /\ st[w] = "exit" => (task[w] = Exit /\ Empty(w)) \/ Abandoned
  /\ st[w] = "dead" => \/ task[w] \in Test /\ outcome[task[w]] = "fail" /\ Empty(w)
                       \/ task[w] = Exit /\ Empty(w)
                       \/ Abandoned
  /\ resp[w] # <<>> => task[w] = NoTest /\ req[w] = 0
  /\ first[w] => task[w] = NoTest /\ resp[w] = <<>>
  /\ w < reaped => st[w] = "dead"

Workers == \A w \in Worker : WorkerOK(w)

\* A pipe is closed when its worker is sent the order to exit, which happens
\* when every test has been handed out.
Leaves(w) == resp[w] = <<Exit>> \/ task[w] = Exit

PipeOK(w) ==
  /\ w \in open => w < spawned /\ ~Leaves(w)
  /\ w < spawned /\ w \notin open => Leaves(w) /\ dispatched = Total /\ ~first[w]
  /\ w \in ready => w \in open /\ Readable(w)

Pipes == \A w \in Worker : PipeOK(w)

\* Who answers for a test.
Holds(w, t) == task[w] = t \/ resp[w] = <<t>>

TestOK(t) ==
  /\ t < dispatched => ended[t] = 1 \/ \E w \in Worker : Holds(w, t)
  /\ ended[t] = 1 => t < dispatched /\ outcome[t] = "pass"
  /\ \A w \in Worker : Holds(w, t) => t < dispatched /\ ended[t] = 0
  /\ \A v, w \in Worker : Holds(v, t) /\ Holds(w, t) => v = w

Placed == \A t \in Test : TestOK(t)

\* Workers that have their order to exit.
Exited == {w \in Worker : w < spawned /\ w \notin open}

\* Tests that ended well, and those workers that have not told so yet.
Passes    == {t \in Test : ended[t] = 1}
Unheard == {w \in Worker : ~first[w] /\ (st[w] = "ask" \/ req[w] = 1)}

Counts ==
  /\ exited = Cardinality(Exited)
  /\ passed + Cardinality(Unheard) <= Cardinality(Passes)
  /\ ~failed => passed + Cardinality(Unheard) = Cardinality(Passes)

Inv == TypeOK /\ Phases /\ Workers /\ Pipes /\ Placed /\ Counts
=============================================================================
