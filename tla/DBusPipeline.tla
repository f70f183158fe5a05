---------------------------- MODULE DBusPipeline ----------------------------
(***************************************************************************)
(* verilate/include/bus.h: how a test drives the data bus.  DBus makes one *)
(* access and awaits it; DBusPipeline takes loads, stores and expectations *)
(* without waiting, keeps them in a queue, and puts the next one on the    *)
(* bus in the cycle the last one is answered.  The bus is any memory that  *)
(* makes the access on it in the cycle it answers (DBusMemory).            *)
(***************************************************************************)
EXTENDS Sequences, Naturals, SequencesExt

CONSTANTS
  Addr, Lane, Byte,
  Dest,      \* variables of the test that loads write to
  NoDest,
  Tasks,     \* what the test submits
  MaxQueue   \* bound: tasks waiting at a time

Word == [Lane -> Byte]

\* Task: a store has a strobe, a load a destination, an expectation neither.
Task == [addr : Addr, strobe : SUBSET Lane, data : Word, dest : Dest \cup {NoDest},
         mask : SUBSET Lane]

TasksAssumption ==
  /\ Tasks \subseteq Task
  /\ NoDest \notin Dest
  /\ MaxQueue \in Nat \ {0}

VARIABLES
  user,      \* "none": no pipeline; "free", "fence", "destroy": in a call of one;
             \* "await": in a load or store of DBus
  ongoing,   \* the queue; for DBus the access that is awaited
  dreq,      \* the request on the bus
  data_ok,   \* the answer to it, in this cycle
  mem,       \* the memory behind the bus
  dests,     \* the test's variables
  failed,    \* an expectation has failed and aborted the test
  expected   \* observer: mem, dests and failed, if tasks ran when submitted

busVars == <<dreq, data_ok>>
vars == <<user, ongoing, busVars, mem, dests, failed, expected>>

-----------------------------------------------------------------------------

is_load(t) == t.strobe = {}

\* async_load leaves the data of the last request, async_store sets all.
Issue(t) ==
  [valid |-> TRUE, addr |-> t.addr, strobe |-> t.strobe,
   data |-> IF is_load(t) THEN dreq.data ELSE t.data]

\* clear(): only the valid bit.
Clear == [dreq EXCEPT !.valid = FALSE]

MergeWord(old, s, new) == [l \in Lane |-> IF l \in s THEN new[l] ELSE old[l]]

\* apply_load and apply_assert, with the word of the answer.
Apply(s, t, word) ==
  IF t.dest # NoDest
  THEN [s EXCEPT !.dests[t.dest] = MergeWord(@, t.mask, word)]
  ELSE IF is_load(t)
  THEN [s EXCEPT !.failed = @ \/ \E l \in t.mask : word[l] # t.data[l]]
  ELSE s

\* A task run on a memory at once; also CacheRefModel::load and store.
RunTask(s, t) ==
  Apply([s EXCEPT !.mem[t.addr] = MergeWord(@, t.strobe, t.data)], t, s.mem[t.addr])

State == [mem |-> mem, dests |-> dests, failed |-> failed]

-----------------------------------------------------------------------------
(* The clock.  Answer is what a tick does at the bus and in the queue.     *)

\* valid and data_ok are read before top->tick(), as is rdata.
Answered == dreq.valid /\ data_ok

\* The memory makes the access that it answers.
MemoryTick ==
  mem' = IF dreq.valid /\ data_ok
         THEN [mem EXCEPT ![dreq.addr] = MergeWord(@, dreq.strobe, dreq.data)]
         ELSE mem

\* The front task gets the word the bus gave, and leaves the queue.
Answer ==
  IF Answered
  THEN LET s == Apply(State, Head(ongoing), mem[dreq.addr])
       IN  dests' = s.dests /\ failed' = s.failed /\ ongoing' = Tail(ongoing)
  ELSE UNCHANGED <<dests, failed, ongoing>>

NextRequest == IF ongoing' = <<>> THEN Clear ELSE Issue(Head(ongoing'))

\* DBusPipeline::tick
PipelineTick ==
  /\ user = "free" \/ (user \in {"fence", "destroy"} /\ ongoing # <<>>)
  /\ MemoryTick
  /\ data_ok' \in BOOLEAN
  /\ Answer
  /\ dreq' = NextRequest
  /\ UNCHANGED <<user, expected>>

\* Mutant: await returns with its request still on the bus.
AwaitTickKeep ==
  /\ user = "await"
  /\ MemoryTick
  /\ data_ok' \in BOOLEAN
  /\ Answer
  /\ dreq' = dreq
  /\ user' = IF Answered THEN "none" ELSE user
  /\ UNCHANGED expected

\* One turn of DBusGen::await.
AwaitTick ==
  /\ user = "await"
  /\ MemoryTick
  /\ data_ok' \in BOOLEAN
  /\ Answer
  /\ dreq' = IF Answered THEN Clear ELSE dreq
  /\ user' = IF Answered THEN "none" ELSE user
  /\ UNCHANGED expected

Tick == ~failed /\ (PipelineTick \/ AwaitTick)

-----------------------------------------------------------------------------
(* Calls of the test                                                       *)

\* Mutant: a task always goes on the bus at once.
SubmitRequestAlways(t) == Issue(t)

SubmitRequest(t) == IF dreq.valid THEN dreq ELSE Issue(t)

\* submit(): load, store and expect.
Submit(t) ==
  /\ user = "free" /\ Len(ongoing) < MaxQueue
  /\ ongoing' = Append(ongoing, t)
  /\ dreq' = SubmitRequest(t)
  /\ IF dreq.valid THEN UNCHANGED data_ok ELSE data_ok' \in BOOLEAN
  /\ expected' = RunTask(expected, t)
  /\ UNCHANGED <<user, mem, dests, failed>>

\* fence() and the destructor, which fences.
Fence ==
  /\ user = "free"
  /\ user' \in {"fence", "destroy"}
  /\ UNCHANGED <<ongoing, busVars, mem, dests, failed, expected>>

FenceReturns ==
  /\ user \in {"fence", "destroy"} /\ ongoing = <<>>
  /\ user' = IF user = "fence" THEN "free" ELSE "none"
  /\ UNCHANGED <<ongoing, busVars, mem, dests, failed, expected>>

\* DBusPipelineGen(top, dbus) asserts that the bus is free.
Construct ==
  /\ user = "none" /\ ~dreq.valid
  /\ user' = "free"
  /\ UNCHANGED <<ongoing, busVars, mem, dests, failed, expected>>

\* DBusGen::load and store, also as CMP_TO wraps them.
LoadOrStore(t) ==
  /\ user = "none"
  /\ t.dest # NoDest \/ ~is_load(t)
  /\ dreq' = Issue(t)
  /\ data_ok' \in BOOLEAN
  /\ ongoing' = <<t>>
  /\ expected' = RunTask(expected, t)
  /\ user' = "await"
  /\ UNCHANGED <<mem, dests, failed>>

Call ==
  /\ ~failed
  /\ \/ \E t \in Tasks : Submit(t) \/ LoadOrStore(t)
     \/ Fence \/ FenceReturns \/ Construct

Init ==
  /\ user = "none" /\ ongoing = <<>>
  /\ mem \in [Addr -> {[l \in Lane |-> b] : b \in Byte}]
  /\ dreq = [valid |-> FALSE, addr |-> CHOOSE a \in Addr : TRUE, strobe |-> {},
             data |-> CHOOSE w \in Word : TRUE]
  /\ data_ok \in BOOLEAN
  /\ dests = [d \in Dest |-> CHOOSE w \in Word : TRUE]
  /\ failed = FALSE
  /\ expected = State

Next == Tick \/ Call

Spec == Init /\ [][Next]_vars

\* The loops of fence and await run, and the bus answers again and again.
FairSpec == Spec /\ WF_vars(Tick /\ data_ok') /\ WF_vars(~failed /\ FenceReturns)

-----------------------------------------------------------------------------
(* Properties                                                              *)

\* What is done and what is still queued make up what was submitted, in that
\* order: run the queue now, and memory, variables and the verdict are those
\* of a test whose tasks had run at once (bus.h:647-687,862-867).
InOrder == FoldLeft(RunTask, State, ongoing) = expected

\* fence, await and the destructor return once the bus answers again and again
\* (bus.h:570-612,632-635,789-802), and leave it free for the next pipeline,
\* unless an expectation fails.
CallsReturn == user \in {"fence", "destroy", "await"} ~>
                 failed \/ (user \in {"free", "none"} /\ ~dreq.valid)
=============================================================================
