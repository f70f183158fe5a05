# A verification of the RISC-V processor in this repository

The repository holds a five-stage RV64IM pipeline, its two caches, the bus between them and memory, an FPGA system
around them, and the C++ test benches that drive all of it under Verilator. This directory holds TLA+ models of the
parts that carry logic of their own, TLC configurations that check them on small instances, and TLAPS proofs of the
properties that matter most, for every value of the parameters. (`vsrc/...`, `vivado/...` and `verilate/...` below are
paths under `src/`.)

## 1. The system

    core.sv ── instruction bus ── ICache ──┐
       │                                   CBusArbiter ── cache bus ── memory, devices
       └────── data bus ───────── DCache ──┘

On the chip everything but the UART is one clock domain. A module's registers change at the clock edge; its outputs are functions
of its registers and inputs. The only nondeterminism is outside: how long the memory takes for each beat, when reset
comes, and which program runs. It is enough to make every hard behaviour of the design, because two masters, two
caches and five stages each wait for a different answer.

| part | state it keeps | operations | talks to | what is hard |
|---|---|---|---|---|
| data cache, `cache/DCache.sv`, `ram/RAM_SinglePort.sv` | FSM, burst counter, RAMs for words, tags and ages | hit, store, miss, write-back, fill, device access, reset walk | data bus above, cache bus below | victim and request are recomputed in every cycle; reset in a burst; counters that wrap |
| instruction cache, `cache/ICache.sv` | the same (it wraps a data cache) | fetch | the same | no coherence with the data cache |
| arbiter, `util/CBusArbiter.sv` | `busy`, `index` | grant, release, reset | two caches, one memory | priority, release in the middle of a burst |
| burst memory, `verilate/vsrc/cbus_device.cpp`, `axi.h`, `memory.cpp` | words, the running transaction | start, beat, end, being disabled for a cycle | the cache bus | random delay before any beat |
| cache test bench, `VCacheTop.sv`, `verilate/vsrc/VCacheTop` | the request, the last answer | issue, await, clear, reset | the data cache | reset between any two tests |
| pipeline, `pipeline/core.sv` and below | `pc`, a kept branch, four pipeline registers, register file | fetch, decode, execute, memory, write back | both buses | stalls, flushes and forwarding meet waits of two buses |
| multiplier, divider, `execute/mult.sv`, `divid.sv`, `alu.sv` | state, one-hot count, 129/128-bit product and remainder | start, 64 steps, done | stage E | widths, signs, operands that change under the unit |
| CSRs, `csr/csr.sv` | machine-mode registers, mode | read, write, trap, mret | write back, `pc` | traps against the waits of both buses |
| AXI bridge, `util/CBusToAXI.sv` | outstanding channels, beat count, request | issue, handshakes | a cache bus, an AXI memory | five channels in any order |
| FPGA system, `vivado/src/with_delay` | delay and burst counters, a late answer | memory access, device access | the cache bus | the word, the beat and the answer come in different cycles |
| UART of the board, `device.sv`, `uart_tx_ctrl.v` | transmitter, a `wrote` bit, the string of the end | a character for each store | the cache bus, a line | two clocks, and a request that stays on |
| `REFERENCE_CACHE`, end of `DCache.sv`; `cache_ref.cpp` | one line, its tag | hit, flush, fetch | as the data cache; a model that is compared with it | the flush goes on behind the answer |
| bus classes, `verilate/include/bus.h`, `cell.h` | queue of requests, bindings of cells | load, store, expect, fence; move, copy, swap | the data bus | an answer and a call in one cycle; C++ moves |
| test bench, `verilate/vsrc/testbench.cpp` | pipes, counts, what each worker does | fork, select, serve, wait, kill | its workers | they end, fail or hang in any order |
| a test, `testbench.h`, `testbench.cpp`, `model.cpp` | deferred functions, switches, the trace file | plugins, cycles, dump, abort | the model | an assertion or SIGINT anywhere |
| status line, `common.cpp`, `common.h` | a lock, a line, a flag on the heap | print, report, start, stop | a thread for each test | the thread outlives its test, and comes between the calls that print one line |
| command line, `runner.h`, `CLI11.hpp` | options, results | split, match, convert, set up | everything above | options that take what follows |
| memory files, `memory.cpp` | words | load coe, mif, hex, binary | the simulator | widths |
| confreg, `confreg.cpp`, `mypty.cpp` | registers, queue of input | load, store, sync, typing | the bus, a thread | input that comes between a look and a read |

What makes each part correct:

* data cache: together with any memory it is one memory; no dirty word is lost; a device is accessed once for each
  request; a line has one place; every request ends.
* arbiter and both caches: each still works as if it were alone; nobody starves.
* pipeline: what it commits, in which order and with which values, is what a machine does that executes one
  instruction after the other; its bus accesses are that machine's, unchanged until they are answered; it never
  stops.
* units: the result is the manual's for every operand.
* AXI bridge, FPGA memory: a cache cannot tell them from the simulator's memory; a device sees an access once.
* UART, confreg: each character of a program goes through once, in order.
* bus classes: what a test program reads is what it would read from plain variables, in the order it asked.
* test bench: each test runs once and the verdict is that of the tests, whoever fails, hangs or dies; what a test
  deferred is done however it ends; a status line and other text keep apart; options mean what the help says.

`PROJECT.json` lists every component and, under `hazards`, each place of the code where one of these could go wrong
in a way tests hardly reach.

## 2. Modules

| module | models | written from |
|---|---|---|
| `CBus` | addresses, words, requests and answers | `include/common.sv`, top of `DCache.sv` |
| `DCache` | the data cache, one action for each FSM state and what decides it | `DCache.sv` 39–356, `RAM_SinglePort.sv` |
| `CBusDevice` | the burst memory | `cbus_device.cpp`, `axi.h`, `memory.cpp` |
| `VCacheTop` | master + cache + memory, and the cache's properties | `VCacheTop.sv`, `mycache.*`, `bus.h` |
| `DBusMemory` | *abstract*: one memory whose accesses take effect when they are answered | `cache_ref.cpp` |
| `CBusArbiter` | the arbiter | `CBusArbiter.sv` |
| `VTop` | two caches (two INSTANCEs of `DCache`) + arbiter + memory | `VTop.sv`, `ICache.sv` |
| `Isa` | the instructions as the pipeline tells them apart, and what one does | `control.sv`, `decode.sv`, `alu.sv` |
| `Sequential` | *abstract*: the machine that executes one instruction after the other | the reference model difftest runs |
| `Pipeline` | every register of the pipeline, stalls, flushes, forwarding | `core.sv`, `pc.sv`, `pipereg/*`, `hazard/*`, `memory.sv`, `writeback.sv`, `regfile.sv` |
| `Alu` | multiplier and divider bit for bit, at a width of two halves | `mult.sv`, `divid.sv`, `alu.sv` |
| `CBusToAXI` | the bridge, and an AXI memory that answers in any order AXI allows | `CBusToAXI.sv` |
| `SocTop` | two caches + arbiter + crossbar + RAM wrapper + device | `vivado/src/with_delay`, `cbus_crossbar.sv` |
| `Uart` | the board's transmitter, and a receiver on its line | `device.sv`, `uart_tx_ctrl.v` |
| `Confreg` | the simulated peripherals and the thread that types | `confreg.cpp`, `mypty.cpp`, `checkout_confreg` |
| `RefCache` | the one-line cache, the burst memory, and the reference model it is compared with | end of `DCache.sv`, `cache_ref.cpp`, `mycache.h` |
| `DBusPipeline` | the bench's queue of requests, its caller, a bus that answers when it likes | `bus.h` |
| `LoadOp`, `MemoryLanes` | accesses of every width and address, in hardware and in C++, to one word | `bus.h`, `readdata.sv`, `writedata.sv`, `memory.sv`, `cell.h` |
| `Cells` | cells that are bound, moved, copied, swapped | `cell.h` |
| `Testbench` | the master, its workers, their pipes | `testbench.cpp` `run_parallel` |
| `TestRun` | the tests of one process: plugins, deferred functions, trace file, abort | `testbench.h`, `testbench.cpp`, `model.cpp`, `vmain.cpp` |
| `StatusLine` | printing threads, their flags, the lock, the report of an assertion | `common.cpp`, `common.h` |
| `Runner` | the command line | `runner.h`, the path of `CLI11.hpp` it takes |
| `MemoryImage` | the readers of memory files, block memory, router | `common.cpp`, `memory.cpp` |
| `MCVCacheTop`, `MCPipeline`, `MCVTop`, `MCMemoryImage` | values of the constants for TLC | |
| `MCTops`, `MCTestRuns`, `MCTestMemory`, `MCHardware` | instances of several modules in one run | |
| `VCacheTopInv`, `PipelineInv`, `TestbenchInv`, `RunnerInv` | inductive invariants, in named parts (those of the other modules head their proofs) | |
| `VCacheTopProofs`, `VTopProofs`, `SocTopProofs`, `PipelineProofs` | theorems about the caches, the tops and the pipeline | |
| `AluProofs`, `DeviceProofs` | theorems about the members of `MCHardware` | |
| `TestMemoryProofs`, `TestRunsProofs` | theorems about the members of `MCTestMemory` and of `MCTestRuns` | |

How the models read:

* **In hardware a step is a clock edge.** A module's cycle says what each of its registers gets; a composition (`VCacheTop.Tick`,
  `VTop.Tick`) conjoins the cycles of its parts, and the wires between them are operators that follow the
  combinational paths (`creq`, `oreq`, `cresp`, `dresp`).
* **In software a step is what one process or thread does** between two points where another can come in: a
  system call, a lock, a look at a shared variable, a turn of the clock. In `MemoryImage` and `Runner`, which are
  sequential, it is one turn of a loop.
* **Suites.** `MCTestRuns`, `MCTestMemory` and `MCHardware` put parts that share no state into one run: a variable `part`,
  chosen in the initial state, says which of them the instance is about, and the variables of the others keep their first
  value. No combination of two parts is explored, and none exists in the code. `MCTops` does the same with the two tops
  (`top`), which share caches and arbiter. The suites also state the components' assumptions, so that TLC evaluates them.
* **Names are the code's.** In `Pipeline`, `dataF_nxt`, `dataD_nxt`, `dataE_nxt`, `dataM_nxt` are the outputs of IF/ID,
  ID/EX, EX/MEM and MEM/WR, so `dataE_nxt` is what M works on; `srca_hD` and `srca_hE` are what `forward.sv` makes of
  an operand in D and in E; `stallF` … `stallW` are those of `stall.sv`. The `flush` input of a stage and the enable of
  its register are arguments of `PipeReg`, which is the always block the four files share.
* **Addresses** in the cache are records of tag, set and offset, so that the tag can be a model value; a set of tags
  `IOTag` stands for `addr[31] = 0`. A word is a function from byte lanes to bytes. Instruction addresses count
  instructions (the code's `+ 4` is `+ 1`), and words wrap at `WordSize` as the code's wrap at 2^64.
* **Inputs.** `enable` is the device's `p_disable` draw for the cycle. `iresp_ok` and `dresp_ok` are the two
  `data_ok`s; that one can come in any cycle stands for every behaviour of the caches. `prog` is instruction
  memory, chosen once. A reset can come at any moment in `VCacheTop` and `Pipeline`, and in `VTop` when `MayRestart`.
* **What is undefined** is left open: before the unit is done, `aluout` of a multiplication is what its registers
  hold, and the word of an unanswered load is the zero `readdata` gets.

Modules have observers, which no action reads. `rdata` (VCacheTop) is the answer the bench took; `ref` (Pipeline) is the reference machine
difftest steps at each commit; `passed` (VTop) counts the grants a waiting fetch has seen go by, capped at 3; those of the other modules are marked "observer" where they are declared.

## 3. What the runs check

Every property stands in its module with a comment that says what it is about, and at which lines of the code.
Every property of a passing run also has a *mutant*: a definition of the model changed as a likely bug would change the
code, which makes the run fail. They stand beside the definition they change (`DCache!WriteWordClean`, …).

| run (module, cfg) | distinct states | what it shows |
|---|---|---|
| `cache_one_set` (`MCVCacheTop`, `VCacheTop.cfg`) | 92,652 | one memory; no dirty line lost; the victim, the tags, the request and the beats are right in every cycle of a miss; least recently used; devices accessed once |
| `cache_two_sets` (`MCVCacheTop`, `VCacheTopSets.cfg`) | 114,866 | reset walks over all sets from wherever the counter was; sets and byte lanes do not disturb each other; every request is answered |
| `cache_fake_store` (`MCVCacheTop`, `VCacheTopFake.cfg`) | *fails* | a divergence of section 6 |
| `pipe_operands` (`MCPipeline`, `PipelineOperands.cfg`) | 2,152,616 | registers, memory and bus requests are the reference machine's, for results, loads, stores and the unit's results at every distance; each answer is taken when it comes, each instruction committed once |
| `pipe_branches` (`MCPipeline`, `PipelineBranches.cfg`) | 1,014,390 | branches against running fetches: nothing lost, nothing from the wrong path, requests held, one target, and the refinement of `Sequential` |
| `pipe_live` (`MCPipeline`, `PipelineLive.cfg`) | 39,192 | the pipeline never stops |
| `soc` (`MCTops`, `VTop.cfg`) | 233,864 | both caches behind the arbiter, on the simulator's memory and on the FPGA's: whole bursts, answers to the right cache, right words, a fetch passed at most twice, nothing written to a wrong place |
| `soc_live` (`MCVTop`, `VTopLive.cfg`) | 117,089 | neither cache waits for ever, with resets at any moment |
| `test_runs` (`MCTestRuns`, `TestRuns.cfg`) | 770,880 | each test once and a right verdict, whoever fails, hangs or dies; the bench ends; deferred functions, traces, status lines and options |
| `test_memory` (`MCTestMemory`, `TestMemory.cfg`) | 318,046 | the one-line cache is the model it is compared with; queued accesses keep their order and calls return; cells are variables; bytes go where they belong, of misaligned accesses too |
| `hardware` (`MCHardware`, `Hardware.cfg`) | 830,076 | multiplication and division are the manual's; a program's characters once, in order, in and out; the bridge with AXI is the simulator's memory |
| `memory_image` (`MCMemoryImage`, `MemoryImage.cfg`) | *fails* | a divergence of section 6 |

### The bounds, and why they are enough

* **Cache.** Two ways as in the code. One set with three lines and a device is the least that makes evictions, both
  clean and dirty, on both ways, with the third line coming back. Lines of two words are the least that make a
  burst with a beat that is not the last. With two sets, lines of two words and a reset of three cycles, a reset that
  begins in the middle of a burst walks on from the other set; stores there are of one byte lane of two, of a value
  memory does not hold. `SetNum` must divide `WordsPerLine` (8 and 16 in the code): a flush takes the set from the
  burst counter. The proofs cover all other values.
* **Pipeline.** The program is any function from the four addresses to a pool of up to seven instructions, running
  round and round: it holds every pair and triple of neighbours, and each of the four also meets itself a lap later.
  Three registers are x0 and two others, so that a producer, a consumer and a bystander differ. Words are 0..3. A unit
  takes two cycles instead of 65: the stages behind it settle in one. Reset is held for two cycles, which is the least
  that works (see `TicksAssumption`, section 5). The pools divide the questions; a run may have several.
* **Tops.** Three lines for two ways in each cache. The data cache's lines are written to one by one, and one request
  goes to a device (two on the FPGA). `BRAM_DELAY` is 2, as the code has it for simulation (32 on the board): the counter waits, counts, and stays.
  `soc_live` uses lines of one word to afford resets and fairness; the two-word lines are in `soc`.
* **Alu.** Registers of four bits with halves of two: every operation on every pair of operands, from the reset state,
  and then any operation on corner operands (0, the least number, −1, and one whose low half alone is zero), since what
  the last operation leaves in a unit could matter. The code's 64 steps are `2 * Half` here, because its count is a
  single bit that is shifted out.
* **Uart.** Four cycles of its clock in one of the core's, three of them a bit, two data bits: a character takes longer than the store
  stays, which is what `wrote` is for, every text of up to three characters, and a string of two and its terminator (`UartAssumption` holds on the board).
* **Confreg.** Two characters typed (`MaxTyped`) and two stored (`MaxStored`), of a printed and an unprinted kind; one number (`MaxNum`).
* **CBusToAXI.** Bursts of two words and single words from both addresses of a line, so that a burst wraps; every order and delay
  of the five channels.
* **RefCache.** Two lines of four words, accesses to a first, a middle and a last word.
* **DBusPipeline.** Two addresses and tasks of each kind; the queue holds two (`MaxQueue`), the one on the bus among
  them: a task is answered in the cycle in which another is put on behind it.
* **Cells.** Five bytes (`Size`), an array of two bytes behind the three (`Base`) the factory hands out, a local of the same
  width and one of another: a swap has a third place, a copy goes to a wider cell and back, and a half word may be allocated
  behind a byte. The array lies aligned (`CellsAssumption`), which `take<T, N>` (`cell.h:257`) does not check;
  what an element does that is not aligned is in `MemoryLanes`.
* **MemoryLanes.** One word, three bit patterns that tell the lanes apart, every width and address, aligned or not: lanes beyond
  the word are not reached by any of the units.
* **Testbench.** Three workers, four tests of every combination of outcomes: a worker gets a second test while another has
  none and a third has failed. The theorems cover all other numbers.
* **TestRun.** Four tests with the plugins that interact, up to four cycles (`MaxTicks`): two files are opened in one process, and a test
  skips between them.
* **StatusLine.** Three threads, four prints (`MaxPrints`), a buffer of three (`MaxBuffer`): two threads outlive
  their tests while a third prints, a line is cut at the buffer's end, and a status line can come between any two calls of a report.
* **Runner.** Every command line of up to three (`MaxArgs`) of sixteen arguments, on the runner of the cache bench and on one
  with every option: an option, its value and what follows.

Deadlock is checked in every run but `memory_image`: a clock never stops. Where a program does stop, because it has ended, an assertion has
failed, or it waits for a test that hangs, a stuttering action says exactly where (`Stopped`, `Ended`, `Aborted`).

### Fairness

* `VCacheTop`: `WF(ResetTick)` and `WF(Tick /\ enable')`: the clock runs, and the memory answers again and again
  (`p_disable < 1`). Nothing is assumed of the cache itself or of the master.
* `VTop`: `[]<><<TRUE>>_vars`, the clock never stops, and `[]<>enable`. A reset may come for ever; what is promised is
  `answered or reset`.
* `Pipeline`: weak fairness of cycles in which the instruction bus answers, and of cycles in which the data bus does.
  Two things are assumed of the buses besides. An answered request that is *repeated* is answered again
  (`AnswersKept`): while a multiplication is in E, `stall.sv` makes M repeat its access, and with answers that
  come and go the pipeline could wait for ever. The caches justify it for cached memory: `AnsweredAgain`, checked and
  proved. And no reset is forced to come: fairness speaks only of cycles that do not start one.
* `Testbench`: weak fairness of the master and of each worker: they are processes, and the system schedules each. A test
  that hangs takes its steps and does not end; `BenchEnds` is promised for runs without one, and for all that have failed.
* `DBusPipeline`: weak fairness of cycles in which the bus answers (`Answered` of the cache), and of the loop in `fence`, which
  ticks and looks.

## 4. How the parts fit

The pipeline assumes of its buses that an access happens in the cycle it is answered, and changes nothing else. That is
what `ImplementsMemory` says of the cache. The caches assume that their masters keep a request until it is answered.
That is `RequestsHeld` of the pipeline, and both are theorems. `VTop` then shows that the arbiter takes nothing away:
`DataRight` is what `DBusMemory` says, `FetchRight` its read-only half for the other cache. The refinement of the cache
needs a master that drives no strobe without `valid` (`QuietMaster`, section 6): `memory.sv` drives one only for
`memwrite`, where `valid` is up as well.

The same caches and arbiter run on three memories. `SocTop` shows that the FPGA's wrapper, whose read answers come a cycle
late and which still answers a cycle after the end of a write, does to them what the burst memory does (`MemoryRight`, a theorem). `CBusToAXI`
shows that the bridge with any AXI memory *is* a burst memory (`MatchesDevice`, a theorem), so that it could stand in its place.

The test benches sit above the data bus. `DBusPipeline` assumes of the bus what `ImplementsMemory` says of the cache; `Cells`
assumes that a read returns what was written last, which is `InOrder` of `DBusPipeline`, with the lanes of `MemoryLanes`
between them. `RefCache` takes the reference model itself as a component: `RefAgrees` says that its comparisons never fail on a
cache that is right. Above them, `TestRun` is what a worker of `Testbench` does in its "run" state, `StatusLine`'s main
thread is one that prints in `TestRun`, and `Runner` ends where either begins.

Fetches and stores must be to different lines (`FetchAssumption`): nothing keeps the two caches coherent, and there is
no `fence.i`.

## 5. What is proved

`tlapm` checks the theorems `PROJECT.json` lists and the lemmas below them, with no step left open, for **every** number
of sets, line length, set of tags, lanes and bytes, **every** program, word size, number of registers, bus latency and
unit latency, **every** number of workers, tests, plugins, threads and cells, **every** width of the units, **every**
bit time and ratio of the UART's clocks, and **every** command line. Every safety property the passing runs check has a
theorem (`NameHolds`; `Implements` for the refinements of the cache and the pipeline). So have their parts (`CacheSound`, `StateAgrees` and `PathRight` are
conjunctions) and `AnsweredAgain`. For a member of a suite the theorem about its module alone comes first, and the one
about the suite follows from it.

**Cache.** The argument has three layers, each inductive relative to the one before.
1. `ControlCore` needs no data: in a state other than IDLE the master is waiting with that
   request; a write-back still has the victim it began with; a fill that has not claimed its way has not begun on the bus;
   the running transaction is the request on the bus; counters agree; two equal ages exist only in a set that is not
   full. The last is what makes the victim a function of the state although nothing stores it.
2. `LinesCore` adds words: those below the counter have been written back, or have arrived; a way
   that is about to be overwritten is in memory.
3. `Inv` adds that a store left on the bus was done already. With it each clock edge is a step of `DBusMemory` under
   the mapping `View`: the line if the cache holds it *and is not just filling it*, else memory.

**Both caches.** `VTopProofs` proves nothing about a cache a second time. What each has of the arbiter and the memory is the
bench's memory, *enabled in the cycles in which the bus is granted to it* and otherwise idle: with that substitution (the
instances `DC` and `IC`) a cycle of `VTop` is a `Cycle` of either bench (`DCycle`, `ICycle`), and the lemmas on control, lines
and view are taken from there. For the instruction cache the bench's memory is `InitMem`, which does not change: that
needs `Untouched`, an invariant of the two caches together. Only a line some store is to is ever dirty, so only such a line
is written to memory, and the instruction cache, which makes no stores, writes back nothing. `Granted` says that a granted bus has a request and a
free one no transaction, and `Passing` what the data cache is doing while a fetch waits, from which `PassedTwice` follows.
An answered fetch then gets the word of the program (`FetchRight`), and the view of the data cache moves as the bench's does
(`DataRight`).

**FPGA system.** `SocTopProofs` goes the same way, but there is no transaction to hand to the bench: it has to be made out of
the registers of `bram_wrapper.sv` (`TxFor`, `EnableFor`). Once the wrapper has waited, a write has moved as many words as
`burst_counter` says; a read, which is answered in the cycle after, one less; before that there is none. An access of the device is
a transaction of one beat, and since its store is not one to the memory, the data cache's memory has its request without
the strobe (`Stripped`). `Wrapper` is the part of the invariant that ties the registers together: what is in the counters before, in
and behind a burst, that the last answer of a read is marked when the last word has been read, and that the word on its way is
the one of the beat before. `Asked`, `Granted` and `Untouched` are as for `VTop`. The theorem is proved twice: for `SocTop` with every
set of fetches and requests, and, in `VTopProofs`, for the instance that runs beside `VTop`, whose definitions are shown to be the
same, one after the other (`SameTypes` and below). `SocAssumption` asks for a word to have lanes: a write without a strobe is a read to
the wrapper (`mycpu_top.sv:31`), and a line without lanes would be written back that way.

**Pipeline.** `PipelineInv!Inv` says what each stage holds in terms of the reference machine *as it will be* when the
instructions ahead of that stage are committed (`refW`, `refM`, `refE`, `refD`). A stage's instruction is the one at that
machine's `pc`; an operand E has read is right unless M or W is about to write it, which are exactly the cases in which
`forward.sv` replaces it; if W stays for a second cycle its result is in the register file already; the unit works on
the operands E has *now*. `PipelineProofs` proves what holds within a cycle (forwarding gives the reference machine's
operands, results are right, where a branch goes), and then that each clock edge keeps the invariant, one
lemma for each part, and the refinement with `archMachine`, which moves when W commits.

**Test bench.** `TestbenchInv!Inv` says of each worker what its two pipes hold in each of its states: never more than one
byte and one order, and never both, since a worker asks only when it has been told, and reads before it asks again. From that:
the master never writes to a pipe whose reader is gone, except after a failure, when it writes no more (`SIGPIPE` is why
this matters: it would kill the master without a verdict). `Placed` says where each test is. `Counts` says what the master's
`passed` leaves out: it counts a test when its worker asks *again*, so `passed` plus the ends it has not heard of is the number
of tests that have ended; when every worker has been sent its order to exit there are none left, which is `Verdict`.
`EachOnce` and `Counts` are about cardinalities of sets of workers, which the lemmas at the head of `TestRunsProofs`' part on it move by one
for each step.

**Test run.** `TestInv` (`TestRunsProofs`) counts backwards. At every moment of a test the deferred functions that are still to be called are
the bottom of the list `run` was given, and what has been called is the rest of it, in reverse, at the end of `ran`; so `DefersRun`
needs no history of its own. A trace file that is open has its closing function among those still to be called, and its last time is at
most ten times the number of cycles, which `TraceTimes` needs for the edge a traced test writes after a gap.

**Status line.** `StatusInv` (`TestRunsProofs`): a flag is there as long as the thread that looks at it, and says "run" for the thread of the
running test alone. What looks like a status line on the terminal is known to be one, so that a clear wipes nothing else and
no text gets behind one; a program with a UART has status lines or characters there, never both (`Terminal`). What a status line may
still cover is a line that somebody has left unfinished (`Unfinished`): the piece of a report's line is on the terminal only
between the calls that print it, and what the buffer has cut only in a program with a UART. Section 6 has both gaps.

**Command line.** `RunnerInv!RInv`. `Right` and `Wanted` read a command line as a whole; `Runner` takes it apart from the front,
and may stop anywhere. While it parses, one of two things holds. `OnTrack`: what is left is an end of the command line that does not begin
with somebody's value (`Aligned`); each option has as many results as arguments so far name it, the last of them from the last of these, and none
of them would have stopped the parser (`Found`); nothing so far but options, and marks at the end (`Clean`). Or `Doomed`: help was
asked for, or something is missing, so that the end will be an exit whatever follows, *and* the command line is wrong already. A step of
the first kind either goes on, or is the proof that the command line is not `Right`; the second kind is kept, and its steps need not be
followed, among them the arguments that `-hREST` puts back. At the end `OnTrack` says `Found` of the whole command line, and each callback
that passes (`Called`) turns one conjunct of `Right` into an assignment; `Told` carries the assignments through `main`. Which arguments are
values (`Taken`) is a recursive function; that it exists is proved from finite sets of positions that alternate as it does (`Alternates`),
one for each length. `RunnerAssumption` says that arguments are records of text, that a short option has a letter, that what
follows the letter of a flag is an argument again, and that no word is both true and false.

**One-line cache.** `LineInv` (`TestMemoryProofs`) compares the line, the memory behind it, and the model's memory. A burst
begins with the requested word and wraps: `Turn` counts the words in the order of the burst, and `Moved` says which have
gone by. What a fill has brought is memory's. A flush, which goes on behind the answer, leaves memory different from the
model in the words it has still to move and nowhere else.

**The bench's queue.** `BusInv`: the front of the queue is what is on the bus; a task that is awaited is alone; and *the
queue, run now from the state there is, leads to what the test expects*. An answer then only moves the front task across,
and a call adds one at the end. Both are facts about folds, for which the lists of their intermediate states stand in
(`RunOf`); two such lists are equal, because there is no least position at which they differ.

**Cells and lanes.** `CellInv`: cells that are bound do not overlap, and lie in the array or below what the factory has
handed out. A write to one then leaves the variables in the others alone. `LanesInv`: the word is, byte for byte, what was
stored, whichever of hardware and C++ stored it; what is proved is the round trip of shifts and masks at every width,
address and sign. The units that check alignment (`memory.sv`, `DBusPipeline`) make no other accesses; `DBus` and the elements
of an array of cells are not checked, and what is proved of them is that they reach the aligned block of their width that
holds the address (`Block`), in a load as in a store.

**Multiplier and divider.** `AluInv` (`AluProofs`): while a unit works, its one-hot count is a divisor of the number of
values `N`; the product register holds the multiplicand times the bits that have been shifted out, above the bits that
have not; the divider's holds remainder and quotient of the bits it has taken in. The count *is* a power of two, so that
a step is one halving and nothing is induced over the number of steps. All that is asked of the width is
`WidthAssumption`: every divisor of `N` but 1 is even. `AluRight` then says that the signed, unsigned and word operations give
the manual's results, with division by zero and overflow, whatever the last operation has left in a unit.

**Serial port.** `SerialInv` and `OutputInv` (`DeviceProofs`): what the thread has pushed is what was typed and not fetched
yet, behind the character that is fetched in this cycle; what the program has stored and is not out yet is in the two
contexts, which carry it from a cycle to the look at them.

**UART.** `UartInv`: `Started` counts the characters whose frames have begun, and the receiver's place in a frame is a function
of the transmitter's (`Line`). `Handshake` is what makes `wrote` right: the phases of the slow clock in which the
transmitter can be idle, or just have begun, while the store stays on the bus. It needs the core's clock to be slower
(`K > 1`) and nothing about how it compares with a character's time. What is on the line behind the program's characters is
the device's string and one character too many (`Greeting`, `Surplus`, section 6).

**Bridge.** `BridgeInv`: the channels that are out determine what the memory behind has of the transaction, in whatever order
it took address and data. `CBusDevice` is refined with the write that is under way done already as far as its data has
come: `Written`, a fold over those beats, which the next beat extends by one word (`WrittenOne`).

Assumptions (all are `ASSUME`s that TLC evaluates in the runs): `SizeAssumption` (sets divide words of a line),
`ResetAssumption` (a reset lasts longer than there are sets; the bench holds it for 100,000 cycles), `TicksAssumption` (at
least two cycles: in the first one a stalled D keeps the branch target that waits, `core.sv:135`), `SizesAssumption` (at
least one worker: `-j 0` is in section 6), `WidthAssumption`, `QuietMaster` for the cache's refinement only, and types of what
masters, tests and threads are and ask: `TagAssumption`, `ByteAssumption`, `WordAssumption`, `InitMemAssumption`,
`RequestAssumption`, `FetchAssumption`, `AccessesAssumption`, `ProgramAssumption`, `ResetPcAssumption`,
`DelayAssumption`, `FollowingAssumption`, `TestRunAssumption`, `StatusLineAssumption`, `TasksAssumption`,
`CellsAssumption`, `LanesAssumption`, `UartAssumption`, `ConfregAssumption`, `BridgeAssumption`, `SocAssumption`,
`RunnerAssumption`.

**Only model-checked:** liveness (`Answered` of two runs, `Progress`, `BenchEnds`, `CallsReturn`), which this prover does not
do.

## 6. Divergences between code and comment

Two have a run that fails, by design.

* `cache_fake_store`, property `NoRequestNoEffect`. `DCache.sv:222` writes a line that hits whenever the strobe is not zero,
  without looking at `dreq.valid`, which `include/common.sv:196` describes as "in request?". The bench has a test for this
  (`tests.inl`, "fake store"), but its stores go to lines that are not cached. The pipeline never drives a strobe without
  `valid` in the modelled instructions, so programs are not affected; `cache_one_set` checks the cache under that
  discipline.
* `memory_image`, property `FileKept`. `memory.cpp:102` clears the byte it is about to write with the mask `~(0xffu << shamt)`,
  computed in 32 bits and then widened for a word of 64: the upper half of the mask is zero, so that a file's second half word
  destroys the first. The model reads the shift by 32 and more, which C++ leaves undefined, as x86 does it.

Others were met while modelling and have no run of their own, because nothing in the repository says otherwise in as many words:

* `cell.h:115` reads through a `uint32_t`: a cell of eight bytes on the pipelined bus has the low half (`MemoryLanes` has cells
  of up to four there).
* `cell.h:277`: `allocate` hands out addresses one behind the other, unaligned, while `cell.h:171` asserts alignment. The
  model has the abort.
* `testbench.h:137`: a plugin switches its feature off when its test ends, also when the command line had switched it on; the tests that follow
  are without it (`on` in `TestRun`).
* `testbench.cpp:231`: a failed parallel run ends with exit status 0. With `-j 0` no test runs and all is well.
* The handler of `SIGINT` and `SIGABRT` prints, which takes the spin lock: if the signal comes while the main thread has it, the
  process hangs. The handler of `TestRun` is modelled without the lock.
* `DCache.sv:453`: the one-line cache flushes behind its answer, so the memory the bench compares at the end of a test
  (`cache_ref.cpp:112`) need not have the last store yet. `RefCache` has the comparisons made after every access
  (`check_internal`), not that one.
* `device.sv:126-148`: the board sends the last character of its string twice. The index is lowered in the cycle that takes a
  character and the shift register loaded again in the next, so that the round of `idx = 14` already sends `str[13]`; the round of
  `idx = 1` finds `idx = 0` and sends `str[1]` once more. The line then shows a line feed too many, where the simulation branch
  (`device.sv:206`) prints one. `str[0]`, the terminator, is never sent. `CharactersSent` promises each character once for the
  program's text only, and names the surplus.
* `common.h:260-264`: the message of a failed assertion is one line on the terminal and three calls of `notify`, each with the lock
  of its own. A status line between them covers the part that is out. It can happen in the last moments of a test bench with status
  lines only (`StatusApart` says so), and costs the beginning of the message on the terminal.
* `common.cpp:230`: a line of a UART longer than `LOG_MAX_BUFFER_SIZE` is flushed without its end, and the next status line would
  cover it. No program of the repository prints a UART's characters and runs status threads (`testbench.cpp:45` and `model.cpp:156`
  are in different ones), so that this is a property of the module and of no program. What is in the buffer at the end of the process is not printed.
* `bus.h:457-460` says of `DBus` that unaligned accesses can be issued "as long as your RTL memory system support this". They cannot: `LoadOp::parse`
  (`bus.h:69-98`) takes strobe, shift and mask from the aligned block, so that `storeh` to address 1 writes bytes 0 and 1, and `loadh`
  from there reads them, whatever the RTL does. `MemoryLanes` has these accesses as the code makes them.

## 7. What is not modelled

* **System instructions, traps and interrupts.** At this commit their wiring is unfinished: `core.sv` and
  `memory.sv` use fields and signals (`csr_ctrl`, `except`, `trint`, `read_addr_exc`, …) that no struct or port declares.
  `Pipeline` has the stalls and flushes of everything else.
* **Immediates, branch conditions, single-cycle ALU operations** but ADD: each is one expression, and `Isa` has one
  instruction for each group with the same control signals. Words in `Pipeline` are whole; the bytes are in `MemoryLanes`.
* **`SimpleArbiter`, bus converters, other RAM wrappers:** instantiated nowhere in this configuration, or renamings of fields.
* **FPGA system without delay, board tops:** combinational memory and pins. Timing inside a cycle, and crossings of clocks other
  than `Uart`'s, whose clocks are in phase.
* **Vendored code.** `CLI11.hpp` is modelled only as far as the repository's options take it; `nameof.hpp`, vendor macros,
  project files and images not at all. `difftest` is an empty submodule: the reference machine is `Sequential`.
* **Wiring beside the models.** The choice of an instruction out of the two of a 64-bit word (`DRESP_TO_IRESP`, `common.sv:230`): fetches in
  `VTop` and `SocTop` are of words. The RAM of `SocTop` ends with the line: a write past it would be dropped, and no burst of a cache
  gets there (`InLine`).
* **Signals inside signals.** A second `SIGINT` or an assertion in a deferred function, while the handler of the first one runs, is not
  in `TestRun`; nor is a signal in the middle of a print in `StatusLine`, which stops the process (section 6).
* **Test programs.** `tests.inl` is replaced by every sequence of requests. Text that is only formatted or logged is left out.

A device access in front of a multiplication is performed once for each cycle it is repeated (`stall.sv:59`);
`AnswerTaken` names the exception instead of hiding it.

## 8. Plan

Written so far, in this order: cache and its bench, its proofs; pipeline and its proofs; arbiter and both caches; units; the
other memories (`SocTop`, `CBusToAXI`, `RefCache`); the buses and cells of the tests; the program around them; the proofs
of `Testbench`, `TestRun` and `StatusLine`; the proofs of `VTop`; the proofs of `Alu`, `Confreg`, `Uart`, `CBusToAXI`,
`RefCache`, `DBusPipeline`, `Cells` and `MemoryLanes`; the proofs of `SocTop` and of `Runner`.

What is left:
1. `Csr`, when its wires exist: trap entry, `mret`, and the flushes of `core.sv` that go with them.
2. The bit patterns of `decode.sv`, `sign_ext.sv` and `branchadder.sv` as functions, against the manual.
