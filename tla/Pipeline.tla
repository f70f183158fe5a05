------------------------------ MODULE Pipeline ------------------------------
(***************************************************************************)
(* vsrc/pipeline, the five-stage pipeline, between an instruction bus and  *)
(* a data bus that answer after any number of cycles.  A Cycle is one      *)
(* clock edge of every register; everything else is a function of the      *)
(* registers and of the two answers, as in the combinational blocks.  The  *)
(* registers keep the names they have as outputs: dataF_nxt is IF/ID,      *)
(* dataD_nxt ID/EX, dataE_nxt EX/MEM and dataM_nxt MEM/WR.  The system     *)
(* instructions, misaligned addresses and interrupts are not in the model. *)
(***************************************************************************)
EXTENDS Isa

CONSTANTS
  Programs,    \* the contents of instruction memory
  ResetPc,     \* 80000000 in the code
  InitMem,     \* data memory at power-on
  ResetTicks,  \* cycles reset is held
  MultDelay    \* cycles in DOING (65 in mult.sv and divid.sv)

ASSUME ProgramAssumption == Programs \subseteq [Word -> Instr]
ASSUME ResetPcAssumption == ResetPc \in Word
ASSUME InitMemAssumption == InitMem \in [Word -> Word]
\* Under reset, branch_nxt is cleared when the stages behind it are empty.
ASSUME TicksAssumption == ResetTicks \in Nat /\ ResetTicks >= 2
ASSUME DelayAssumption == MultDelay \in Nat \ {0}

VARIABLES
  left,          \* input: cycles of reset still to come
  prog,          \* instruction memory
  iresp_ok,      \* input: iresp.data_ok
  mem,           \* data memory
  dresp_ok,      \* input: dresp.data_ok
  pc,
  branch_nxt, pcbranch_nxt,  \* a branch taken while a fetch was running
  dataF_nxt, dataD_nxt, dataE_nxt, dataM_nxt,
  mult,          \* the multiplier and the divider, one of which is used
  regs,
  ref            \* the reference machine of the difftest bench

pipeRegs == <<dataF_nxt, dataD_nxt, dataE_nxt, dataM_nxt>>
vars == <<left, prog, iresp_ok, mem, dresp_ok, pc, branch_nxt, pcbranch_nxt,
          pipeRegs, mult, regs, ref>>

FetchData   == [instr : Instr, pc : Word, valid : BOOLEAN]
DecodeData  == [instr : Instr, pc : Word, valid : BOOLEAN,
                srca : Word, srcb : Word]
ExecuteData == [instr : Instr, pc : Word, valid : BOOLEAN,
                aluout : Word, writedata : Word]
MemoryData  == [instr : Instr, pc : Word, valid : BOOLEAN,
                aluout : Word, readdata : Word]
MultState   == [doing : BOOLEAN, count : 0 .. MultDelay, a : Word, b : Word]

Fetch0   == [instr |-> Instr0, pc |-> 0, valid |-> FALSE]
Decode0  == [instr |-> Instr0, pc |-> 0, valid |-> FALSE, srca |-> 0, srcb |-> 0]
Execute0 == [instr |-> Instr0, pc |-> 0, valid |-> FALSE,
             aluout |-> 0, writedata |-> 0]
Memory0  == [instr |-> Instr0, pc |-> 0, valid |-> FALSE,
             aluout |-> 0, readdata |-> 0]
Mult0    == [doing |-> FALSE, count |-> 0, a |-> 0, b |-> 0]
Regs0    == [r \in Reg |-> 0]

reset == left > 0

instrD == dataF_nxt.instr
instrE == dataD_nxt.instr
instrM == dataE_nxt.instr
instrW == dataM_nxt.instr

rsD == {instrD.rs1, instrD.rs2}
rsE == {instrE.rs1, instrE.rs2}

-----------------------------------------------------------------------------
(* Write back                                                              *)

resultw == IF memtoreg(instrW) THEN dataM_nxt.readdata ELSE dataM_nxt.aluout

regs_nxt ==
  IF regwrite(instrW) /\ instrW.rd # 0
  THEN [regs EXCEPT ![instrW.rd] = resultw] ELSE regs

-----------------------------------------------------------------------------
(* forward.sv: register rs, read as old, for instruction i                 *)

\* Mutant: the older result is preferred.
ForwardOldest(i, rs, old, never) ==
  IF i.op \in never \/ rs = 0 THEN old
  ELSE IF regwrite(instrW) /\ rs = instrW.rd THEN resultw
  ELSE IF regwrite(instrM) /\ rs = instrM.rd THEN dataE_nxt.aluout
  ELSE old

Forward(i, rs, old, never) ==
  IF i.op \in never \/ rs = 0 THEN old
  ELSE IF regwrite(instrM) /\ rs = instrM.rd THEN dataE_nxt.aluout
  ELSE IF regwrite(instrW) /\ rs = instrW.rd THEN resultw
  ELSE old

ForwardA(i, old) == Forward(i, i.rs1, old, {"JAL", "AUIPC"})
ForwardB(i, old) == Forward(i, i.rs2, old, {"JAL", "AUIPC", "JALR"})

srca_hD == ForwardA(instrD, regs[instrD.rs1])
srcb_hD == ForwardB(instrD, regs[instrD.rs2])
srca_hE == ForwardA(instrE, dataD_nxt.srca)
srcb_hE == ForwardB(instrE, dataD_nxt.srcb)

-----------------------------------------------------------------------------
(* Execute, and the multi-cycle unit                                       *)

select_srcb == IF alusrc(instrE) THEN instrE.imm ELSE srcb_hE

multValid == instrE.op = "MUL" \/ (instrE.op = "DIV" /\ select_srcb # 0)
multDone  == mult.doing /\ mult.count = 1

stallE_mult == multValid /\ ~multDone

\* Before the unit is done, aluout is whatever its registers hold.
aluout ==
  CASE instrE.op \in {"ADDI", "ADD", "AUIPC", "LD", "SD"} ->
         Plus(srca_hE, select_srcb)
    [] instrE.op = "MUL" -> Times(mult.a, mult.b)
    [] instrE.op = "DIV" ->
         IF multValid THEN Quotient(mult.a, mult.b) ELSE WordSize - 1
    [] OTHER -> select_srcb

\* INIT takes the operands, DOING counts; without a request it is reset.
mult_nxt ==
  CASE ~multValid  -> Mult0
    [] multValid /\ ~mult.doing ->
         [doing |-> TRUE, count |-> MultDelay, a |-> srca_hE, b |-> select_srcb]
    [] multValid /\ mult.doing ->
         [mult EXCEPT !.doing = ~multDone, !.count = mult.count - 1]

-----------------------------------------------------------------------------
(* stall.sv and its use in core.sv                                         *)

dreq_valid == memtoreg(instrM) \/ memwrite(instrM)
iwait == ~iresp_ok
dwait == dreq_valid /\ ~dresp_ok

\* The M stage holds a load of a register of rs.
LoadsInto(rs) == memtoreg(instrM) /\ instrM.rd \in rs

\* Mutant: a branch waits for loads only.
ldstallLoadOnly == instrD.op \in {"BEQ", "JALR"} /\ LoadsInto(rsD)

\* A branch is decided in D and needs its operands there.
ldstall ==
  /\ instrD.op \in {"BEQ", "JALR"}
  /\ (regwrite(instrE) /\ instrE.rd \in rsD) \/ LoadsInto(rsD)

stallW == stallE_mult
\* Mutant: M does not wait for the data bus.
stallMNoWait == stallW

\* Mutant: the load E waits for waits too.
stallMForUse == dwait \/ stallW \/ LoadsInto(rsE)

stallM == dwait \/ stallW
stallE == LoadsInto(rsE) \/ stallM
stallD == ldstall \/ stallE \/ LoadsInto(rsD)
stallF == stallD \/ iwait

-----------------------------------------------------------------------------
(* Fetch and decode                                                        *)

branch ==
  \/ instrD.op \in {"JAL", "JALR"}
  \/ instrD.op = "BEQ" /\ srca_hD = srcb_hD

pcbranch ==
  CASE instrD.op \in {"JAL", "BEQ"} -> Plus(dataF_nxt.pc, instrD.imm)
    [] instrD.op = "JALR"           -> Plus(srca_hD, instrD.imm)
    [] OTHER                        -> 0

\* Bitwise or.
BitOr[x \in Nat, y \in Nat] ==
  IF x + y = 0 THEN 0
  ELSE 2 * BitOr[x \div 2, y \div 2] + (IF (x % 2) + (y % 2) > 0 THEN 1 ELSE 0)

Or(x, y) == IF x = 0 THEN y ELSE IF y = 0 THEN x ELSE BitOr[x, y]

pc_nxt ==
  IF branch \/ branch_nxt THEN Or(pcbranch, pcbranch_nxt) ELSE Plus(pc, 1)

dataF == [instr |-> IF iresp_ok THEN prog[pc] ELSE Instr0,
          pc |-> pc, valid |-> TRUE]

dataD ==
  [instr |-> instrD, pc |-> dataF_nxt.pc, valid |-> dataF_nxt.valid,
   srca |-> IF instrD.op = "AUIPC" THEN dataF_nxt.pc ELSE srca_hD,
   srcb |-> IF instrD.op \in {"JAL", "JALR"}
            THEN Plus(dataF_nxt.pc, 1) ELSE srcb_hD]

dataE ==
  [instr |-> instrE, pc |-> dataD_nxt.pc, valid |-> dataD_nxt.valid,
   aluout |-> aluout, writedata |-> srcb_hE]

dataM ==
  [instr |-> instrM, pc |-> dataE_nxt.pc, valid |-> dataE_nxt.valid,
   aluout |-> dataE_nxt.aluout,
   readdata |-> IF dresp_ok THEN mem[dataE_nxt.aluout] ELSE 0]

-----------------------------------------------------------------------------
(* The clock edge, register by register                                    *)

\* IDEX_reg.sv and EXMEM_reg.sv.
PipeReg(old, new, zero, en, clr) ==
  CASE reset                -> zero
    [] ~reset /\ ~en        -> old
    [] ~reset /\ en /\ clr  -> zero
    [] ~reset /\ en /\ ~clr -> new

\* Mutant: a branch redirects a running fetch.
FetchPcAtOnce ==
  pc' = IF reset THEN ResetPc ELSE IF stallD \/ (iwait /\ ~branch) THEN pc ELSE pc_nxt

FetchPc ==
  pc' = IF reset THEN ResetPc ELSE IF stallF THEN pc ELSE pc_nxt

\* Mutant: a branch taken while a fetch runs is forgotten.
PendingBranchNone == branch_nxt' = FALSE /\ pcbranch_nxt' = 0

\* Mutant: it is never forgotten.
PendingBranchKept ==
  \/ /\ ~stallD /\ (reset \/ (branch /\ iresp_ok))
     /\ branch_nxt' = FALSE /\ pcbranch_nxt' = 0
  \/ /\ ~stallD /\ ~reset /\ branch /\ ~iresp_ok
     /\ branch_nxt' = TRUE /\ pcbranch_nxt' = pcbranch
  \/ /\ stallD \/ (~reset /\ ~branch)
     /\ UNCHANGED <<branch_nxt, pcbranch_nxt>>

\* Not cleared by a reset while D is stalled.
PendingBranch ==
  \/ /\ ~stallD
     /\ reset \/ ((branch_nxt \/ branch) /\ iresp_ok)
     /\ branch_nxt' = FALSE /\ pcbranch_nxt' = 0
  \/ /\ ~stallD /\ ~reset /\ branch /\ ~iresp_ok
     /\ branch_nxt' = TRUE /\ pcbranch_nxt' = pcbranch
  \/ /\ stallD \/ (~reset /\ ~branch /\ ~(branch_nxt /\ iresp_ok))
     /\ UNCHANGED <<branch_nxt, pcbranch_nxt>>

IfId  == dataF_nxt' =
           PipeReg(dataF_nxt, dataF, Fetch0, ~stallD, branch_nxt \/ branch \/ iwait)
IdEx  == dataD_nxt' = PipeReg(dataD_nxt, dataD, Decode0, ~stallE, stallD)
ExMem == dataE_nxt' = PipeReg(dataE_nxt, dataE, Execute0, ~stallM, stallE)

\* Mutant: a stalled MEM/WR stays valid.
MemWrValid == dataM_nxt' = PipeReg(dataM_nxt, dataM, Memory0, ~stallW, dwait)

\* A stalled MEM/WR loses its valid bit: it is committed once.
MemWr == dataM_nxt' =
           PipeReg([dataM_nxt EXCEPT !.valid = FALSE], dataM, Memory0, ~stallW, dwait)

MultUnit == mult' = mult_nxt

RegFile == regs' = IF reset THEN Regs0 ELSE regs_nxt

\* The data bus performs a request in the cycle it answers.
DataBus ==
  mem' = IF dreq_valid /\ dresp_ok /\ memwrite(instrM)
         THEN [mem EXCEPT ![dataE_nxt.aluout] = dataE_nxt.writedata] ELSE mem

\* The commit of core.sv: the reference machine executes one instruction.
Difftest ==
  ref' = IF reset THEN [pc |-> ResetPc, regs |-> Regs0, mem |-> mem']
         ELSE IF dataM_nxt.valid THEN Execute(ref, prog[ref.pc])
         ELSE ref

\* The answers and the reset of the next cycle.  An answer nobody asked for
\* is not looked at.
Inputs ==
  /\ iresp_ok' \in BOOLEAN
  /\ dresp_ok' \in IF dreq_valid' THEN BOOLEAN ELSE {FALSE}
  /\ left' \in IF reset THEN {left - 1} ELSE {0, ResetTicks}
  /\ UNCHANGED prog

Init ==
  /\ left = ResetTicks
  /\ prog \in Programs
  /\ iresp_ok = FALSE /\ dresp_ok = FALSE
  /\ mem = InitMem
  /\ pc = 0
  /\ branch_nxt = FALSE /\ pcbranch_nxt = 0
  /\ dataF_nxt = Fetch0 /\ dataD_nxt = Decode0
  /\ dataE_nxt = Execute0 /\ dataM_nxt = Memory0
  /\ mult = Mult0
  /\ regs = Regs0
  /\ ref = [pc |-> ResetPc, regs |-> Regs0, mem |-> mem]

Cycle ==
  /\ FetchPc /\ PendingBranch
  /\ IfId /\ IdEx /\ ExMem /\ MemWr
  /\ MultUnit /\ RegFile /\ DataBus /\ Difftest
  /\ Inputs

Next == Cycle

Spec == Init /\ [][Next]_vars

\* What the caches promise besides: a request that is repeated after its
\* answer is answered again, the line being in the cache.
AnswersKept ==
  /\ iresp_ok /\ pc' = pc => iresp_ok'
  /\ dresp_ok /\ dataE_nxt' = dataE_nxt => dresp_ok'

LiveNext == Cycle /\ (reset \/ reset' \/ AnswersKept)

\* A cycle that does not start a reset.
Running == LiveNext /\ (reset \/ ~reset')

\* The clock runs, and the buses answer.  Nothing makes a reset happen.
Fairness ==
  /\ WF_vars(Running /\ iresp_ok')
  /\ WF_vars(Running /\ (dreq_valid' => dresp_ok'))

LiveSpec == Init /\ [][LiveNext]_vars /\ Fairness

-----------------------------------------------------------------------------
(* Properties                                                              *)

\* Every register, memory and input keeps its type.
TypeOK ==
  /\ left \in 0 .. ResetTicks
  /\ prog \in Programs
  /\ iresp_ok \in BOOLEAN /\ dresp_ok \in BOOLEAN
  /\ mem \in [Word -> Word]
  /\ pc \in Word
  /\ branch_nxt \in BOOLEAN /\ pcbranch_nxt \in Word
  /\ dataF_nxt \in FetchData /\ dataD_nxt \in DecodeData
  /\ dataE_nxt \in ExecuteData /\ dataM_nxt \in MemoryData
  /\ mult \in MultState
  /\ regs \in [Reg -> Word]
  /\ ref \in Machine

\* The reference machine once it has executed what W commits in this cycle.
refW == IF dataM_nxt.valid THEN Execute(ref, prog[ref.pc]) ELSE ref

\* The address of the next instruction to be committed: that of the oldest
\* one in flight, else where the fetch goes on.
oldestPc ==
  IF dataM_nxt.valid THEN dataM_nxt.pc
  ELSE IF dataE_nxt.valid THEN dataE_nxt.pc
  ELSE IF dataD_nxt.valid THEN dataD_nxt.pc
  ELSE IF dataF_nxt.valid THEN dataF_nxt.pc
  ELSE IF branch_nxt THEN pcbranch_nxt
  ELSE pc

\* No instruction is lost, fetched twice or fetched from the wrong path,
\* whatever the stalls and bubbles between the stages (core.sv:79-85,133-148).
NothingLost == ~reset => oldestPc = ref.pc

\* What difftest compares at a commit is what the reference machine executes
\* (core.sv:217-230).
CommitAgrees ==
  ~reset /\ dataM_nxt.valid => instrW = prog[ref.pc] /\ dataM_nxt.pc = ref.pc

\* The registers difftest compares are the reference machine's: every operand
\* was forwarded or waited for (forward.sv:43-90, stall.sv:46-59).
RegistersAgree == ~reset => regs_nxt = refW.regs

\* Data memory is the reference machine's, but for the store M is at: no
\* store of a wrong path is performed, none is lost (memory.sv:27-40).
MemoryAgrees ==
  ~reset =>
    \/ mem = refW.mem
    \/ /\ dataE_nxt.valid /\ memwrite(instrM)
       /\ mem = Execute(refW, prog[refW.pc]).mem

\* What the program can see of the pipeline in any cycle, registers and data
\* memory, is what the reference machine has.
StateAgrees == RegistersAgree /\ MemoryAgrees

\* The target pc.sv gets, the or of two addresses, is one of the two
\* (core.sv:116-117).
OneTarget == ~(branch /\ branch_nxt) /\ (branch_nxt => pcbranch = 0)

\* The fetch stays on the program's path: the next instruction is in the
\* pipeline or still to be fetched, with a branch kept while a fetch runs,
\* and no two branches are taken together (core.sv:116-150).
PathRight == TypeOK /\ NothingLost /\ OneTarget

\* Only an instruction of the program's path asks anything of the data bus,
\* and with the address and the word the reference machine has for it: no
\* device sees an access of a wrong path or with an old operand
\* (memory.sv:27-40, EXMEM_reg.sv).
RequestsAgree ==
  ~reset /\ dreq_valid =>
    /\ dataE_nxt.valid /\ instrM = prog[refW.pc]
    /\ dataE_nxt.aluout = Plus(refW.regs[instrM.rs1], instrM.imm)
    /\ memwrite(instrM) => dataE_nxt.writedata = refW.regs[instrM.rs2]

\* What the caches assume of their masters: a request that is not answered
\* is made again, unchanged, whatever branch, stall or bubble there is
\* (common.sv:167; core.sv:82,133-148, stall.sv:58).
RequestsHeld ==
  [][~reset /\ ~reset' =>
       /\ iwait => pc' = pc
       /\ dwait => dataE_nxt' = dataE_nxt]_vars

\* The answer to a data request is taken in the cycle it comes, so that the
\* access is made once.  The exception is a multiplication or division in E,
\* which keeps the request up, and the bus performs it again (stall.sv:58-59).
AnswerTaken ==
  [][~reset /\ ~reset' /\ dreq_valid /\ dresp_ok =>
       IF stallE_mult THEN dataE_nxt' = dataE_nxt
       ELSE dataM_nxt' = dataM /\ dataE_nxt' \in {dataE, Execute0}]_vars

\* The pipeline implements the sequential machine, each step at a commit
\* (core.sv against the reference model of difftest).
archMachine ==
  IF reset THEN [pc |-> ResetPc, regs |-> Regs0, mem |-> ref.mem]
  ELSE [pc |-> oldestPc, regs |-> regs, mem |-> ref.mem]

Sequential == INSTANCE Sequential WITH machine <- archMachine
ImplementsSequential == Sequential!MachineSpec

\* The pipeline always commits another instruction, unless it is reset.
Progress == []<>(dataM_nxt.valid \/ reset)
=============================================================================
