--------------------------- MODULE PipelineProofs ---------------------------
(***************************************************************************)
(* Theorems about Pipeline, for every program, every number of registers   *)
(* and words, and every latency of the buses: the pipeline executes the    *)
(* program as the sequential machine does.                                 *)
(***************************************************************************)
EXTENDS PipelineInv, TLAPS

-----------------------------------------------------------------------------
(* Types                                                                   *)

LEMMA PlusType ==
  ASSUME NEW x \in Word, NEW y \in Nat
  PROVE  Plus(x, y) \in Word
  BY WordAssumption DEF Plus, Word

LEMMA TimesType ==
  ASSUME NEW x \in Word, NEW y \in Word
  PROVE  Times(x, y) \in Word
<1>1. x * y \in Int
  BY DEF Word
<1> QED BY <1>1, WordAssumption DEF Times, Word

\* A quotient is not above the dividend.
LEMMA QuotientType ==
  ASSUME NEW x \in Word, NEW y \in Word
  PROVE  Quotient(x, y) \in Word
<1>1. CASE y = 0
  BY <1>1, WordAssumption DEF Quotient, Word
<1>2. CASE y # 0
  <2>1. x \div y \in 0 .. x
    BY <1>2, WordAssumption DEF Word
  <2> QED BY <1>2, <2>1, WordAssumption DEF Quotient, Word
<1> QED BY <1>1, <1>2

\* The cleared registers have their types.
LEMMA ZeroTypes ==
  /\ 0 \in Word /\ 0 \in Reg
  /\ Instr0 \in Instr
  /\ Fetch0 \in FetchData /\ Decode0 \in DecodeData
  /\ Execute0 \in ExecuteData /\ Memory0 \in MemoryData
  /\ Mult0 \in MultState
  /\ Regs0 \in [Reg -> Word]
<1>1. 0 \in Word /\ 0 \in Reg
  BY WordAssumption, RegAssumption DEF Word, Reg
<1>2. Instr0 \in Instr
  BY <1>1 DEF Instr0, Instr, Op
<1>3. Mult0 \in MultState
  BY <1>1, DelayAssumption DEF Mult0, MultState
<1> QED
  BY <1>1, <1>2, <1>3
     DEF Fetch0, Decode0, Execute0, Memory0, FetchData, DecodeData,
         ExecuteData, MemoryData, Regs0

\* The reference machine keeps its types.
LEMMA ExecuteType ==
  ASSUME NEW s \in Machine, NEW i \in Instr
  PROVE  /\ Result(s, i) \in Word
         /\ NextPc(s, i) \in Word
         /\ Execute(s, i) \in Machine
<1>1. /\ s.pc \in Word /\ s.regs \in [Reg -> Word] /\ s.mem \in [Word -> Word]
      /\ i.imm \in Word /\ i.rd \in Reg /\ i.rs1 \in Reg /\ i.rs2 \in Reg
  BY DEF Machine, Instr
<1>2. s.regs[i.rs1] \in Word /\ s.regs[i.rs2] \in Word
  BY <1>1
<1>3. /\ Plus(s.regs[i.rs1], i.imm) \in Word
      /\ Plus(s.regs[i.rs1], s.regs[i.rs2]) \in Word
      /\ Plus(s.pc, i.imm) \in Word /\ Plus(s.pc, 1) \in Word
      /\ Times(s.regs[i.rs1], s.regs[i.rs2]) \in Word
      /\ Quotient(s.regs[i.rs1], s.regs[i.rs2]) \in Word
  <2>1. Word \subseteq Nat
    BY DEF Word
  <2> QED BY <1>1, <1>2, <2>1, PlusType, TimesType, QuotientType
<1>4. Result(s, i) \in Word
  BY <1>1, <1>2, <1>3, ZeroTypes DEF Result
<1>5. NextPc(s, i) \in Word
  BY <1>1, <1>2, <1>3 DEF NextPc
<1>6. Execute(s, i) \in Machine
  BY <1>1, <1>2, <1>3, <1>4, <1>5 DEF Execute, Machine
<1> QED BY <1>4, <1>5, <1>6

LEMMA AfterType ==
  ASSUME NEW s \in Machine, NEW v \in BOOLEAN, prog \in Programs
  PROVE  After(s, v) \in Machine
<1>1. prog[s.pc] \in Instr
  BY ProgramAssumption DEF Machine
<1> QED BY <1>1, ExecuteType DEF After

LEMMA RefTypes ==
  ASSUME TypeOK
  PROVE  /\ ref \in Machine /\ refW \in Machine /\ refM \in Machine
         /\ refE \in Machine /\ refD \in Machine
<1>1. /\ dataM_nxt.valid \in BOOLEAN /\ dataE_nxt.valid \in BOOLEAN
      /\ dataD_nxt.valid \in BOOLEAN /\ dataF_nxt.valid \in BOOLEAN
  BY DEF TypeOK, FetchData, DecodeData, ExecuteData, MemoryData
<1>2. refW = After(ref, dataM_nxt.valid)
  BY DEF refW, After
<1>3. ref \in Machine /\ refW \in Machine
  BY <1>1, <1>2, AfterType DEF TypeOK
<1>4. refM \in Machine
  BY <1>1, <1>3, AfterType DEF TypeOK, refM
<1>5. refE \in Machine
  BY <1>1, <1>4, AfterType DEF TypeOK, refE
<1> QED BY <1>1, <1>3, <1>4, <1>5, AfterType DEF TypeOK, refD

\* The instructions in the stages.
LEMMA StageTypes ==
  ASSUME TypeOK
  PROVE  /\ instrD \in Instr /\ instrE \in Instr
         /\ instrM \in Instr /\ instrW \in Instr
         /\ instrD.rs1 \in Reg /\ instrD.rs2 \in Reg /\ instrD.imm \in Word
         /\ instrE.rs1 \in Reg /\ instrE.rs2 \in Reg /\ instrE.imm \in Word
         /\ instrM.rd \in Reg /\ instrW.rd \in Reg
         /\ dataF_nxt.pc \in Word /\ dataD_nxt.pc \in Word
         /\ dataE_nxt.pc \in Word /\ dataM_nxt.pc \in Word
         /\ dataD_nxt.srca \in Word /\ dataD_nxt.srcb \in Word
         /\ dataE_nxt.aluout \in Word /\ dataE_nxt.writedata \in Word
         /\ dataM_nxt.aluout \in Word /\ dataM_nxt.readdata \in Word
         /\ dataF_nxt.valid \in BOOLEAN /\ dataD_nxt.valid \in BOOLEAN
         /\ dataE_nxt.valid \in BOOLEAN /\ dataM_nxt.valid \in BOOLEAN
  BY DEF TypeOK, FetchData, DecodeData, ExecuteData, MemoryData, Instr,
         instrD, instrE, instrM, instrW

LEMMA ForwardType ==
  ASSUME TypeOK, NEW i, NEW rs, NEW old \in Word, NEW never
  PROVE  resultw \in Word /\ Forward(i, rs, old, never) \in Word
<1>1. resultw \in Word
  BY StageTypes DEF resultw
<1> QED BY <1>1, StageTypes DEF Forward

LEMMA WireTypes ==
  ASSUME TypeOK
  PROVE  /\ regs_nxt \in [Reg -> Word]
         /\ srca_hD \in Word /\ srcb_hD \in Word
         /\ srca_hE \in Word /\ srcb_hE \in Word /\ select_srcb \in Word
         /\ aluout \in Word /\ pcbranch \in Word
         /\ dataF \in FetchData /\ dataD \in DecodeData
         /\ dataE \in ExecuteData /\ dataM \in MemoryData
<1> USE StageTypes
<1>1. Word \subseteq Nat /\ 1 \in Nat
  BY DEF Word
<1>2. regs[instrD.rs1] \in Word /\ regs[instrD.rs2] \in Word
  BY DEF TypeOK
<1>3. regs_nxt \in [Reg -> Word]
  <2>1. resultw \in Word
    BY ZeroTypes, ForwardType
  <2> QED BY <2>1 DEF regs_nxt, TypeOK
<1>4. srca_hD \in Word /\ srcb_hD \in Word
  BY <1>2, ForwardType DEF srca_hD, srcb_hD, ForwardA, ForwardB
<1>5. srca_hE \in Word /\ srcb_hE \in Word
  BY ForwardType DEF srca_hE, srcb_hE, ForwardA, ForwardB
<1>6. select_srcb \in Word
  BY <1>5 DEF select_srcb
<1>7. aluout \in Word
  <2>1. mult.a \in Word /\ mult.b \in Word
    BY DEF TypeOK, MultState
  <2>2. /\ Plus(srca_hE, select_srcb) \in Word
        /\ Times(mult.a, mult.b) \in Word
        /\ Quotient(mult.a, mult.b) \in Word
    BY <1>1, <1>5, <1>6, <2>1, PlusType, TimesType, QuotientType
  <2>3. WordSize - 1 \in Word
    BY WordAssumption DEF Word
  <2> QED BY <1>6, <2>2, <2>3 DEF aluout
<1>8. pcbranch \in Word
  <2>1. Plus(dataF_nxt.pc, instrD.imm) \in Word /\ Plus(srca_hD, instrD.imm) \in Word
    BY <1>1, <1>4, PlusType
  <2> QED BY <2>1, ZeroTypes DEF pcbranch
<1>9. dataF \in FetchData
  BY ZeroTypes, ProgramAssumption DEF dataF, FetchData, TypeOK
<1>10. dataD \in DecodeData
  <2>1. Plus(dataF_nxt.pc, 1) \in Word
    BY <1>1, PlusType
  <2> QED BY <1>4, <2>1 DEF dataD, DecodeData
<1>11. dataE \in ExecuteData
  BY <1>5, <1>7 DEF dataE, ExecuteData
<1>12. dataM \in MemoryData
  BY ZeroTypes DEF dataM, MemoryData, TypeOK
<1> QED BY <1>3, <1>4, <1>5, <1>6, <1>7, <1>8, <1>9, <1>10, <1>11, <1>12

\* The target of a fetch is one of the two when a pending branch has left a
\* bubble behind.
LEMMA TargetIsOne ==
  ASSUME TypeOK, PendingClean
  PROVE  /\ branch_nxt => ~branch /\ pcbranch = 0
         /\ Or(pcbranch, pcbranch_nxt) =
              IF branch_nxt THEN pcbranch_nxt ELSE pcbranch
<1>1. branch_nxt => ~branch /\ pcbranch = 0
  <2> SUFFICES ASSUME branch_nxt PROVE ~branch /\ pcbranch = 0
    OBVIOUS
  <2>1. instrD.op = "UNKNOWN"
    BY DEF PendingClean, instrD, Fetch0, Instr0
  <2> QED BY <2>1 DEF branch, pcbranch
<1> QED BY <1>1 DEF PendingClean, Or

LEMMA MultTypes ==
  ASSUME TypeOK, CountInv, MultUnit
  PROVE  mult' \in MultState /\ CountInv'
<1>1. CASE ~multValid
  <2>1. mult' = Mult0
    BY <1>1 DEF MultUnit, mult_nxt
  <2> QED BY <2>1, ZeroTypes DEF Mult0, CountInv
<1>2. CASE multValid /\ ~mult.doing
  <2>1. mult' = [doing |-> TRUE, count |-> MultDelay,
                 a |-> srca_hE, b |-> select_srcb]
    BY <1>2 DEF MultUnit, mult_nxt
  <2> QED BY <2>1, WireTypes, DelayAssumption DEF MultState, CountInv
<1>3. CASE multValid /\ mult.doing
  <2>1. mult' = [mult EXCEPT !.doing = ~multDone, !.count = mult.count - 1]
    BY <1>3 DEF MultUnit, mult_nxt
  <2>2. mult \in MultState /\ mult.count \in 0 .. MultDelay /\ mult.count # 0
    BY <1>3 DEF TypeOK, MultState, CountInv
  <2>3. mult.count - 1 \in 0 .. MultDelay
    BY <2>2, DelayAssumption
  <2>4. /\ mult' \in MultState /\ mult'.doing = ~multDone
        /\ mult'.count = mult.count - 1
    <3>1. (~multDone) \in BOOLEAN
      OBVIOUS
    <3> QED BY <2>1, <2>2, <2>3, <3>1 DEF MultState
  <2>5. mult'.doing => mult'.count # 0
    <3>1. CASE mult.count = 1
      BY <1>3, <2>4, <3>1 DEF multDone
    <3>2. CASE mult.count # 1
      BY <2>2, <2>4, <3>2
    <3> QED BY <3>1, <3>2
  <2> QED BY <2>4, <2>5 DEF CountInv
<1> QED BY <1>1, <1>2, <1>3

LEMMA TypeStep ==
  ASSUME TypeOK, CountInv, PendingClean, Cycle
  PROVE  TypeOK' /\ CountInv'
<1>1. left' \in 0 .. ResetTicks /\ prog' \in Programs
  <2>1. ResetTicks \in 0 .. ResetTicks /\ 0 \in 0 .. ResetTicks
    BY TicksAssumption
  <2>2. reset => left - 1 \in 0 .. ResetTicks
    BY TicksAssumption DEF TypeOK, reset
  <2>3. left' \in (IF reset THEN {left - 1} ELSE {0, ResetTicks}) /\ prog' = prog
    BY DEF Cycle, Inputs
  <2> QED BY <2>1, <2>2, <2>3 DEF TypeOK
<1>2. iresp_ok' \in BOOLEAN /\ dresp_ok' \in BOOLEAN
  BY DEF Cycle, Inputs
<1>3. mem' \in [Word -> Word]
  BY StageTypes DEF Cycle, DataBus, TypeOK
<1>4. pc' \in Word
  <2>1. Plus(pc, 1) \in Word
    <3>1. 1 \in Nat /\ pc \in Word
      BY DEF TypeOK
    <3> QED BY <3>1, PlusType
  <2>2. ~reset => pc_nxt \in Word
    BY <2>1, TargetIsOne, WireTypes DEF pc_nxt, TypeOK
  <2> QED BY <2>2, ResetPcAssumption DEF Cycle, FetchPc, TypeOK
<1>5. branch_nxt' \in BOOLEAN /\ pcbranch_nxt' \in Word
  BY WireTypes, ZeroTypes DEF Cycle, PendingBranch, TypeOK
<1>6. /\ dataF_nxt' \in FetchData /\ dataD_nxt' \in DecodeData
      /\ dataE_nxt' \in ExecuteData
  BY WireTypes, ZeroTypes DEF Cycle, IfId, IdEx, ExMem, PipeReg, TypeOK
<1>7. dataM_nxt' \in MemoryData
  <2>1. [dataM_nxt EXCEPT !.valid = FALSE] \in MemoryData
    BY DEF TypeOK, MemoryData
  <2> QED BY <2>1, WireTypes, ZeroTypes DEF Cycle, MemWr, PipeReg
<1>8. mult' \in MultState /\ CountInv'
  BY MultTypes DEF Cycle
<1>9. regs' \in [Reg -> Word]
  BY WireTypes, ZeroTypes DEF Cycle, RegFile
<1>10. ref' \in Machine
  <2>1. ref' = IF reset THEN [pc |-> ResetPc, regs |-> Regs0, mem |-> mem']
               ELSE refW
    BY DEF Cycle, Difftest, refW
  <2> QED BY <2>1, <1>3, RefTypes, ResetPcAssumption, ZeroTypes DEF Machine
<1> QED
  BY <1>1, <1>2, <1>3, <1>4, <1>5, <1>6, <1>7, <1>8, <1>9, <1>10 DEF TypeOK

-----------------------------------------------------------------------------
(* What the stages hold, in terms of the reference machine                 *)

\* A register after one instruction.
LEMMA AfterReg ==
  ASSUME NEW s \in Machine, NEW v \in BOOLEAN, NEW r \in Reg, prog \in Programs,
         NEW i \in Instr, v => i = prog[s.pc], ~v => ~regwrite(i)
  PROVE  After(s, v).regs[r] =
           IF Writes(i, r) /\ r # 0 THEN Result(s, i) ELSE s.regs[r]
<1>1. CASE ~v
  BY <1>1 DEF After, Writes
<1>2. CASE v
  <2>1. After(s, v).regs = IF regwrite(i) /\ i.rd # 0
                           THEN [s.regs EXCEPT ![i.rd] = Result(s, i)] ELSE s.regs
    BY <1>2 DEF After, Execute
  <2>2. s.regs \in [Reg -> Word] /\ i.rd \in Reg
    BY DEF Machine, Instr
  <2> QED BY <2>1, <2>2 DEF Writes
<1> QED BY <1>1, <1>2

\* A bubble writes no register, asks nothing of memory, decides no branch.
LEMMA BubbleIsInert ==
  ASSUME TypeOK, Bubbles
  PROVE  /\ ~dataF_nxt.valid => instrD = Instr0
         /\ ~dataD_nxt.valid => instrE = Instr0
         /\ ~dataE_nxt.valid => instrM = Instr0 /\ ~dreq_valid
         /\ ~regwrite(Instr0) /\ ~memwrite(Instr0) /\ ~memtoreg(Instr0)
<1>1. ~regwrite(Instr0) /\ ~memwrite(Instr0) /\ ~memtoreg(Instr0)
  BY DEF regwrite, memwrite, memtoreg, Instr0
<1>2. ~dataF_nxt.valid => instrD = Instr0
  BY DEF Bubbles, instrD, Fetch0
<1>3. ~dataD_nxt.valid => instrE = Instr0
  BY DEF Bubbles, instrE, Decode0
<1>4. ~dataE_nxt.valid => instrM = Instr0
  BY DEF Bubbles, instrM, Execute0
<1> QED BY <1>1, <1>2, <1>3, <1>4 DEF dreq_valid

\* The register file with W's result.
LEMMA WriteBackRight ==
  ASSUME TypeOK, InOrder, RegsInv
  PROVE  regs_nxt = refW.regs
<1>1. CASE dataM_nxt.valid
  <2>1. refW = Execute(ref, instrW)
    BY <1>1 DEF refW, InOrder
  <2>2. regwrite(instrW) => resultw = Result(ref, instrW)
    BY <1>1 DEF RegsInv
  <2> QED BY <2>1, <2>2 DEF Execute, regs_nxt, RegsInv
<1>2. CASE ~dataM_nxt.valid
  <2>1. refW = ref
    BY <1>2 DEF refW
  <2>2. ASSUME regwrite(instrW), instrW.rd # 0
        PROVE  [regs EXCEPT ![instrW.rd] = resultw] = regs
    <3>1. regs[instrW.rd] = resultw
      BY <1>2, <2>2 DEF RegsInv
    <3> QED BY <3>1 DEF TypeOK
  <2> QED BY <2>1, <2>2 DEF regs_nxt, RegsInv
<1> QED BY <1>1, <1>2

\* Behind W, a register W writes holds its result; the others are unchanged.
LEMMA RefWReg ==
  ASSUME TypeOK, InOrder, RegsInv, NEW r \in Reg
  PROVE  /\ refW.regs[0] = 0
         /\ Writes(instrW, r) /\ r # 0 => refW.regs[r] = resultw
         /\ ~Writes(instrW, r) => refW.regs[r] = regs[r]
<1>1. regs_nxt = refW.regs
  BY WriteBackRight
<1>2. regs \in [Reg -> Word] /\ 0 \in Reg /\ regs[0] = 0
  BY ZeroTypes DEF TypeOK, RegsInv
<1> QED BY <1>1, <1>2 DEF regs_nxt, Writes

\* Behind M, likewise.
LEMMA RefMReg ==
  ASSUME TypeOK, Bubbles, InOrder, RegsInv, NEW r \in Reg
  PROVE  refM.regs[r] = IF Writes(instrM, r) /\ r # 0
                        THEN Result(refW, instrM) ELSE refW.regs[r]
<1>1. /\ dataE_nxt.valid => instrM = prog[refW.pc]
      /\ ~dataE_nxt.valid => ~regwrite(instrM)
  BY BubbleIsInert DEF InOrder
<1> QED BY <1>1, AfterReg, RefTypes, StageTypes DEF refM, TypeOK

\* Behind E, a register E does not write is as it is behind M.
LEMMA RefEReg ==
  ASSUME TypeOK, Bubbles, InOrder, NEW r \in Reg, ~Writes(instrE, r)
  PROVE  refE.regs[r] = refM.regs[r]
<1>1. /\ dataD_nxt.valid => instrE = prog[refM.pc]
      /\ ~dataD_nxt.valid => ~regwrite(instrE)
  BY BubbleIsInert DEF InOrder
<1> QED BY <1>1, AfterReg, RefTypes, StageTypes DEF refE, TypeOK

\* Forwarding finds the value a register has behind M, if M does not hold a
\* load of it.
LEMMA ForwardRight ==
  ASSUME TypeOK, Bubbles, InOrder, RegsInv, MemoryStage,
         NEW i, NEW rs \in Reg, NEW old, NEW never, i.op \notin never,
         rs = 0 => old = 0,
         ~Writes(instrM, rs) /\ ~Writes(instrW, rs) => old = refW.regs[rs],
         ~LoadsInto({rs})
  PROVE  Forward(i, rs, old, never) = refM.regs[rs]
<1>1. /\ refW.regs[0] = 0
      /\ Writes(instrW, rs) /\ rs # 0 => refW.regs[rs] = resultw
  BY RefWReg
<1>2. refM.regs[rs] = IF Writes(instrM, rs) /\ rs # 0
                      THEN Result(refW, instrM) ELSE refW.regs[rs]
  BY RefMReg
<1>3. CASE rs = 0
  BY <1>1, <1>2, <1>3 DEF Forward
<1>4. CASE rs # 0 /\ Writes(instrM, rs)
  <2>1. regwrite(instrM) /\ instrM.rd = rs /\ ~memtoreg(instrM)
    BY <1>4 DEF Writes, LoadsInto
  <2>2. dataE_nxt.valid
    BY <2>1, BubbleIsInert, StageTypes
  <2>3. dataE_nxt.aluout = Result(refW, instrM)
    BY <2>1, <2>2 DEF MemoryStage
  <2> QED BY <1>2, <1>4, <2>1, <2>3 DEF Forward
<1>5. CASE rs # 0 /\ ~Writes(instrM, rs) /\ Writes(instrW, rs)
  BY <1>1, <1>2, <1>5 DEF Forward, Writes
<1>6. CASE rs # 0 /\ ~Writes(instrM, rs) /\ ~Writes(instrW, rs)
  BY <1>2, <1>6 DEF Forward, Writes
<1> QED BY <1>3, <1>4, <1>5, <1>6

\* The stages that stall make those behind them stall.
LEMMA StallChain ==
  (stallW => stallM) /\ (stallM => stallE) /\ (stallE => stallD)
  BY DEF stallM, stallE, stallD

\* D reads the registers as they are behind M, unless it waits for a load.
LEMMA OperandsD ==
  ASSUME TypeOK, Bubbles, InOrder, RegsInv, MemoryStage, ~stallD
  PROVE  /\ instrD.op \notin {"JAL", "AUIPC"} =>
              srca_hD = refM.regs[instrD.rs1]
         /\ instrD.op \notin {"JAL", "AUIPC", "JALR"} =>
              srcb_hD = refM.regs[instrD.rs2]
         /\ regs[0] = 0
<1>1. ~LoadsInto({instrD.rs1}) /\ ~LoadsInto({instrD.rs2})
  BY DEF stallD, LoadsInto, rsD
<1>2. regs[0] = 0
  BY DEF RegsInv
<1>3. ASSUME NEW rs \in {instrD.rs1, instrD.rs2}
      PROVE  /\ rs = 0 => regs[rs] = 0
             /\ ~Writes(instrW, rs) => regs[rs] = refW.regs[rs]
  BY <1>2, RefWReg, StageTypes
<1>4. instrD.op \notin {"JAL", "AUIPC"} => srca_hD = refM.regs[instrD.rs1]
  BY <1>1, <1>3, ForwardRight, StageTypes DEF srca_hD, ForwardA
<1>5. instrD.op \notin {"JAL", "AUIPC", "JALR"} => srcb_hD = refM.regs[instrD.rs2]
  BY <1>1, <1>3, ForwardRight, StageTypes DEF srcb_hD, ForwardB
<1> QED BY <1>2, <1>4, <1>5

\* So does E.
LEMMA OperandsE ==
  ASSUME TypeOK, Bubbles, InOrder, RegsInv, MemoryStage, ExecuteStage,
         dataD_nxt.valid, ~LoadsInto(rsE)
  PROVE  /\ instrE.op \notin {"JAL", "AUIPC"} =>
              srca_hE = refM.regs[instrE.rs1]
         /\ instrE.op \notin {"JAL", "AUIPC", "JALR"} =>
              srcb_hE = refM.regs[instrE.rs2]
<1>1. ~LoadsInto({instrE.rs1}) /\ ~LoadsInto({instrE.rs2})
  BY DEF LoadsInto, rsE
<1>2. instrE.op \notin {"JAL", "AUIPC"} => srca_hE = refM.regs[instrE.rs1]
  <2> SUFFICES ASSUME instrE.op \notin {"JAL", "AUIPC"}
               PROVE  srca_hE = refM.regs[instrE.rs1]
    OBVIOUS
  <2>1. Read(instrE.rs1, dataD_nxt.srca)
    BY DEF ExecuteStage
  <2> QED BY <1>1, <2>1, ForwardRight, StageTypes DEF srca_hE, ForwardA, Read
<1>3. instrE.op \notin {"JAL", "AUIPC", "JALR"} => srcb_hE = refM.regs[instrE.rs2]
  <2> SUFFICES ASSUME instrE.op \notin {"JAL", "AUIPC", "JALR"}
               PROVE  srcb_hE = refM.regs[instrE.rs2]
    OBVIOUS
  <2>1. Read(instrE.rs2, dataD_nxt.srcb)
    BY DEF ExecuteStage
  <2> QED BY <1>1, <2>1, ForwardRight, StageTypes DEF srcb_hE, ForwardB, Read
<1> QED BY <1>2, <1>3

\* A branch is decided as the reference machine decides it.
LEMMA BranchRight ==
  ASSUME TypeOK, Bubbles, InOrder, RegsInv, MemoryStage, ~stallD,
         dataF_nxt.valid
  PROVE  refD.pc = IF branch THEN pcbranch ELSE Plus(dataF_nxt.pc, 1)
<1>1. instrD = prog[refE.pc] /\ dataF_nxt.pc = refE.pc
  BY DEF InOrder
<1>2. refD.pc = NextPc(refE, instrD)
  BY <1>1 DEF refD, After, Execute
<1>3. CASE instrD.op \in {"BEQ", "JALR"}
  <2>1. ~Writes(instrE, instrD.rs1) /\ ~Writes(instrE, instrD.rs2)
    BY <1>3 DEF stallD, ldstall, rsD, Writes
  <2>2. /\ refE.regs[instrD.rs1] = refM.regs[instrD.rs1]
        /\ refE.regs[instrD.rs2] = refM.regs[instrD.rs2]
    BY <2>1, RefEReg, StageTypes
  <2>3. CASE instrD.op = "BEQ"
    BY <1>1, <1>2, <2>2, <2>3, OperandsD DEF branch, pcbranch, NextPc
  <2>4. CASE instrD.op = "JALR"
    BY <1>1, <1>2, <2>2, <2>4, OperandsD DEF branch, pcbranch, NextPc
  <2> QED BY <1>3, <2>3, <2>4
<1>4. CASE instrD.op = "JAL"
  BY <1>1, <1>2, <1>4 DEF branch, pcbranch, NextPc
<1>5. CASE instrD.op \notin {"BEQ", "JALR", "JAL"}
  BY <1>1, <1>2, <1>5 DEF branch, NextPc
<1> QED BY <1>3, <1>4, <1>5

\* What E hands on is what the reference machine computes.
LEMMA ExecuteRight ==
  ASSUME TypeOK, Bubbles, InOrder, RegsInv, MemoryStage, ExecuteStage, MultInv,
         dataD_nxt.valid, ~stallE
  PROVE  /\ instrE.op \in {"LD", "SD"} =>
              aluout = Plus(refM.regs[instrE.rs1], instrE.imm)
         /\ instrE.op = "SD" => srcb_hE = refM.regs[instrE.rs2]
         /\ regwrite(instrE) /\ ~memtoreg(instrE) =>
              aluout = Result(refM, instrE)
<1>1. ~LoadsInto(rsE) /\ ~stallE_mult
  BY DEF stallE, stallM, stallW
<1>2. /\ instrE.op \notin {"JAL", "AUIPC"} => srca_hE = refM.regs[instrE.rs1]
      /\ instrE.op \notin {"JAL", "AUIPC", "JALR"} =>
           srcb_hE = refM.regs[instrE.rs2]
  BY <1>1, OperandsE
<1>3. dataD_nxt.pc = refM.pc
  BY DEF InOrder
<1>4. CASE instrE.op \in {"LD", "SD"}
  BY <1>2, <1>4 DEF aluout, select_srcb, alusrc, regwrite, memtoreg
<1>5. CASE instrE.op \in {"ADDI", "ADD", "LUI"}
  BY <1>2, <1>5 DEF aluout, select_srcb, alusrc, Result
<1>6. CASE instrE.op = "AUIPC"
  <2>1. srca_hE = dataD_nxt.pc
    BY <1>6 DEF srca_hE, ForwardA, Forward, ExecuteStage
  <2> QED BY <1>3, <1>6, <2>1 DEF aluout, select_srcb, alusrc, Result
<1>7. CASE instrE.op \in {"JAL", "JALR"}
  <2>1. srcb_hE = Plus(dataD_nxt.pc, 1)
    BY <1>7 DEF srcb_hE, ForwardB, Forward, ExecuteStage
  <2> QED BY <1>3, <1>7, <2>1 DEF aluout, select_srcb, alusrc, Result
<1>8. CASE instrE.op \in {"MUL", "DIV"}
  <2>1. select_srcb = srcb_hE
    BY <1>8 DEF select_srcb, alusrc
  <2>2. multValid => mult.a = srca_hE /\ mult.b = srcb_hE
    BY <1>1, <2>1 DEF stallE_mult, multDone, MultInv
  <2>3. CASE instrE.op = "MUL"
    BY <1>2, <2>2, <2>3 DEF multValid, aluout, Result
  <2>4. CASE instrE.op = "DIV" /\ srcb_hE # 0
    BY <1>2, <2>1, <2>2, <2>4 DEF multValid, aluout, Result
  <2>5. CASE instrE.op = "DIV" /\ srcb_hE = 0
    BY <1>2, <2>1, <2>5 DEF multValid, aluout, Result, Quotient
  <2> QED BY <1>8, <2>3, <2>4, <2>5
<1>9. CASE instrE.op \in {"UNKNOWN", "BEQ"}
  BY <1>9 DEF regwrite
<1> QED
  BY <1>4, <1>5, <1>6, <1>7, <1>8, <1>9, StageTypes DEF Instr, Op

-----------------------------------------------------------------------------
(* The step: a clock cycle preserves Inv, so every reachable state         *)
(* satisfies it, and the properties of Pipeline follow.                    *)

\* A bubble that moves on stays a bubble.
LEMMA BubblesMove ==
  ASSUME TypeOK, Bubbles, RegsInv
  PROVE  /\ ~dataF_nxt.valid => dataD = Decode0
         /\ ~dataD_nxt.valid => dataE = Execute0
<1>1. ASSUME ~dataF_nxt.valid PROVE dataD = Decode0
  <2>1. instrD = Instr0 /\ dataF_nxt.pc = 0 /\ dataF_nxt.valid = FALSE
    BY <1>1 DEF Bubbles, Fetch0, instrD
  <2>2. regs[0] = 0
    BY DEF RegsInv
  <2>3. srca_hD = 0 /\ srcb_hD = 0
    BY <2>1, <2>2 DEF srca_hD, srcb_hD, ForwardA, ForwardB, Forward, Instr0
  <2> QED BY <2>1, <2>3 DEF dataD, Decode0, Instr0
<1>2. ASSUME ~dataD_nxt.valid PROVE dataE = Execute0
  <2>1. /\ instrE = Instr0 /\ dataD_nxt.pc = 0 /\ dataD_nxt.valid = FALSE
        /\ dataD_nxt.srcb = 0
    BY <1>2 DEF Bubbles, Decode0, instrE
  <2>2. srcb_hE = 0
    BY <2>1 DEF srcb_hE, ForwardB, Forward, Instr0
  <2>3. aluout = 0
    BY <2>1, <2>2 DEF aluout, select_srcb, alusrc, Instr0
  <2> QED BY <2>1, <2>2, <2>3 DEF dataE, Execute0
<1> QED BY <1>1, <1>2

\* The pipeline registers after a cycle without reset.
LEMMA StageStep ==
  ASSUME ~reset, Cycle
  PROVE  /\ dataF_nxt' = IF stallD THEN dataF_nxt
                         ELSE IF branch_nxt \/ branch \/ iwait THEN Fetch0
                         ELSE dataF
         /\ dataD_nxt' = IF stallE THEN dataD_nxt
                         ELSE IF stallD THEN Decode0 ELSE dataD
         /\ dataE_nxt' = IF stallM THEN dataE_nxt
                         ELSE IF stallE THEN Execute0 ELSE dataE
         /\ dataM_nxt' = IF stallW THEN [dataM_nxt EXCEPT !.valid = FALSE]
                         ELSE IF dwait THEN Memory0 ELSE dataM
         /\ regs' = regs_nxt
         /\ ref' = refW
         /\ prog' = prog
<1>1. dataF_nxt' = IF stallD THEN dataF_nxt
                   ELSE IF branch_nxt \/ branch \/ iwait THEN Fetch0 ELSE dataF
  BY Zenon DEF Cycle, IfId, PipeReg
<1>2. dataD_nxt' = IF stallE THEN dataD_nxt ELSE IF stallD THEN Decode0 ELSE dataD
  BY Zenon DEF Cycle, IdEx, PipeReg
<1>3. dataE_nxt' = IF stallM THEN dataE_nxt ELSE IF stallE THEN Execute0 ELSE dataE
  BY Zenon DEF Cycle, ExMem, PipeReg
<1>4. dataM_nxt' = IF stallW THEN [dataM_nxt EXCEPT !.valid = FALSE]
                   ELSE IF dwait THEN Memory0 ELSE dataM
  BY Zenon DEF Cycle, MemWr, PipeReg
<1>5. regs' = regs_nxt /\ ref' = refW /\ prog' = prog
  BY DEF Cycle, RegFile, Difftest, Inputs, refW
<1> QED BY <1>1, <1>2, <1>3, <1>4, <1>5

\* The reference machine behind each stage follows the instructions.
LEMMA RefStep ==
  ASSUME TypeOK, ~reset, Cycle
  PROVE  /\ refW' = IF stallM THEN refW ELSE refM
         /\ refM' = IF stallE THEN refM ELSE refE
         /\ refE' = IF stallD THEN refE ELSE refD
<1> USE StageStep, StallChain
<1>1. /\ refW' = IF dataM_nxt'.valid THEN Execute(ref', prog[(ref').pc]) ELSE ref'
      /\ refM' = IF dataE_nxt'.valid THEN Execute(refW', prog[(refW').pc]) ELSE refW'
      /\ refE' = IF dataD_nxt'.valid THEN Execute(refM', prog[(refM').pc]) ELSE refM'
  <2>1. prog' = prog
    OBVIOUS
  <2> QED BY <2>1 DEF refW, refM, refE, After
<1>2. refW' = IF stallM THEN refW ELSE refM
  <2>1. CASE stallM
    <3>1. dataM_nxt'.valid = FALSE
      <4>1. CASE stallW
        BY <4>1, StageTypes DEF TypeOK, MemoryData
      <4>2. CASE ~stallW
        BY <2>1, <4>2 DEF stallM, Memory0
      <4> QED BY <4>1, <4>2
    <3> QED BY <1>1, <2>1, <3>1
  <2>2. CASE ~stallM
    <3>1. dataM_nxt' = dataM
      BY <2>2 DEF stallM
    <3> QED BY <1>1, <2>2, <3>1 DEF dataM, refM, After
  <2> QED BY <2>1, <2>2
<1>3. refM' = IF stallE THEN refM ELSE refE
  <2>1. CASE stallM
    BY <1>1, <1>2, <2>1 DEF refM, After
  <2>2. CASE ~stallM /\ stallE
    BY <1>1, <1>2, <2>2 DEF Execute0
  <2>3. CASE ~stallE
    BY <1>1, <1>2, <2>3 DEF dataE, refE, After
  <2> QED BY <2>1, <2>2, <2>3
<1>4. refE' = IF stallD THEN refE ELSE refD
  <2>1. CASE stallE
    BY <1>1, <1>3, <2>1 DEF refE, After
  <2>2. CASE ~stallE /\ stallD
    BY <1>1, <1>3, <2>2 DEF Decode0
  <2>3. CASE ~stallD
    BY <1>1, <1>3, <2>3 DEF dataD, refD, After
  <2> QED BY <2>1, <2>2, <2>3
<1> QED BY <1>2, <1>3, <1>4

\* The instructions after a cycle.
LEMMA InstrStep ==
  ASSUME ~reset, Cycle
  PROVE  /\ instrD' = (dataF_nxt').instr /\ instrE' = (dataD_nxt').instr
         /\ instrM' = (dataE_nxt').instr /\ instrW' = (dataM_nxt').instr
  BY DEF instrD, instrE, instrM, instrW

LEMMA PendingCleanStep ==
  ASSUME TypeOK, PendingClean, Cycle
  PROVE  PendingClean'
<1>1. CASE reset
  <2>1. dataF_nxt' = Fetch0
    BY <1>1, Zenon DEF Cycle, IfId, PipeReg
  <2>2. \/ branch_nxt' = branch_nxt /\ pcbranch_nxt' = pcbranch_nxt
        \/ branch_nxt' = FALSE /\ pcbranch_nxt' = 0
    BY <1>1 DEF Cycle, PendingBranch
  <2> QED BY <2>1, <2>2 DEF PendingClean
<1>2. CASE ~reset
  <2>1. dataF_nxt' = IF stallD THEN dataF_nxt
                     ELSE IF branch_nxt \/ branch \/ iwait THEN Fetch0 ELSE dataF
    BY <1>2, StageStep
  <2>2. CASE stallD
    BY <1>2, <2>1, <2>2 DEF Cycle, PendingBranch, PendingClean
  <2>3. CASE ~stallD /\ branch
    BY <1>2, <2>1, <2>3 DEF Cycle, PendingBranch, PendingClean
  <2>4. CASE ~stallD /\ ~branch /\ branch_nxt
    BY <1>2, <2>1, <2>4 DEF Cycle, PendingBranch, PendingClean
  <2>5. CASE ~stallD /\ ~branch /\ ~branch_nxt
    BY <1>2, <2>1, <2>5 DEF Cycle, PendingBranch, PendingClean
  <2> QED BY <2>2, <2>3, <2>4, <2>5
<1> QED BY <1>1, <1>2

LEMMA BubblesStep ==
  ASSUME TypeOK, Bubbles, RegsInv, ~reset, Cycle
  PROVE  Bubbles'
<1>1. ~dataF_nxt'.valid => dataF_nxt' = Fetch0
  BY StageStep DEF Bubbles, dataF
<1>2. ~dataD_nxt'.valid => dataD_nxt' = Decode0
  BY StageStep, BubblesMove DEF Bubbles, dataD
<1>3. ~dataE_nxt'.valid => dataE_nxt' = Execute0
  BY StageStep, BubblesMove DEF Bubbles, dataE
<1> QED BY <1>1, <1>2, <1>3 DEF Bubbles

\* The fetch goes on behind the instruction that leaves D.
LEMMA FetchNextStep ==
  ASSUME TypeOK, PendingClean, RunInv, ~reset, Cycle
  PROVE  FetchNext'
<1> USE DEF RunInv
<1>1. refE' = IF stallD THEN refE ELSE refD
  BY RefStep
<1>2. dataF_nxt' = IF stallD THEN dataF_nxt
                   ELSE IF branch_nxt \/ branch \/ iwait THEN Fetch0 ELSE dataF
  BY StageStep
<1>3. pc' = IF stallD \/ iwait THEN pc ELSE pc_nxt
  BY DEF Cycle, FetchPc, stallF
<1>4. CASE stallD
  <2>1. pc' = pc /\ branch_nxt' = branch_nxt /\ pcbranch_nxt' = pcbranch_nxt
    BY <1>3, <1>4 DEF Cycle, PendingBranch
  <2> QED BY <1>1, <1>2, <1>4, <2>1 DEF FetchNext
<1>5. CASE ~stallD
  <2>1. ~dataF_nxt.valid => refD = refE /\ ~branch
    BY BubbleIsInert DEF refD, After, branch, Instr0
  <2>2. dataF_nxt.valid => refD.pc = IF branch THEN pcbranch
                                     ELSE Plus(dataF_nxt.pc, 1)
    BY <1>5, BranchRight
  <2>3. branch_nxt => ~branch /\ ~dataF_nxt.valid
    BY TargetIsOne DEF PendingClean, Fetch0
  <2>4. Fetch0.valid = FALSE /\ dataF.valid = TRUE /\ dataF.pc = pc
    BY DEF Fetch0, dataF
  <2>5. CASE branch
    <3>1. dataF_nxt' = Fetch0 /\ refD.pc = pcbranch
      BY <1>2, <1>5, <2>1, <2>2, <2>5
    <3>2. CASE iwait
      <4>1. branch_nxt' = TRUE /\ pcbranch_nxt' = pcbranch
        BY <1>5, <2>5, <3>2 DEF Cycle, PendingBranch, iwait
      <4> QED BY <1>1, <1>5, <3>1, <4>1 DEF FetchNext
    <3>3. CASE ~iwait
      <4>1. branch_nxt' = FALSE
        BY <1>5, <2>5, <3>3 DEF Cycle, PendingBranch, iwait
      <4>2. pc' = pcbranch
        BY <1>3, <1>5, <2>3, <2>5, <3>3, TargetIsOne DEF pc_nxt
      <4> QED BY <1>1, <1>5, <2>4, <3>1, <4>1, <4>2 DEF FetchNext
    <3> QED BY <3>2, <3>3
  <2>6. CASE ~branch /\ branch_nxt
    <3>1. dataF_nxt' = Fetch0 /\ refD = refE /\ pcbranch_nxt = refE.pc
      BY <1>2, <1>5, <2>1, <2>3, <2>6 DEF FetchNext
    <3>2. CASE iwait
      <4>1. branch_nxt' = branch_nxt /\ pcbranch_nxt' = pcbranch_nxt
        BY <1>5, <2>6, <3>2 DEF Cycle, PendingBranch, iwait
      <4> QED BY <1>1, <1>5, <2>6, <3>1, <4>1 DEF FetchNext
    <3>3. CASE ~iwait
      <4>1. branch_nxt' = FALSE
        BY <1>5, <2>6, <3>3 DEF Cycle, PendingBranch, iwait
      <4>2. pc' = pcbranch_nxt
        BY <1>3, <1>5, <2>6, <3>3, TargetIsOne DEF pc_nxt
      <4> QED BY <1>1, <1>5, <2>4, <3>1, <4>1, <4>2 DEF FetchNext
    <3> QED BY <3>2, <3>3
  <2>7. CASE ~branch /\ ~branch_nxt
    <3>1. branch_nxt' = FALSE
      BY <1>5, <2>7 DEF Cycle, PendingBranch, TypeOK
    <3>2. pc = refD.pc
      BY <2>1, <2>2, <2>7 DEF FetchNext
    <3>3. CASE iwait
      BY <1>1, <1>2, <1>3, <1>5, <2>4, <3>1, <3>2, <3>3 DEF FetchNext
    <3>4. CASE ~iwait
      BY <1>2, <1>3, <1>5, <2>4, <2>7, <3>1, <3>4 DEF FetchNext, pc_nxt
    <3> QED BY <3>3, <3>4
  <2> QED BY <2>5, <2>6, <2>7
<1> QED BY <1>4, <1>5

LEMMA InOrderStep ==
  ASSUME TypeOK, PendingClean, RunInv, ~reset, Cycle
  PROVE  InOrder'
<1> USE DEF RunInv
<1>1. /\ ref' = refW /\ prog' = prog
      /\ refW' = IF stallM THEN refW ELSE refM
      /\ refM' = IF stallE THEN refM ELSE refE
      /\ refE' = IF stallD THEN refE ELSE refD
  BY RefStep, StageStep
<1>2. dataM_nxt'.valid => /\ instrW' = prog'[(ref').pc]
                          /\ dataM_nxt'.pc = (ref').pc
  <2> SUFFICES ASSUME dataM_nxt'.valid
               PROVE  instrW' = prog'[(ref').pc] /\ dataM_nxt'.pc = (ref').pc
    OBVIOUS
  <2>1. ~stallW
    BY StageStep, StageTypes DEF TypeOK, MemoryData
  <2>2. ~dwait
    BY <2>1, StageStep DEF Memory0
  <2>3. dataM_nxt' = dataM
    BY <2>1, <2>2, StageStep
  <2>4. dataE_nxt.valid /\ instrW' = instrM /\ dataM_nxt'.pc = dataE_nxt.pc
    BY <2>3, InstrStep DEF dataM
  <2> QED BY <1>1, <2>4 DEF InOrder
<1>3. dataE_nxt'.valid => /\ instrM' = prog'[(refW').pc]
                          /\ dataE_nxt'.pc = (refW').pc
  <2>1. CASE stallM
    BY <1>1, <2>1, StageStep, InstrStep DEF InOrder, instrM
  <2>2. CASE ~stallM /\ stallE
    BY <2>2, StageStep DEF Execute0
  <2>3. CASE ~stallE
    BY <1>1, <2>3, StageStep, InstrStep, StallChain DEF InOrder, dataE
  <2> QED BY <2>1, <2>2, <2>3
<1>4. dataD_nxt'.valid => /\ instrE' = prog'[(refM').pc]
                          /\ dataD_nxt'.pc = (refM').pc
  <2>1. CASE stallE
    BY <1>1, <2>1, StageStep, InstrStep DEF InOrder, instrE
  <2>2. CASE ~stallE /\ stallD
    BY <2>2, StageStep DEF Decode0
  <2>3. CASE ~stallD
    BY <1>1, <2>3, StageStep, InstrStep, StallChain DEF InOrder, dataD
  <2> QED BY <2>1, <2>2, <2>3
<1>5. dataF_nxt'.valid => /\ instrD' = prog'[(refE').pc]
                          /\ dataF_nxt'.pc = (refE').pc
  <2>1. CASE stallD
    BY <1>1, <2>1, StageStep, InstrStep DEF InOrder, instrD
  <2>2. CASE ~stallD /\ (branch_nxt \/ branch \/ iwait)
    BY <2>2, StageStep DEF Fetch0
  <2>3. CASE ~stallD /\ ~(branch_nxt \/ branch \/ iwait)
    <3>1. instrD' = prog[pc] /\ dataF_nxt'.pc = pc
      BY <2>3, StageStep, InstrStep DEF dataF, iwait
    <3>2. pc = refD.pc
      <4>1. CASE dataF_nxt.valid
        BY <2>3, <4>1, BranchRight DEF FetchNext
      <4>2. CASE ~dataF_nxt.valid
        BY <2>3, <4>2 DEF FetchNext, refD, After
      <4> QED BY <4>1, <4>2
    <3> QED BY <1>1, <2>3, <3>1, <3>2
  <2> QED BY <2>1, <2>2, <2>3
<1> QED BY <1>2, <1>3, <1>4, <1>5 DEF InOrder

\* A load is answered with the word of the reference machine's memory.
LEMMA LoadRight ==
  ASSUME TypeOK, RunInv, ~dwait, dataE_nxt.valid, regwrite(instrM)
  PROVE  (IF memtoreg(instrM) THEN dataM.readdata ELSE dataM.aluout)
            = Result(refW, instrM)
<1> USE DEF RunInv
<1>1. CASE memtoreg(instrM)
  <2>1. instrM.op = "LD" /\ dresp_ok
    BY <1>1 DEF memtoreg, dwait, dreq_valid
  <2>2. mem = refW.mem
    BY <2>1 DEF MemInv, memwrite
  <2>3. dataE_nxt.aluout = Plus(refW.regs[instrM.rs1], instrM.imm)
    BY <2>1 DEF MemoryStage
  <2> QED BY <1>1, <2>1, <2>2, <2>3 DEF dataM, Result
<1>2. CASE ~memtoreg(instrM)
  BY <1>2 DEF MemoryStage, dataM
<1> QED BY <1>1, <1>2

LEMMA RegsStep ==
  ASSUME TypeOK, RunInv, ~reset, Cycle
  PROVE  RegsInv'
<1> USE DEF RunInv
<1>1. regs' = refW.regs /\ ref' = refW
  BY StageStep, WriteBackRight
<1>2. refW.regs[0] = 0
  BY RefWReg, ZeroTypes
<1>3. resultw' = IF memtoreg(instrW') THEN (dataM_nxt').readdata
                 ELSE (dataM_nxt').aluout
  BY DEF resultw, memtoreg
<1>4. CASE stallW
  <2>1. /\ dataM_nxt' = [dataM_nxt EXCEPT !.valid = FALSE]
        /\ dataM_nxt \in MemoryData
    BY <1>4, StageStep DEF TypeOK
  <2>2. /\ instrW' = instrW /\ dataM_nxt'.valid = FALSE
        /\ dataM_nxt'.readdata = dataM_nxt.readdata
        /\ dataM_nxt'.aluout = dataM_nxt.aluout
    BY <2>1, InstrStep DEF MemoryData, instrW
  <2>3. resultw' = resultw
    BY <1>3, <2>2 DEF resultw
  <2>4. regwrite(instrW) /\ instrW.rd # 0 => refW.regs[instrW.rd] = resultw
    BY RefWReg, StageTypes DEF Writes
  <2> QED BY <1>1, <1>2, <2>2, <2>3, <2>4 DEF RegsInv, regwrite
<1>5. CASE ~stallW /\ dwait
  <2>1. dataM_nxt' = Memory0 /\ instrW' = Instr0
    BY <1>5, StageStep, InstrStep DEF Memory0
  <2> QED BY <1>1, <1>2, <2>1 DEF RegsInv, regwrite, Memory0, Instr0
<1>6. CASE ~stallW /\ ~dwait
  <2>1. dataM_nxt' = dataM /\ instrW' = instrM /\ dataM_nxt'.valid = dataE_nxt.valid
    BY <1>6, StageStep, InstrStep DEF dataM
  <2>2. dataE_nxt.valid /\ regwrite(instrM) => resultw' = Result(refW, instrM)
    BY <1>3, <1>6, <2>1, LoadRight
  <2>3. ~dataE_nxt.valid => ~regwrite(instrM)
    BY BubbleIsInert
  <2> QED BY <1>1, <1>2, <2>1, <2>2, <2>3 DEF RegsInv, regwrite
<1> QED BY <1>4, <1>5, <1>6

LEMMA MemoryStageStep ==
  ASSUME TypeOK, RunInv, ~reset, Cycle
  PROVE  MemoryStage'
<1> USE DEF RunInv
<1>1. refW' = IF stallM THEN refW ELSE refM
  BY RefStep
<1>2. CASE stallM
  BY <1>1, <1>2, StageStep, InstrStep DEF MemoryStage, instrM, regwrite, memtoreg
<1>3. CASE ~stallM /\ stallE
  BY <1>3, StageStep DEF MemoryStage, Execute0
<1>4. CASE ~stallE
  <2>1. dataE_nxt' = dataE /\ instrM' = instrE /\ refW' = refM
    BY <1>1, <1>4, StageStep, InstrStep, StallChain DEF dataE
  <2>2. dataE.valid = dataD_nxt.valid /\ dataE.aluout = aluout
        /\ dataE.writedata = srcb_hE
    BY DEF dataE
  <2> QED
    BY <1>4, <2>1, <2>2, ExecuteRight DEF MemoryStage, regwrite, memtoreg
<1> QED BY <1>2, <1>3, <1>4

\* A store that M repeats writes the same word again.
LEMMA MemStep ==
  ASSUME TypeOK, RunInv, ~reset, Cycle
  PROVE  MemInv'
<1> USE DEF RunInv
<1>1. /\ refW' = IF stallM THEN refW ELSE refM
      /\ refM' = IF stallE THEN refM ELSE refE
      /\ stallM => dataE_nxt' = dataE_nxt /\ stallE
  BY RefStep, StageStep, StallChain
<1>2. /\ refW.mem \in [Word -> Word] /\ mem \in [Word -> Word]
      /\ dataE_nxt.valid \in BOOLEAN
  BY RefTypes, StageTypes DEF Machine, TypeOK
<1>3. CASE memwrite(instrM)
  <2>1. instrM.op = "SD" /\ dataE_nxt.valid
    BY <1>3, BubbleIsInert, StageTypes DEF memwrite
  <2>2. refM = Execute(refW, instrM)
    BY <2>1 DEF InOrder, refM, After
  <2>3. refM.mem = [refW.mem EXCEPT ![dataE_nxt.aluout] = dataE_nxt.writedata]
    BY <1>3, <2>1, <2>2 DEF Execute, MemoryStage
  <2>4. CASE dresp_ok
    <3>1. mem' = [mem EXCEPT ![dataE_nxt.aluout] = dataE_nxt.writedata]
      BY <1>3, <2>4 DEF Cycle, DataBus, dreq_valid
    <3>2. mem' = refM.mem
      BY <1>2, <2>3, <3>1 DEF MemInv
    <3>3. CASE stallM
      BY <1>1, <1>3, <2>1, <3>2, <3>3 DEF MemInv, instrM
    <3>4. CASE ~stallM
      BY <1>1, <3>2, <3>4 DEF MemInv
    <3> QED BY <3>3, <3>4
  <2>5. CASE ~dresp_ok
    <3>1. mem' = mem /\ stallM
      BY <1>3, <2>5 DEF Cycle, DataBus, dreq_valid, stallM, dwait
    <3> QED BY <1>1, <1>3, <3>1 DEF MemInv, instrM
  <2> QED BY <2>4, <2>5
<1>4. CASE ~memwrite(instrM)
  <2>1. mem' = mem /\ mem = refW.mem
    BY <1>4 DEF Cycle, DataBus, MemInv
  <2>2. refM.mem = refW.mem
    BY <1>4 DEF refM, After, Execute, InOrder
  <2> QED BY <1>1, <2>1, <2>2 DEF MemInv
<1> QED BY <1>3, <1>4

LEMMA ExecuteStageStep ==
  ASSUME TypeOK, RunInv, ~reset, Cycle
  PROVE  ExecuteStage'
<1> USE DEF RunInv
<1>1. /\ refW' = IF stallM THEN refW ELSE refM
      /\ refM' = IF stallE THEN refM ELSE refE
  BY RefStep
<1>2. CASE stallE
  <2>1. dataD_nxt' = dataD_nxt /\ instrE' = instrE
    BY <1>2, StageStep, InstrStep DEF instrE
  <2>2. ASSUME NEW rs \in Reg, rs \in rsE, NEW old, Read(rs, old)
        PROVE  /\ rs = 0 => old = 0
               /\ ~Writes(instrM', rs)
                  /\ (dataE_nxt'.valid \/ ~Writes(instrW', rs))
                  => old = refW'.regs[rs]
    <3>1. CASE stallM
      <4>1. refW' = refW /\ dataE_nxt' = dataE_nxt /\ instrM' = instrM
        BY <1>1, <3>1, StageStep, InstrStep DEF instrM
      <4>2. CASE stallW
        <5>1. instrW' = instrW
          BY <4>2, StageStep, InstrStep, StageTypes DEF instrW, TypeOK, MemoryData
        <5> QED BY <2>2, <4>1, <5>1 DEF Read
      <4>3. CASE ~stallW
        <5>1. dataE_nxt.valid
          BY <3>1, <4>3, BubbleIsInert DEF stallM, dwait
        <5> QED BY <2>2, <4>1, <5>1 DEF Read
      <4> QED BY <4>2, <4>3
    <3>2. CASE ~stallM
      <4>1. refW' = refM /\ dataE_nxt' = Execute0 /\ dataM_nxt' = dataM
            /\ instrW' = instrM
        BY <1>1, <1>2, <3>2, StageStep, InstrStep DEF stallM, dataM
      <4>2. dataE_nxt.valid
        BY <1>2, <3>2, BubbleIsInert, StageTypes DEF stallE, LoadsInto
      <4>3. dataE_nxt'.valid = FALSE
        BY <4>1 DEF Execute0
      <4>4. ~Writes(instrM, rs) => old = refM.regs[rs]
        BY <2>2, <4>2, RefMReg DEF Read
      <4> QED BY <2>2, <4>1, <4>3, <4>4 DEF Read
    <3> QED BY <3>1, <3>2
  <2> QED
    BY <2>1, <2>2, StageTypes DEF ExecuteStage, Read, rsE, Writes, regwrite
<1>3. CASE ~stallE /\ stallD
  BY <1>3, StageStep DEF ExecuteStage, Decode0
<1>4. CASE ~stallD
  <2>1. /\ dataD_nxt' = dataD /\ instrE' = instrD
        /\ refW' = refM
    BY <1>1, <1>4, StageStep, InstrStep, StallChain DEF dataD
  <2>2. /\ instrD.op \notin {"JAL", "AUIPC"} =>
             srca_hD = refM.regs[instrD.rs1]
        /\ instrD.op \notin {"JAL", "AUIPC", "JALR"} =>
             srcb_hD = refM.regs[instrD.rs2]
    BY <1>4, OperandsD
  <2>3. refM.regs[0] = 0
    BY ZeroTypes, RefMReg, RefWReg
  <2>4. /\ dataD_nxt'.pc = dataF_nxt.pc
        /\ dataD_nxt'.srca = IF instrD.op = "AUIPC" THEN dataF_nxt.pc ELSE srca_hD
        /\ dataD_nxt'.srcb = IF instrD.op \in {"JAL", "JALR"}
                             THEN Plus(dataF_nxt.pc, 1) ELSE srcb_hD
    BY <2>1 DEF dataD
  <2> QED BY <2>1, <2>2, <2>3, <2>4 DEF ExecuteStage, Read
<1> QED BY <1>2, <1>3, <1>4, StallChain

\* The unit works while E, M and W wait, so its operands stay right.
LEMMA MultStep ==
  ASSUME TypeOK, RunInv, ~reset, Cycle
  PROVE  MultInv'
<1> SUFFICES ASSUME mult'.doing PROVE MultInv'
  BY DEF MultInv
<1>1. multValid /\ ~multDone /\ mult'.a = srca_hE /\ mult'.b = select_srcb
  <2>1. multValid
    BY DEF Cycle, MultUnit, mult_nxt, Mult0
  <2>2. CASE mult.doing
    <3>1. mult' = [mult EXCEPT !.doing = ~multDone, !.count = mult.count - 1]
      BY <2>1, <2>2 DEF Cycle, MultUnit, mult_nxt
    <3>2. /\ mult'.doing = ~multDone
          /\ mult'.a = mult.a /\ mult'.b = mult.b
      BY <3>1 DEF TypeOK, MultState
    <3> QED BY <2>1, <2>2, <3>2 DEF RunInv, MultInv
  <2>3. CASE ~mult.doing
    <3>1. mult' = [doing |-> TRUE, count |-> MultDelay,
                   a |-> srca_hE, b |-> select_srcb]
      BY <2>1, <2>3 DEF Cycle, MultUnit, mult_nxt
    <3> QED BY <2>1, <2>3, <3>1 DEF multDone
  <2> QED BY <2>2, <2>3
<1>2. stallW /\ stallM /\ stallE
  BY <1>1, StallChain DEF stallW, stallE_mult
<1>3. /\ dataD_nxt' = dataD_nxt /\ dataE_nxt' = dataE_nxt
      /\ dataM_nxt' = [dataM_nxt EXCEPT !.valid = FALSE]
  BY <1>2, StageStep
<1>4. /\ instrE' = instrE /\ instrM' = instrM /\ instrW' = instrW
      /\ (dataM_nxt').readdata = dataM_nxt.readdata
      /\ (dataM_nxt').aluout = dataM_nxt.aluout
  BY <1>3, InstrStep DEF instrE, instrM, instrW, TypeOK, MemoryData
<1>5. resultw' = resultw
  BY <1>4 DEF resultw, memtoreg
<1>6. srca_hE' = srca_hE /\ srcb_hE' = srcb_hE
  BY <1>3, <1>4, <1>5 DEF srca_hE, srcb_hE, ForwardA, ForwardB, Forward, regwrite
<1>7. select_srcb' = select_srcb
  BY <1>4, <1>6 DEF select_srcb, alusrc
<1>8. multValid' = multValid
  BY <1>4, <1>7 DEF multValid
<1> QED BY <1>1, <1>6, <1>7, <1>8 DEF MultInv

-----------------------------------------------------------------------------
(* Reset                                                                   *)

\* The first cycle of reset empties the stages, the second, nothing being
\* stalled, the pending branch and the multi-cycle unit.
LEMMA ResetStep ==
  ASSUME TypeOK, ResetInv, reset, Cycle
  PROVE  /\ left' = left - 1
         /\ dataF_nxt' = Fetch0 /\ dataD_nxt' = Decode0
         /\ dataE_nxt' = Execute0 /\ dataM_nxt' = Memory0
         /\ pc' = ResetPc /\ regs' = Regs0
         /\ ref' = [pc |-> ResetPc, regs |-> Regs0, mem |-> mem']
         /\ left < ResetTicks => /\ branch_nxt' = FALSE /\ pcbranch_nxt' = 0
                                 /\ mult'.doing = FALSE
<1>1. dataF_nxt' = Fetch0 /\ dataD_nxt' = Decode0
  BY Zenon DEF Cycle, IfId, IdEx, PipeReg
<1>2. dataE_nxt' = Execute0 /\ dataM_nxt' = Memory0
  BY Zenon DEF Cycle, ExMem, MemWr, PipeReg
<1>3. /\ left' = left - 1 /\ pc' = ResetPc /\ regs' = Regs0
      /\ ref' = [pc |-> ResetPc, regs |-> Regs0, mem |-> mem']
  BY DEF Cycle, Inputs, FetchPc, RegFile, Difftest
<1>4. ASSUME left < ResetTicks
      PROVE  /\ branch_nxt' = FALSE /\ pcbranch_nxt' = 0
             /\ mult'.doing = FALSE
  <2>1. instrD = Instr0 /\ instrE = Instr0 /\ instrM = Instr0
    BY <1>4 DEF ResetInv, Fetch0, Decode0, Execute0, instrD, instrE, instrM
  <2>2. ~multValid /\ ~dreq_valid
    BY <2>1 DEF multValid, dreq_valid, memtoreg, memwrite, Instr0
  <2>3. ~ldstall /\ ~LoadsInto(rsE) /\ ~LoadsInto(rsD)
    BY <2>1 DEF ldstall, LoadsInto, memtoreg, Instr0
  <2>4. ~stallD
    BY <2>2, <2>3 DEF stallD, stallE, stallM, stallW, dwait, stallE_mult
  <2>5. branch_nxt' = FALSE /\ pcbranch_nxt' = 0
    BY <2>4 DEF Cycle, PendingBranch
  <2>6. mult' = Mult0
    BY <2>2 DEF Cycle, MultUnit, mult_nxt
  <2> QED BY <2>5, <2>6 DEF Mult0
<1> QED BY <1>1, <1>2, <1>3, <1>4

\* A pipeline that leaves reset is at the start of the program.
LEMMA StartsRunning ==
  ASSUME TypeOK, ResetInv, reset, Cycle, ~reset'
  PROVE  RunInv'
<1>1. left' = left - 1 /\ left \in Nat /\ left > 0 /\ left' = 0
  <2>1. left' = left - 1
    BY ResetStep
  <2>2. left \in 0 .. ResetTicks /\ left > 0 /\ ~(left' > 0)
    BY DEF TypeOK, reset
  <2> QED BY <2>1, <2>2, TicksAssumption
<1>2. left < ResetTicks
  BY <1>1, TicksAssumption
<1>3. /\ dataF_nxt' = Fetch0 /\ dataD_nxt' = Decode0
      /\ dataE_nxt' = Execute0 /\ dataM_nxt' = Memory0
      /\ pc' = ResetPc /\ regs' = Regs0
      /\ ref' = [pc |-> ResetPc, regs |-> Regs0, mem |-> mem']
      /\ branch_nxt' = FALSE /\ mult'.doing = FALSE
  BY <1>2, ResetStep
<1>4. /\ dataF_nxt'.valid = FALSE /\ dataD_nxt'.valid = FALSE
      /\ dataE_nxt'.valid = FALSE /\ dataM_nxt'.valid = FALSE
      /\ instrW' = Instr0
  BY <1>3 DEF Fetch0, Decode0, Execute0, Memory0, instrW
<1>5. refW' = ref' /\ refM' = ref' /\ refE' = ref'
  BY <1>4 DEF refW, refM, refE, After
<1>6. Bubbles' /\ InOrder' /\ MemoryStage' /\ ExecuteStage'
  BY <1>3, <1>4 DEF Bubbles, InOrder, MemoryStage, ExecuteStage
<1>7. FetchNext' /\ MemInv' /\ MultInv'
  BY <1>3, <1>4, <1>5 DEF FetchNext, MemInv, MultInv
<1>8. RegsInv'
  BY <1>3, <1>4, ZeroTypes DEF RegsInv, Regs0, regwrite, Instr0
<1> QED BY <1>6, <1>7, <1>8 DEF RunInv

-----------------------------------------------------------------------------
(* The invariant                                                           *)

LEMMA InvInit ==
  ASSUME Init PROVE Inv
<1>1. TypeOK
  <2>1. left \in 0 .. ResetTicks /\ prog \in Programs
    BY TicksAssumption DEF Init
  <2>2. ref \in Machine
    BY ZeroTypes, ResetPcAssumption, InitMemAssumption DEF Init, Machine
  <2> QED BY <2>1, <2>2, ZeroTypes, InitMemAssumption DEF Init, TypeOK
<1>2. CountInv /\ PendingClean
  BY DEF Init, CountInv, PendingClean, Mult0
<1>3. reset /\ ResetInv
  BY TicksAssumption DEF Init, reset, ResetInv
<1> QED BY <1>1, <1>2, <1>3 DEF Inv

LEMMA InvCycle ==
  ASSUME Inv, Cycle PROVE Inv'
<1>1. TypeOK' /\ CountInv' /\ PendingClean'
  BY TypeStep, PendingCleanStep DEF Inv
<1>2. CASE reset /\ reset'
  <2>1. /\ left' = left - 1 /\ left' \in Nat /\ left' > 0 /\ left \in Nat
        /\ left <= ResetTicks
    <3>1. left' = left - 1
      BY <1>2, ResetStep DEF Inv
    <3>2. left \in 0 .. ResetTicks /\ left' \in 0 .. ResetTicks
      BY <1>1 DEF Inv, TypeOK
    <3>3. left > 0 /\ left' > 0
      BY <1>2 DEF reset
    <3> QED BY <3>1, <3>2, <3>3, TicksAssumption
  <2>2. left' < ResetTicks - 1 => left < ResetTicks
    BY <2>1, TicksAssumption
  <2>3. ResetInv'
    BY <1>2, <2>2, ResetStep DEF Inv, ResetInv
  <2> QED BY <1>1, <1>2, <2>3 DEF Inv
<1>3. CASE reset /\ ~reset'
  BY <1>1, <1>3, StartsRunning DEF Inv
<1>4. CASE ~reset
  <2>1. RunInv'
    <3>1. RunInv /\ TypeOK /\ PendingClean
      BY <1>4 DEF Inv
    <3>2. Bubbles' /\ InOrder' /\ FetchNext' /\ RegsInv'
      BY <1>4, <3>1, BubblesStep, InOrderStep, FetchNextStep, RegsStep DEF RunInv
    <3>3. MemoryStage' /\ MemInv' /\ ExecuteStage' /\ MultInv'
      BY <1>4, <3>1, MemoryStageStep, MemStep, ExecuteStageStep, MultStep
    <3> QED BY <3>2, <3>3 DEF RunInv
  <2>2. reset' => ResetInv'
    <3>1. left' \in {0, ResetTicks}
      BY <1>4, Zenon DEF Cycle, Inputs
    <3> QED BY <3>1, TicksAssumption DEF reset, ResetInv
  <2> QED BY <1>1, <2>1, <2>2 DEF Inv
<1> QED BY <1>2, <1>3, <1>4

\* A stuttering step disturbs nothing.
LEMMA InvStutter ==
  ASSUME Inv, UNCHANGED vars PROVE Inv'
<1>1. /\ left' = left /\ prog' = prog /\ iresp_ok' = iresp_ok /\ mem' = mem
      /\ dresp_ok' = dresp_ok /\ pc' = pc /\ branch_nxt' = branch_nxt
      /\ pcbranch_nxt' = pcbranch_nxt /\ dataF_nxt' = dataF_nxt
      /\ dataD_nxt' = dataD_nxt /\ dataE_nxt' = dataE_nxt
      /\ dataM_nxt' = dataM_nxt /\ mult' = mult /\ regs' = regs /\ ref' = ref
  BY DEF vars, pipeRegs
<1>2. /\ instrD' = instrD /\ instrE' = instrE /\ instrM' = instrM
      /\ instrW' = instrW
  BY <1>1 DEF instrD, instrE, instrM, instrW
<1>3. refW' = refW /\ refM' = refM /\ refE' = refE
  BY <1>1 DEF refW, refM, refE, After
<1>4. resultw' = resultw
  BY <1>1, <1>2 DEF resultw, memtoreg
<1>5. srca_hE' = srca_hE /\ srcb_hE' = srcb_hE
  BY <1>1, <1>2, <1>4 DEF srca_hE, srcb_hE, ForwardA, ForwardB, Forward, regwrite
<1>6. select_srcb' = select_srcb /\ multValid' = multValid
  BY <1>2, <1>5 DEF select_srcb, alusrc, multValid
<1>7. TypeOK' /\ CountInv' /\ PendingClean'
  BY <1>1 DEF Inv, TypeOK, CountInv, PendingClean
<1>8. reset' = reset /\ (ResetInv => ResetInv')
  BY <1>1 DEF reset, ResetInv
<1>9. ASSUME RunInv PROVE RunInv'
  <2>1. Bubbles' /\ InOrder' /\ FetchNext'
    BY <1>1, <1>2, <1>3, <1>9 DEF RunInv, Bubbles, InOrder, FetchNext
  <2>2. RegsInv' /\ MemInv'
    BY <1>1, <1>2, <1>3, <1>4, <1>9
       DEF RunInv, RegsInv, MemInv, regwrite, memwrite
  <2>3. MemoryStage' /\ ExecuteStage' /\ MultInv'
    BY <1>1, <1>2, <1>3, <1>5, <1>6, <1>9
       DEF RunInv, MemoryStage, ExecuteStage, MultInv, Read, Writes, regwrite,
           memtoreg
  <2> QED BY <2>1, <2>2, <2>3 DEF RunInv
<1> QED BY <1>7, <1>8, <1>9 DEF Inv

THEOREM Invariant == Spec => []Inv
<1>1. Init => Inv
  BY InvInit
<1>2. Inv /\ [Next]_vars => Inv'
  BY InvCycle, InvStutter DEF Next
<1> QED BY <1>1, <1>2, PTL DEF Spec

-----------------------------------------------------------------------------
(* The theorems                                                            *)

\* Every register of the pipeline keeps its type: in particular every address
\* and result is a word.
THEOREM TypeCorrect == Spec => []TypeOK
<1>1. Inv => TypeOK
  BY DEF Inv
<1> QED BY <1>1, Invariant, PTL

\* Where the pipeline goes on, by the invariant.
LEMMA OldestIsNext ==
  ASSUME Inv, ~reset PROVE oldestPc = ref.pc
<1>1. RunInv /\ TypeOK
  BY DEF Inv
<1>2. /\ ~dataM_nxt.valid => refW = ref
      /\ ~dataE_nxt.valid => refM = refW
      /\ ~dataD_nxt.valid => refE = refM
  BY DEF refW, refM, refE, After
<1> QED BY <1>1, <1>2 DEF RunInv, InOrder, FetchNext, oldestPc

\* No instruction is lost, fetched twice or fetched from the wrong path: what
\* is committed next is the oldest in flight, or where the fetch goes on
\* (core.sv:79-85,133-148).
THEOREM NothingLostHolds == Spec => []NothingLost
<1>1. Inv => NothingLost
  BY OldestIsNext DEF NothingLost
<1> QED BY <1>1, Invariant, PTL

\* Every instruction committed is the one the reference machine executes
\* (core.sv:217-230).
THEOREM CommitAgreesHolds == Spec => []CommitAgrees
<1>1. Inv => CommitAgrees
  BY DEF Inv, RunInv, InOrder, CommitAgrees
<1> QED BY <1>1, Invariant, PTL

\* The register file difftest sees is always the reference machine's: every
\* operand was forwarded or waited for (forward.sv:43-90, stall.sv:46-59).
THEOREM RegistersAgreeHolds == Spec => []RegistersAgree
<1>1. Inv => RegistersAgree
  BY WriteBackRight DEF Inv, RunInv, RegistersAgree
<1> QED BY <1>1, Invariant, PTL

\* Data memory is the reference machine's, but for the store M is at
\* (memory.sv:27-40).
THEOREM MemoryAgreesHolds == Spec => []MemoryAgrees
<1>1. Inv => MemoryAgrees
  <2> SUFFICES ASSUME Inv, ~reset PROVE MemoryAgrees
    BY DEF MemoryAgrees
  <2>1. MemInv
    BY DEF Inv, RunInv
  <2> QED BY <2>1 DEF MemInv, MemoryAgrees, refM, After
<1> QED BY <1>1, Invariant, PTL

\* The or of two addresses that pc.sv gets is one of them, always
\* (core.sv:116-117).
THEOREM OneTargetHolds == Spec => []OneTarget
<1>1. Inv => OneTarget
  BY TargetIsOne DEF Inv, OneTarget
<1> QED BY <1>1, Invariant, PTL

\* Registers and data memory together.
THEOREM StateAgreesHolds == Spec => []StateAgrees
<1>1. QED
  BY RegistersAgreeHolds, MemoryAgreesHolds, PTL DEF StateAgrees

\* The fetch stays on the program's path, with one target at a time.
THEOREM PathRightHolds == Spec => []PathRight
<1>1. QED
  BY TypeCorrect, NothingLostHolds, OneTargetHolds, PTL DEF PathRight

\* The data bus sees the accesses of the reference machine only
\* (memory.sv:27-40, EXMEM_reg.sv).
THEOREM RequestsAgreeHolds == Spec => []RequestsAgree
<1>1. Inv => RequestsAgree
  <2> SUFFICES ASSUME Inv, ~reset, dreq_valid PROVE RequestsAgree
    BY DEF RequestsAgree
  <2>1. RunInv /\ TypeOK
    BY DEF Inv
  <2>2. dataE_nxt.valid
    BY <2>1, BubbleIsInert, StageTypes DEF RunInv
  <2>3. instrM.op \in {"LD", "SD"}
    BY DEF dreq_valid, memtoreg, memwrite
  <2> QED BY <2>1, <2>2, <2>3 DEF RequestsAgree, RunInv, InOrder, MemoryStage, memwrite
<1> QED BY <1>1, Invariant, PTL

\* A request is made again until it is answered (core.sv:133-148, stall.sv:58).
THEOREM RequestsHeldHolds == Spec => RequestsHeld
<1>1. Cycle => (~reset /\ ~reset' => /\ iwait => pc' = pc
                                     /\ dwait => dataE_nxt' = dataE_nxt)
  BY StageStep DEF Cycle, FetchPc, stallF, stallM
<1>2. [Next]_vars => [~reset /\ ~reset' => /\ iwait => pc' = pc
                                           /\ dwait => dataE_nxt' = dataE_nxt]_vars
  BY <1>1 DEF Next
<1> QED BY <1>2, PTL DEF Spec, RequestsHeld

\* An answer is taken in the cycle it comes, unless a multiplication or
\* division in E keeps M waiting (stall.sv:58-59).
THEOREM AnswerTakenHolds == Spec => AnswerTaken
<1>1. ASSUME Cycle, ~reset, dreq_valid, dresp_ok
      PROVE  IF stallE_mult THEN dataE_nxt' = dataE_nxt
             ELSE dataM_nxt' = dataM /\ dataE_nxt' \in {dataE, Execute0}
  BY <1>1, StageStep DEF stallM, stallW, dwait
<1>2. [Next]_vars =>
        [~reset /\ ~reset' /\ dreq_valid /\ dresp_ok =>
           IF stallE_mult THEN dataE_nxt' = dataE_nxt
           ELSE dataM_nxt' = dataM /\ dataE_nxt' \in {dataE, Execute0}]_vars
  BY <1>1 DEF Next
<1> QED BY <1>2, PTL DEF Spec, AnswerTaken

-----------------------------------------------------------------------------
(* Refinement                                                              *)

\* While it runs, the machine the pipeline shows is the reference machine.
LEMMA ArchIsRef ==
  ASSUME Inv, ~reset PROVE archMachine = ref
<1>1. oldestPc = ref.pc /\ regs = ref.regs
  BY OldestIsNext DEF Inv, RunInv, RegsInv
<1>2. ref \in Machine
  BY DEF Inv, TypeOK
<1>3. archMachine = [pc |-> ref.pc, regs |-> ref.regs, mem |-> ref.mem]
  BY <1>1 DEF archMachine
<1> QED BY <1>2, <1>3 DEF Machine

\* A cycle executes one instruction or none, or starts the program again.
LEMMA CycleRefines ==
  ASSUME Inv, Inv', Cycle
  PROVE  \/ archMachine' = Execute(archMachine, prog[archMachine.pc])
         \/ archMachine' = archMachine
         \/ archMachine' = [pc |-> ResetPc, regs |-> Regs0, mem |-> (ref').mem]
<1>1. CASE reset'
  BY <1>1 DEF archMachine
<1>2. CASE ~reset'
  <2>1. archMachine' = ref'
    <3>1. oldestPc' = (ref').pc /\ regs' = (ref').regs
      <4>1. RunInv' /\ TypeOK'
        BY <1>2 DEF Inv
      <4>2. /\ ~dataM_nxt'.valid => refW' = ref'
            /\ ~dataE_nxt'.valid => refM' = refW'
            /\ ~dataD_nxt'.valid => refE' = refM'
        BY DEF refW, refM, refE, After
      <4> QED
        BY <4>1, <4>2 DEF RunInv, InOrder, FetchNext, RegsInv, oldestPc
    <3>2. ref' \in Machine
      BY DEF Inv, TypeOK
    <3>3. archMachine' = [pc |-> (ref').pc, regs |-> (ref').regs, mem |-> (ref').mem]
      BY <1>2, <3>1 DEF archMachine
    <3> QED BY <3>2, <3>3 DEF Machine
  <2>2. CASE reset
    BY <2>1, <2>2, ResetStep DEF Inv
  <2>3. CASE ~reset
    BY <2>1, <2>3, ArchIsRef, StageStep DEF refW
  <2> QED BY <2>2, <2>3
<1> QED BY <1>1, <1>2

\* The sequential machine is made of the operators of the reference machine.
LEMMA SameIsa ==
  /\ Sequential!Reg = Reg /\ Sequential!Word = Word
  /\ \A s, i : Sequential!Execute(s, i) = Execute(s, i)
<1>1. Sequential!Reg = Reg /\ Sequential!Word = Word
  BY DEF Sequential!Reg, Sequential!Word, Reg, Word
<1>2. ASSUME NEW x, NEW y
      PROVE  /\ Sequential!Plus(x, y) = Plus(x, y)
             /\ Sequential!Times(x, y) = Times(x, y)
             /\ Sequential!Quotient(x, y) = Quotient(x, y)
  BY DEF Sequential!Plus, Sequential!Times, Sequential!Quotient,
         Plus, Times, Quotient
<1>3. ASSUME NEW s, NEW i PROVE Sequential!Execute(s, i) = Execute(s, i)
  <2>1. Sequential!Result(s, i) = Result(s, i)
    BY <1>2 DEF Sequential!Result, Result
  <2>2. Sequential!NextPc(s, i) = NextPc(s, i)
    BY <1>2 DEF Sequential!NextPc, NextPc
  <2>3. (Sequential!regwrite(i) = regwrite(i)) /\ (Sequential!memwrite(i) = memwrite(i))
    BY DEF Sequential!regwrite, Sequential!memwrite, regwrite, memwrite
  <2> QED BY <1>2, <2>1, <2>2, <2>3 DEF Sequential!Execute, Execute
<1> QED BY <1>1, <1>3

\* The pipeline implements the sequential machine: its programs cannot tell
\* that their instructions overlap (core.sv against the model of difftest).
THEOREM Implements == Spec => ImplementsSequential
<1>1. ASSUME Init PROVE Sequential!MachineInit
  <2>1. reset
    BY <1>1, TicksAssumption DEF Init, reset
  <2> QED
    BY <1>1, <2>1, SameIsa
       DEF Init, archMachine, Sequential!MachineInit, Sequential!Boot, Regs0
<1>2. ASSUME Inv, Inv', [Next]_vars
      PROVE  [Sequential!Step \/ Sequential!Reboot]_<<prog, archMachine>>
  <2>1. CASE Cycle
    <3>1. prog' = prog
      BY <2>1 DEF Cycle, Inputs
    <3>2. (ref').mem \in [Word -> Word]
      BY <1>2 DEF Inv, TypeOK, Machine
    <3>3. CASE archMachine' = Execute(archMachine, prog[archMachine.pc])
      BY <3>1, <3>3, SameIsa DEF Sequential!Step
    <3>4. CASE archMachine' = archMachine
      BY <3>1, <3>4
    <3>5. CASE archMachine' = [pc |-> ResetPc, regs |-> Regs0, mem |-> (ref').mem]
      BY <3>1, <3>2, <3>5, SameIsa DEF Sequential!Reboot, Sequential!Boot, Regs0
    <3> QED BY <1>2, <2>1, <3>3, <3>4, <3>5, CycleRefines
  <2>2. CASE UNCHANGED vars
    <3>1. /\ left' = left /\ prog' = prog /\ pc' = pc
          /\ branch_nxt' = branch_nxt /\ pcbranch_nxt' = pcbranch_nxt
          /\ dataF_nxt' = dataF_nxt /\ dataD_nxt' = dataD_nxt
          /\ dataE_nxt' = dataE_nxt /\ dataM_nxt' = dataM_nxt
          /\ regs' = regs /\ ref' = ref
      BY <2>2 DEF vars, pipeRegs
    <3>2. archMachine' = archMachine
      BY <3>1 DEF archMachine, oldestPc, reset
    <3> QED BY <3>1, <3>2
  <2> QED BY <1>2, <2>1, <2>2 DEF Next
<1> QED
  BY <1>1, <1>2, Invariant, PTL DEF Spec, ImplementsSequential, Sequential!MachineSpec

=============================================================================
