----------------------------- MODULE PipelineInv -----------------------------
(***************************************************************************)
(* The inductive invariant behind the theorems of PipelineProofs.  It says *)
(* of each stage what its register holds, in terms of the reference        *)
(* machine as it will be when the instructions ahead of that stage have    *)
(* been committed: refW behind W, refM behind M, refE behind E.            *)
(***************************************************************************)
EXTENDS Pipeline

After(s, valid) == IF valid THEN Execute(s, prog[s.pc]) ELSE s

refM == After(refW, dataE_nxt.valid)
refE == After(refM, dataD_nxt.valid)
refD == After(refE, dataF_nxt.valid)

\* A register without an instruction is cleared.
Bubbles ==
  /\ ~dataF_nxt.valid => dataF_nxt = Fetch0
  /\ ~dataD_nxt.valid => dataD_nxt = Decode0
  /\ ~dataE_nxt.valid => dataE_nxt = Execute0

\* Each stage holds the instruction that comes next in program order.
InOrder ==
  /\ dataM_nxt.valid => instrW = prog[ref.pc] /\ dataM_nxt.pc = ref.pc
  /\ dataE_nxt.valid => instrM = prog[refW.pc] /\ dataE_nxt.pc = refW.pc
  /\ dataD_nxt.valid => instrE = prog[refM.pc] /\ dataD_nxt.pc = refM.pc
  /\ dataF_nxt.valid => instrD = prog[refE.pc] /\ dataF_nxt.pc = refE.pc

\* Where the fetch goes on.  A branch that waits for the running fetch has
\* left a bubble behind.
PendingClean ==
  /\ branch_nxt => dataF_nxt = Fetch0
  /\ ~branch_nxt => pcbranch_nxt = 0

FetchNext ==
  IF branch_nxt THEN pcbranch_nxt = refE.pc
  ELSE IF dataF_nxt.valid THEN pc = Plus(dataF_nxt.pc, 1)
  ELSE pc = refE.pc

\* The register file is the reference machine's.  What W holds is right; if
\* it stays there for a second cycle it has been written already.
RegsInv ==
  /\ regs = ref.regs
  /\ ref.regs[0] = 0
  /\ dataM_nxt.valid /\ regwrite(instrW) => resultw = Result(ref, instrW)
  /\ ~dataM_nxt.valid /\ regwrite(instrW) /\ instrW.rd # 0 =>
       regs[instrW.rd] = resultw

\* What M holds: an address, the word to store, or a result.
MemoryStage ==
  dataE_nxt.valid =>
    /\ instrM.op \in {"LD", "SD"} =>
         dataE_nxt.aluout = Plus(refW.regs[instrM.rs1], instrM.imm)
    /\ instrM.op = "SD" => dataE_nxt.writedata = refW.regs[instrM.rs2]
    /\ regwrite(instrM) /\ ~memtoreg(instrM) =>
         dataE_nxt.aluout = Result(refW, instrM)

MemInv ==
  \/ mem = refW.mem
  \/ dataE_nxt.valid /\ memwrite(instrM) /\ mem = refM.mem

Writes(i, rs) == regwrite(i) /\ i.rd = rs

\* An operand E has read: right, unless M writes the register, or W does and
\* nothing stands between.
Read(rs, old) ==
  /\ rs = 0 => old = 0
  /\ /\ ~Writes(instrM, rs)
     /\ dataE_nxt.valid \/ ~Writes(instrW, rs)
     => old = refW.regs[rs]

ExecuteStage ==
  dataD_nxt.valid =>
    /\ instrE.op \notin {"JAL", "AUIPC"} => Read(instrE.rs1, dataD_nxt.srca)
    /\ instrE.op \notin {"JAL", "AUIPC", "JALR"} =>
         Read(instrE.rs2, dataD_nxt.srcb)
    /\ instrE.op = "AUIPC" => dataD_nxt.srca = dataD_nxt.pc
    /\ instrE.op \in {"JAL", "JALR"} => dataD_nxt.srcb = Plus(dataD_nxt.pc, 1)

\* The multi-cycle unit works on the operands E has now.
MultInv ==
  mult.doing => /\ multValid
                /\ mult.a = srca_hE /\ mult.b = select_srcb

RunInv ==
  /\ Bubbles
  /\ InOrder
  /\ FetchNext
  /\ RegsInv
  /\ MemoryStage
  /\ MemInv
  /\ ExecuteStage
  /\ MultInv

\* One cycle of reset empties the stages, the next one what depends on them.
ResetInv ==
  /\ left < ResetTicks =>
       /\ dataF_nxt = Fetch0 /\ dataD_nxt = Decode0
       /\ dataE_nxt = Execute0 /\ dataM_nxt = Memory0
       /\ pc = ResetPc
       /\ ref = [pc |-> ResetPc, regs |-> Regs0, mem |-> mem]
       /\ regs = Regs0
  /\ left < ResetTicks - 1 =>
       /\ branch_nxt = FALSE /\ pcbranch_nxt = 0
       /\ mult.doing = FALSE

CountInv == mult.doing => mult.count # 0

Inv ==
  /\ TypeOK
  /\ CountInv
  /\ PendingClean
  /\ IF reset THEN ResetInv ELSE RunInv
=============================================================================
