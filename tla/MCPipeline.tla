----------------------------- MODULE MCPipeline -----------------------------
(***************************************************************************)
(* Small instances of Pipeline for TLC: every program of four instructions *)
(* drawn from one of the pools, running round and round.                   *)
(***************************************************************************)
EXTENDS Pipeline

CONSTANT Pools  \* sets of instructions

I(op, rd, rs1, rs2, imm) ==
  [op |-> op, rd |-> rd, rs1 |-> rs1, rs2 |-> rs2, imm |-> imm]

\* Every distance from a result to its use, and fields that are not
\* registers but look like one (rs2 of ADDI and LD, rs1 and rs2 of AUIPC and LUI).
Operands ==
  {I("ADDI", 1, 1, 2, 1), I("ADD", 2, 1, 2, 0), I("LD", 1, 2, 1, 0),
   I("SD", 1, 2, 1, 1), I("AUIPC", 2, 2, 1, 1), I("LUI", 1, 1, 2, 2)}

\* Branches on results and on loads, forward and backward, and a load of x0.
Branches ==
  {I("ADDI", 1, 1, 0, 1), I("BEQ", 1, 1, 2, 2), I("JALR", 2, 1, 2, 1),
   I("JAL", 1, 1, 2, 3), I("LD", 1, 1, 1, 1), I("LD", 0, 2, 0, 0),
   I("SD", 0, 2, 1, 1)}

\* Multi-cycle instructions behind loads and stores and before them.
MultiCycle ==
  {I("ADDI", 1, 1, 0, 1), I("MUL", 2, 1, 1, 0), I("DIV", 1, 2, 1, 0),
   I("LD", 2, 1, 0, 0), I("SD", 0, 1, 2, 0)}

\* Programs are drawn from one pool at a time.
StraightPools == {Operands, MultiCycle}
BranchPools   == {Branches}

\* One of each kind, for liveness.
OneOfEach ==
  {{I("BEQ", 0, 1, 1, 2), I("MUL", 2, 1, 1, 0), I("LD", 1, 2, 0, 0)}}

MCPrograms == UNION {[Word -> pool] : pool \in Pools}
MCInitMem  == [a \in Word |-> WordSize - 1 - a]
=============================================================================
