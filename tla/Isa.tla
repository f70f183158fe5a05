--------------------------------- MODULE Isa ---------------------------------
(***************************************************************************)
(* The instructions as the pipeline tells them apart, and the reference    *)
(* machine that executes them one at a time.  One instruction stands for   *)
(* each group that decode.sv, control.sv, forward.sv and stall.sv treat    *)
(* alike: ADDI for the register-immediate group, ADD for the register-     *)
(* register one, BEQ for the six branches, LD and SD for loads and stores  *)
(* of every size, MUL and DIV for the multi-cycle ones.  Addresses count   *)
(* instructions and words; words wrap at WordSize as the code's at 2^64.   *)
(***************************************************************************)
EXTENDS Integers

CONSTANTS
  WordSize,  \* 2^64 in the code
  RegNum     \* 32 in the code

ASSUME WordAssumption == WordSize \in Nat \ {0}
ASSUME RegAssumption  == RegNum \in Nat \ {0}

Word == 0 .. WordSize - 1
Reg  == 0 .. RegNum - 1

Op == {"UNKNOWN", "ADDI", "ADD", "LUI", "AUIPC", "JAL", "JALR", "BEQ",
       "LD", "SD", "MUL", "DIV"}

\* The fields sit at fixed bits, so that every instruction has all of them:
\* where the format has no rs2, say, rs2 holds bits of the immediate.
Instr == [op : Op, rd : Reg, rs1 : Reg, rs2 : Reg, imm : Word]

\* The instruction register cleared to zero.
Instr0 == [op |-> "UNKNOWN", rd |-> 0, rs1 |-> 0, rs2 |-> 0, imm |-> 0]

Plus(x, y)  == (x + y) % WordSize
Times(x, y) == (x * y) % WordSize

\* Division by zero gives all ones.
Quotient(x, y) == IF y = 0 THEN WordSize - 1 ELSE x \div y

-----------------------------------------------------------------------------
(* The control signals of control.sv                                       *)

regwrite(i) == i.op \notin {"UNKNOWN", "BEQ", "SD"}
memwrite(i) == i.op = "SD"
memtoreg(i) == i.op = "LD"   \* and memread
alusrc(i)   == i.op \in {"ADDI", "LUI", "AUIPC", "LD", "SD"}

-----------------------------------------------------------------------------
(* The reference machine of the difftest bench                             *)

Machine == [pc : Word, regs : [Reg -> Word], mem : [Word -> Word]]

\* What instruction i writes to rd.
Result(s, i) ==
  LET x == s.regs[i.rs1]
      y == s.regs[i.rs2]
  IN CASE i.op = "ADDI"            -> Plus(x, i.imm)
       [] i.op = "ADD"             -> Plus(x, y)
       [] i.op = "LUI"             -> i.imm
       [] i.op = "AUIPC"           -> Plus(s.pc, i.imm)
       [] i.op \in {"JAL", "JALR"} -> Plus(s.pc, 1)
       [] i.op = "LD"              -> s.mem[Plus(x, i.imm)]
       [] i.op = "MUL"             -> Times(x, y)
       [] i.op = "DIV"             -> Quotient(x, y)
       [] OTHER                    -> 0

NextPc(s, i) ==
  LET x == s.regs[i.rs1]
      y == s.regs[i.rs2]
  IN CASE i.op = "JALR"                               -> Plus(x, i.imm)
       [] i.op = "JAL" \/ (i.op = "BEQ" /\ x = y)     -> Plus(s.pc, i.imm)
       [] OTHER                                       -> Plus(s.pc, 1)

\* The machine after instruction i.
Execute(s, i) ==
  [pc   |-> NextPc(s, i),
   regs |-> IF regwrite(i) /\ i.rd # 0
            THEN [s.regs EXCEPT ![i.rd] = Result(s, i)] ELSE s.regs,
   mem  |-> IF memwrite(i)
            THEN [s.mem EXCEPT ![Plus(s.regs[i.rs1], i.imm)] = s.regs[i.rs2]]
            ELSE s.mem]
=============================================================================
