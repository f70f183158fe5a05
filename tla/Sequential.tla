----------------------------- MODULE Sequential -----------------------------
(***************************************************************************)
(* What the processor promises its programs: one instruction after the     *)
(* other, each completely done before the next begins.                     *)
(***************************************************************************)
EXTENDS Isa

CONSTANTS
  Programs,  \* the contents of instruction memory
  ResetPc,   \* where a reset starts
  InitMem    \* data memory at power-on

VARIABLES prog, machine

Boot(mem) == [pc |-> ResetPc, regs |-> [r \in Reg |-> 0], mem |-> mem]

MachineInit ==
  /\ prog \in Programs
  /\ machine = Boot(InitMem)

Step ==
  /\ machine' = Execute(machine, prog[machine.pc])
  /\ UNCHANGED prog

\* A reset keeps data memory as the program left it, up to a store or two
\* that were in flight.
Reboot ==
  /\ machine' = Boot(machine'.mem)
  /\ machine'.mem \in [Word -> Word]
  /\ UNCHANGED prog

MachineSpec == MachineInit /\ [][Step \/ Reboot]_<<prog, machine>>
=============================================================================
