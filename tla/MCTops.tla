------------------------------- MODULE MCTops -------------------------------
(***************************************************************************)
(* Two tops with the same caches and arbiter, for TLC: VTop, on the burst  *)
(* memory of the simulator, and SocTop, on the crossbar, the block RAM and *)
(* the device of the FPGA.  An instance runs one of them; what only the    *)
(* other has keeps its first value, and that other stays in reset.         *)
(***************************************************************************)
EXTENDS MCVTop

CONSTANT BRAM_DELAY

VARIABLES
  top,  \* "VTop" or "SocTop"
  socLeft, douta, counter, real_valid, burst_counter, ready_read, last_read, device_ready, out

socVars == <<socLeft, douta, counter, real_valid, burst_counter, ready_read, last_read,
             device_ready, out>>
topsVars == <<top, vars, socVars>>

\* The device of the board is stored to as well.
SocFetches  == {At(t4, 0), At(t5, 1)}
SocRequests == MCRequests \cup {Store(At(io, 0), [l \in Lane |-> 1])}

Soc == INSTANCE SocTop WITH left <- socLeft, Fetches <- SocFetches, Requests <- SocRequests

ASSUME SocSizes == Soc!SocAssumption

TopsInit ==
  /\ top \in {"VTop", "SocTop"}
  /\ Init /\ Soc!Init

VTopCycle == top = "VTop" /\ Next /\ UNCHANGED <<top, socVars>>
SocTopCycle == top = "SocTop" /\ Soc!Next /\ UNCHANGED <<top, reset, left, tx, enable, passed>>

TopsSpec == TopsInit /\ [][VTopCycle \/ SocTopCycle]_topsVars

\* SocTop's MemoryRight (bram_wrapper.sv:19-68).
MemoryRight == Soc!MemoryRight
=============================================================================
