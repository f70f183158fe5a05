----------------------------- MODULE CBusArbiter -----------------------------
(***************************************************************************)
(* vsrc/util/CBusArbiter.sv: NUM_INPUTS masters share one cache bus.  A    *)
(* granted master keeps the bus for a whole transaction; an idle cycle     *)
(* grants it to the first input that asks.  saved_req is written and never *)
(* read, and is left out.                                                  *)
(***************************************************************************)
EXTENDS CBus

CONSTANT NUM_INPUTS  \* at least 1

VARIABLES busy, index

Input == 0 .. NUM_INPUTS - 1

CReq0 == [valid |-> FALSE, is_write |-> FALSE, addr |-> Addr0,
          strobe |-> {}, data |-> Word0, len |-> 1]

select(ireqs) ==
  IF \E i \in Input : ireqs[i].valid
  THEN CHOOSE i \in Input : ireqs[i].valid /\ \A j \in Input : ireqs[j].valid => i <= j
  ELSE 0

oreq(ireqs) == IF busy THEN ireqs[index] ELSE CReq0

\* Mutant: every master sees the answer.
irespsAll(oresp) == [i \in Input |-> IF busy THEN oresp ELSE CResp0]

iresps(oresp) == [i \in Input |-> IF busy /\ index = i THEN oresp ELSE CResp0]

Grant(ireqs) ==
  /\ ~busy
  /\ busy' = ireqs[select(ireqs)].valid
  /\ index' = select(ireqs)

\* Mutant: the bus is given back after every beat.
ReleaseBeat(oresp) ==
  /\ busy
  /\ busy' = ~oresp.ready
  /\ UNCHANGED index

Release(oresp) ==
  /\ busy
  /\ busy' = ~oresp.last
  /\ UNCHANGED index

ArbiterCycle(ireqs, oresp) == Grant(ireqs) \/ Release(oresp)

\* Mutant: the grant survives a reset.
ArbiterResetKeep == index' = 0 /\ UNCHANGED busy

ArbiterReset == busy' = FALSE /\ index' = 0

ArbiterInit == busy = FALSE /\ index = 0
=============================================================================
