----------------------------- MODULE CBusDevice -----------------------------
(***************************************************************************)
(* The burst memory behind a cache bus, verilate/vsrc/cbus_device.cpp with *)
(* include/axi.h and the BlockMemory of vsrc/memory.cpp.  In a cycle the   *)
(* device is enabled or not (p_disable), answers one beat of the running   *)
(* transaction (cresp), and starts a transaction only when none runs, so   *)
(* a request and its first answer are never in the same cycle.             *)
(***************************************************************************)
EXTENDS CBus

CONSTANT InitMem  \* the saved_mem that reset() restores

ASSUME InitMemAssumption == InitMem \in [Addr -> Word]

VARIABLES
  mem,     \* BlockMemory
  tx,      \* the running transaction (AXITransaction); tx.n is its beat
  enable   \* whether the device takes part in this cycle

deviceVars == <<mem, tx, enable>>

Tx == [busy : BOOLEAN, is_write : BOOLEAN, start : Addr,
       len : Nat, n : Nat]

\* AXITransaction.reset()
Tx0 == [busy |-> FALSE, is_write |-> FALSE, start |-> Addr0, len |-> 0, n |-> 0]

\* AXITransaction.init(), with busy and is_write.
TxOf(creq) ==
  [busy |-> TRUE, is_write |-> creq.is_write, start |-> creq.addr,
   len |-> creq.len, n |-> 1]

\* The address of the current beat: from the start address on, one word per
\* beat, wrapping at the line.
txAddr ==
  [tx.start EXCEPT !.offset = (tx.start.offset + tx.n - 1) % WordsPerLine]

txLast == tx.n = tx.len

\* eval_resp
cresp ==
  IF enable /\ tx.busy
  THEN [ready |-> TRUE, last |-> txLast,
        data |-> IF tx.is_write THEN Word0 ELSE mem[txAddr]]
  ELSE CResp0

\* eval_req and sync, for a request on the bus.
DeviceIdle(creq) ==
  /\ ~enable \/ (~tx.busy /\ ~creq.valid)
  /\ UNCHANGED <<mem, tx>>
  /\ enable' \in BOOLEAN

DeviceStart(creq) ==
  /\ enable /\ ~tx.busy /\ creq.valid
  /\ tx' = TxOf(creq)
  /\ UNCHANGED mem
  /\ enable' \in BOOLEAN

DeviceBeat(creq) ==
  /\ enable /\ tx.busy
  /\ tx' = IF txLast THEN Tx0 ELSE [tx EXCEPT !.n = @ + 1]
  /\ mem' = IF tx.is_write
            THEN [mem EXCEPT ![txAddr] = Merge(@, creq.strobe, creq.data)]
            ELSE mem
  /\ enable' \in BOOLEAN

DeviceCycle(creq) == DeviceIdle(creq) \/ DeviceStart(creq) \/ DeviceBeat(creq)

DeviceReset ==
  /\ mem' = InitMem
  /\ tx' = Tx0
  /\ UNCHANGED enable

DeviceInit ==
  /\ mem = InitMem
  /\ tx = Tx0
  /\ enable = TRUE

DeviceTypeOK ==
  /\ mem \in [Addr -> Word]
  /\ tx \in Tx
  /\ enable \in BOOLEAN

\* The checks of eval_req (asserts in cbus_device.cpp): while a transaction
\* runs, the request on the bus is still the one that started it.
RequestHeld(creq) ==
  enable /\ tx.busy =>
    /\ creq.valid
    /\ creq.is_write = tx.is_write
    /\ creq.addr = tx.start
    /\ creq.len = tx.len
=============================================================================
