------------------------------- MODULE LoadOp -------------------------------
(***************************************************************************)
(* verilate/include/bus.h, class LoadOp: where the bytes of an access of   *)
(* 1, 2, 4 or 8 bytes lie in a 64-bit bus word.  A word is a function from *)
(* its eight byte lanes; an operation is its width and its shift in bytes  *)
(* (SIZE2_SHT16 is width 2, shift 2).                                      *)
(***************************************************************************)
EXTENDS Integers

BusLane == 0 .. 7
Width   == {1, 2, 4, 8}
Zero    == [l \in BusLane |-> 0]

DISCARD    == [width |-> 0, sht |-> 0]
SIZE8_SHT0 == [width |-> 8, sht |-> 0]

\* Mutant: halfwords are looked up by the third address bit alone.
parseHalf(w, addr) ==
  [width |-> w, sht |-> IF w = 2 THEN (addr % 8) - (addr % 4) ELSE (addr % 8) - (addr % w)]

\* parse<Width>: the address is rounded down to the width.
parse(w, addr) == [width |-> w, sht |-> (addr % 8) - (addr % w)]

\* strobe() and mask(): the lanes of the access.
strobe(op) == {l \in BusLane : op.sht <= l /\ l < op.sht + op.width}

\* place(): data << shift.
place(op, data) == [l \in BusLane |-> IF l >= op.sht THEN data[l - op.sht] ELSE 0]

\* apply(): data >> shift; nothing masks what lies above the width.
apply(op, data) ==
  IF op = DISCARD THEN Zero
  ELSE [l \in BusLane |-> IF l + op.sht <= 7 THEN data[l + op.sht] ELSE 0]

\* apply(data, dest): the cases fall through, each writing its low bytes
\* again; what dest holds above the width stays.
applyTo(op, data, dest) ==
  [l \in BusLane |-> IF l < op.width THEN apply(op, data)[l] ELSE dest[l]]

\* Conversion to an unsigned integer of w bytes, and back to 64 bits.
Low(w, data) == [l \in BusLane |-> IF l < w THEN data[l] ELSE 0]

\* What a store with a strobe leaves in a word.
MergeLanes(old, s, data) == [l \in BusLane |-> IF l \in s THEN data[l] ELSE old[l]]
=============================================================================
