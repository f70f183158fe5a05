----------------------------- MODULE MemoryLanes -----------------------------
(***************************************************************************)
(* Sub-word accesses, as four units make them to one 64-bit word: the      *)
(* core's memory stage (memory.sv, readdata.sv, writedata.sv), the bench's *)
(* DBus (bus.h, loadb to loadd), its pipeline of requests, and the memory  *)
(* cells of cell.h on top of both.  Whoever stores and whoever loads, the  *)
(* bytes are those of a byte-addressed, little-endian memory.  The core    *)
(* and the pipeline refuse misaligned accesses; DBus and the cells do not  *)
(* look, and an access of theirs goes to the block its address lies in.    *)
(***************************************************************************)
EXTENDS LoadOp

CONSTANTS
  Data,       \* register values and the contents of variables
  CellWidth   \* widths of the cells used on top of the pipeline

\* A cell on the pipeline is read through a uint32_t (cell.h:115).
LanesAssumption ==
  /\ Data \subseteq [BusLane -> 0 .. 255]
  /\ CellWidth \subseteq Width /\ \A w \in CellWidth : w <= 4

VARIABLES
  mem,    \* the word
  bytes,  \* observer: the byte-addressed memory
  got,    \* what the last access returned if it was a load: by, value
  want    \* what it should have returned

vars == <<mem, bytes, got, want>>

Addr == BusLane  \* addr[2:0]

-----------------------------------------------------------------------------
(* memory.sv                                                               *)

\* read_addr_exc, write_addr_exc
addr_exc(w, addr) == addr % w # 0

\* Mutant: the sign is taken from the whole word's top byte.
signBitTop(rd, w, addr, mem_unsigned) == ~mem_unsigned /\ rd[7] >= 128

sign_bit(rd, w, addr, mem_unsigned) == ~mem_unsigned /\ rd[addr + w - 1] >= 128

\* readdata.sv
readdata(rd, w, addr, mem_unsigned) ==
  [l \in BusLane |-> IF l < w THEN rd[addr + l]
                  ELSE IF sign_bit(rd, w, addr, mem_unsigned) THEN 255 ELSE 0]

\* writedata.sv
writedata(wd, w, addr) ==
  LET s == {l \in BusLane : addr <= l /\ l < addr + w}
  IN  [strobe |-> s, data |-> [l \in BusLane |-> IF l \in s THEN wd[l - addr] ELSE 0]]

-----------------------------------------------------------------------------
(* Accesses.  Stored and Loaded say what the observer sees.                *)

Nothing == [by |-> "nobody", value |-> Zero]

Stored(w, addr, v) ==
  /\ bytes' = [l \in BusLane |-> IF addr <= l /\ l < addr + w THEN v[l - addr] ELSE bytes[l]]
  /\ got' = Nothing /\ want' = Zero

\* The first of the w bytes that an access which is not checked reaches.
Block(w, addr) == addr - (addr % w)

BytesAt(w, addr) == [l \in BusLane |-> IF l < w THEN bytes[addr + l] ELSE 0]

Loaded(who, value, expected) ==
  /\ got' = [by |-> who, value |-> value]
  /\ want' = expected
  /\ UNCHANGED <<mem, bytes>>

\* A misaligned access makes no request (memory.sv:27).
CoreStore(w, addr, v) ==
  /\ ~addr_exc(w, addr)
  /\ LET d == writedata(v, w, addr) IN mem' = MergeLanes(mem, d.strobe, d.data)
  /\ Stored(w, addr, v)

CoreLoad(w, addr, mem_unsigned) ==
  /\ ~addr_exc(w, addr)
  /\ Loaded("core", readdata(mem, w, addr, mem_unsigned),
            LET b == BytesAt(w, addr)
            IN  [l \in BusLane |-> IF l < w THEN b[l]
                                ELSE IF ~mem_unsigned /\ b[w - 1] >= 128 THEN 255 ELSE 0])

\* storeb to stored of DBusGen, and MemoryCellGen::set: no check.
BenchStore(w, addr, v) ==
  /\ LET op == parse(w, addr) IN mem' = MergeLanes(mem, strobe(op), place(op, v))
  /\ Stored(w, Block(w, addr), v)

\* loadb to loadd of DBusGen.
BenchLoad(w, addr) ==
  Loaded("dbus", Low(w, apply(parse(w, addr), mem)), BytesAt(w, Block(w, addr)))

\* storeb to stored of DBusPipelineGen, which asserts alignment.
PipelineStore(w, addr, v) == addr % w = 0 /\ BenchStore(w, addr, v)

\* loadb to loadd of DBusPipelineGen: bytes of a variable of the caller.
PipelineLoad(w, addr, dest) ==
  /\ addr % w = 0
  /\ Loaded("pipeline", applyTo(parse(w, addr), mem, dest),
            [l \in BusLane |-> IF l < w THEN bytes[addr + l] ELSE dest[l]])

\* MemoryCellGen::get on DBus: the word is converted to T.  (A single cell's
\* constructor asserts alignment, an array's elements are not checked.)
CellGet(w, addr) ==
  Loaded("cell", Low(w, apply(parse(w, addr), mem)), BytesAt(w, Block(w, addr)))

\* MemoryCellGen::get on the pipeline: through a uint32_t that holds
\* anything before.
PipelineCellGet(w, addr, garbage) ==
  Loaded("cell", Low(w, Low(4, applyTo(parse(w, addr), mem, garbage))),
         BytesAt(w, Block(w, addr)))

Init ==
  /\ mem = Zero /\ bytes = Zero
  /\ got = Nothing /\ want = Zero

Next ==
  \E addr \in Addr, w \in Width :
    \/ \E v \in Data : CoreStore(w, addr, v) \/ BenchStore(w, addr, v) \/ PipelineStore(w, addr, v)
    \/ \E u \in BOOLEAN : CoreLoad(w, addr, u)
    \/ BenchLoad(w, addr)
    \/ CellGet(w, addr)
    \/ \E v \in Data : PipelineLoad(w, addr, v)
    \/ \E v \in Data : w \in CellWidth /\ PipelineCellGet(w, addr, v)

Spec == Init /\ [][Next]_vars

-----------------------------------------------------------------------------
(* Properties                                                              *)

\* A store of any unit and width changes, in place, the bytes of the aligned
\* block of its width that holds its address, and no other byte of the word.
\* For an aligned store these are its own bytes.  A misaligned one, which only
\* DBus and cells make, is moved down: a half word stored at byte 1 is in
\* bytes 0 and 1 (writedata.sv:16-108, bus.h:69-187,517-541).
StoresRight == mem = bytes

\* A load of any unit and width returns the bytes stored last, by whichever
\* unit, in the aligned block of its width that holds its address, which is
\* where it asked if it is aligned, extended as the unit promises
\* (readdata.sv:24-115, bus.h:190-260,493-509).
LoadsRight == got.value = want
=============================================================================
