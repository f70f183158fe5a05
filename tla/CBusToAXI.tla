----------------------------- MODULE CBusToAXI -----------------------------
(***************************************************************************)
(* vsrc/util/CBusToAXI.sv between a cache bus master and an AXI memory.    *)
(* A transaction issues on the address and data channels at once and ends  *)
(* when all of them have; the master is answered with the data channel, so *)
(* that its last answer may come while the address or the write response   *)
(* is still out.  The memory is any AXI subordinate: its handshakes come   *)
(* in whatever cycle it likes, and a write takes effect before its response.*)
(***************************************************************************)
EXTENDS CBus, Sequences, SequencesExt

CONSTANTS
  InitMem,   \* the memory behind AXI
  Requests   \* transactions the master may start, with the data of a beat

BridgeAssumption ==
  /\ SizeAssumption /\ TagAssumption /\ ByteAssumption
  /\ InitMem \in [Addr -> Word]
  /\ Requests \subseteq CReq /\ \A r \in Requests : r.valid

VARIABLES
  creq,         \* the master
  in_issue,     \* the channels of the transaction that have not ended
  saved_req,    \* the request, as issued
  count,        \* beats after the current one
  sig,          \* the memory's signals in this cycle: arready, rvalid...
  axi           \* the memory: words, the read it makes, the write it collects

bridgeVars == <<in_issue, saved_req, count>>
vars == <<creq, bridgeVars, sig, axi>>

Channel == {"AR", "R", "AW", "W", "B"}

-----------------------------------------------------------------------------
(* The AXI memory.  reads: beats still to come, NoRead before the address. *)

Signals == [arready : BOOLEAN, rvalid : BOOLEAN, awready : BOOLEAN,
            wready : BOOLEAN, bvalid : BOOLEAN]

\* AXI_BURST_WRAP from addr: the word of beat n, from 0.
BeatAddr(addr, n, len) ==
  IF len = 1 THEN addr ELSE [addr EXCEPT !.offset = (@ + n) % WordsPerLine]

\* A write that has its address and all its data is made.
Complete(a) == a.aw # <<>> /\ a.w # <<>> /\ Last(a.w).last

Written(a) ==
  LET req == a.aw[1]
      WriteBeat(m, n) ==
        [m EXCEPT ![BeatAddr(req.addr, n - 1, req.len)] = Merge(@, a.w[n].strobe, a.w[n].data)]
  IN  FoldLeftDomain(WriteBeat, a.mem, a.w)

\* What the memory can signal: data after the address, a response after the
\* write.
Possible(a) ==
  {s \in Signals : /\ s.rvalid => a.ar # <<>>
                   /\ s.bvalid => a.done}

\* The memory after a cycle with the given handshakes.
AxiCycle(handshake, wlast) ==
  LET taken ==
        [axi EXCEPT
           !.ar = IF "AR" \in handshake THEN <<saved_req>> ELSE
                  IF "R" \in handshake /\ axi.r + 1 = axi.ar[1].len THEN <<>> ELSE @,
           !.r  = IF "R" \in handshake
                  THEN IF axi.r + 1 = axi.ar[1].len THEN 0 ELSE @ + 1 ELSE @,
           !.aw = IF "AW" \in handshake THEN <<saved_req>> ELSE @,
           !.w  = IF "W" \in handshake
                  THEN Append(@, [data |-> creq.data, strobe |-> creq.strobe, last |-> wlast])
                  ELSE @,
           !.done = IF "B" \in handshake THEN FALSE ELSE @]
  IN  axi' = IF Complete(taken)
             THEN [taken EXCEPT !.mem = Written(taken), !.aw = <<>>, !.w = <<>>, !.done = TRUE]
             ELSE taken

-----------------------------------------------------------------------------
(* The bridge's wires                                                      *)

next_issue == IF creq.is_write THEN {"AW", "W", "B"} ELSE {"AR", "R"}

is_last == count = 0

\* Mutant: the bridge is free as soon as the data is through.
busyData == in_issue \cap {"R", "W"} # {}

busy == in_issue # {}

rlast == axi.ar # <<>> /\ axi.r + 1 = axi.ar[1].len

rdata == axi.mem[BeatAddr(axi.ar[1].addr, axi.r, axi.ar[1].len)]

handshake ==
  {c \in in_issue : CASE c = "AR" -> sig.arready [] c = "R" -> sig.rvalid
                      [] c = "AW" -> sig.awready [] c = "W" -> sig.wready
                      [] c = "B"  -> sig.bvalid}

ended == {c \in handshake : (c = "R" => rlast) /\ (c = "W" => is_last)}

\* What a master that reads the data of a write is told is not modelled.
cresp ==
  LET ready == handshake \cap {"W", "R"} # {}
  IN  [ready |-> ready,
       last  |-> ready /\ ("R" \in in_issue => rlast) /\ is_last,
       data  |-> IF "R" \in handshake THEN rdata ELSE Word0]

-----------------------------------------------------------------------------
(* A clock cycle                                                           *)

Bridge ==
  IF busy
  THEN /\ count' = IF cresp.ready /\ ~cresp.last THEN count - 1 ELSE count
       /\ in_issue' = in_issue \ ended
       /\ UNCHANGED saved_req
  ELSE /\ in_issue' = IF creq.valid THEN next_issue ELSE {}
       /\ saved_req' = creq
       /\ count' = creq.len - 1

\* The master keeps its request until the last beat is answered, with other
\* data for every beat of a write.
Master ==
  creq' \in IF creq.valid /\ ~cresp.last
            THEN IF creq.is_write /\ cresp.ready
                 THEN {[creq EXCEPT !.data = r.data] : r \in {r \in Requests : r.is_write}}
                 ELSE {creq}
            ELSE Requests \cup {[creq EXCEPT !.valid = FALSE]}

Tick ==
  /\ Bridge
  /\ AxiCycle(handshake, is_last)
  /\ Master
  /\ sig' \in Possible(axi')

Init ==
  /\ creq = [valid |-> FALSE, is_write |-> FALSE, addr |-> Addr0, strobe |-> {},
             data |-> Word0, len |-> 1]
  /\ in_issue = {} /\ saved_req = creq /\ count = 0
  /\ axi = [mem |-> InitMem, ar |-> <<>>, r |-> 0, aw |-> <<>>, w |-> <<>>, done |-> FALSE]
  /\ sig \in Possible(axi)

Next == Tick

Spec == Init /\ [][Next]_vars

-----------------------------------------------------------------------------
(* Properties                                                              *)

\* The device's memory is the AXI memory with the write that is under way.
Memory ==
  IF axi.w = <<>> THEN axi.mem ELSE Written([axi EXCEPT !.aw = <<saved_req>>])

InData == in_issue \cap {"R", "W"} # {}

\* The device is enabled in the cycles in which the data channel answers, and,
\* between transactions, in those in which the bridge takes a request.
Device == INSTANCE CBusDevice WITH
  mem <- Memory,
  tx <- IF InData
        THEN [busy |-> TRUE, is_write |-> "W" \in in_issue, start |-> saved_req.addr,
              len |-> saved_req.len, n |-> saved_req.len - count]
        ELSE [busy |-> FALSE, is_write |-> FALSE, start |-> Addr0, len |-> 0, n |-> 0],
  enable <- IF InData THEN cresp.ready ELSE ~busy

\* memory.h:86-88 "class CBusDevice should match the behavior of module
\* CBusToAXI": bridge and AXI memory are a CBusDevice, in their steps and in
\* every answer, whatever order the AXI channels end in.
MatchesDevice ==
  /\ Device!DeviceInit
  /\ [][Device!DeviceCycle(creq)]_vars
  /\ [](cresp = Device!cresp)
=============================================================================
