---------------------------- MODULE MCTestMemory ----------------------------
(***************************************************************************)
(* Memory as the tests see it, for TLC: the one-line cache and the model   *)
(* it is compared with (RefCache), the pipelined bus with its queue of     *)
(* requests (DBusPipeline), memory cells used as variables (Cells), and    *)
(* the lanes of a word that loads and stores of every width touch          *)
(* (MemoryLanes).  The parts share no state: each has a memory of its own  *)
(* behind it, so an instance runs one of them, its part.                   *)
(***************************************************************************)
EXTENDS RefCache, TLC

CONSTANTS
  t0, t1,                                   \* tags of RefCache
  BusAddr, Dest, NoDest, Tasks, MaxQueue,   \* of DBusPipeline
  Handle, Array, Base, Sizeof, Value, Size, \* of Cells
  Data, CellWidth                           \* of MemoryLanes

VARIABLES
  part,  \* which part runs
  user, ongoing, busReq, busOk, busMem, dests, busFailed, expected,
  addr, allocated, cellMem, aborted, val,
  word, bytes, got, want

busVars == <<user, ongoing, busReq, busOk, busMem, dests, busFailed, expected>>
cellVars == <<addr, allocated, cellMem, aborted, val>>
laneVars == <<word, bytes, got, want>>
allVars == <<part, vars, busVars, cellVars, laneVars>>

-----------------------------------------------------------------------------
(* RefCache: two lines of four words, of which a test uses a first, a      *)
(* middle and a last word.                                                 *)

Both(v) == [l \in Lane |-> v]
At(t, o) == [tag |-> t, index |-> 0, offset |-> o]
MCInitMem == [a \in Addr |-> Both(IF a.offset = 1 THEN 1 ELSE 0)]
MCAccesses ==
  {[addr |-> a, strobe |-> s, data |-> Both(v)] :
     a \in {At(t0, 0), At(t0, 3), At(t1, 2)}, s \in {{}, {0}, Lane}, v \in Byte}

-----------------------------------------------------------------------------
(* DBusPipeline: two addresses, and tasks that hit each other: whole and   *)
(* partial stores, loads of both, expectations that hold or fail with what *)
(* came before, and a load that discards its word.                         *)

Pair(x, y) == [l \in Lane |-> IF l = 0 THEN x ELSE y]
Store(a, s, w)   == [addr |-> a, strobe |-> s, data |-> w, dest |-> "none", mask |-> Lane]
Load(a, d, m)    == [addr |-> a, strobe |-> {}, data |-> Pair(0, 0), dest |-> d, mask |-> m]
Expect(a, m, w)  == [addr |-> a, strobe |-> {}, data |-> w, dest |-> "none", mask |-> m]

MCTasks ==
  {Store("a", Lane, Pair(1, 0)), Store("a", {1}, Pair(0, 1)), Store("b", {0}, Pair(0, 1)),
   Load("a", "d", Lane), Load("b", "d", {0}),
   Expect("a", {1}, Pair(0, 1)), Expect("b", {}, Pair(0, 0))}

Bus == INSTANCE DBusPipeline WITH
         Addr <- BusAddr, dreq <- busReq, data_ok <- busOk, mem <- busMem, failed <- busFailed

-----------------------------------------------------------------------------
(* Cells: an array of two bytes behind three for the factory, a local half *)
(* word and a local byte.                                                  *)

MCHandles == {"x0", "x1", "half", "byte"}
MCArray == ("x0" :> 0) @@ ("x1" :> 1)
MCSizeof == [h \in MCHandles |-> IF h = "half" THEN 2 ELSE 1]

\* Words that tell a half word's bytes apart.
MCValues == {[i \in 0 .. 7 |-> 0], [i \in 0 .. 7 |-> IF i = 0 THEN 1 ELSE 2]}

Cell == INSTANCE Cells WITH Width <- Sizeof, offset <- allocated, mem <- cellMem

-----------------------------------------------------------------------------
(* MemoryLanes: bytes with and without their top bit, in patterns that     *)
(* tell the lanes apart, and cells of up to four bytes.                    *)

MCData ==
  {[l \in 0 .. 7 |-> 0],
   [l \in 0 .. 7 |-> IF l = 0 THEN 200 ELSE 0],
   [l \in 0 .. 7 |-> IF l % 2 = 1 THEN 200 ELSE 0]}

Lanes == INSTANCE MemoryLanes WITH mem <- word

ASSUME SuiteAssumption ==
  Bus!TasksAssumption /\ Cell!CellsAssumption /\ Lanes!LanesAssumption

-----------------------------------------------------------------------------
(* The parts                                                               *)

\* The parts that do not run have one first state.
AllInit ==
  /\ part \in {"line", "bus", "cells", "lanes"}
  /\ part # "bus" => busMem = [a \in BusAddr |-> Both(0)] /\ busOk = FALSE
  /\ part # "cells" => cellMem = [b \in 0 .. Size - 1 |-> 0]
  /\ Init /\ Bus!Init /\ Cell!Init /\ Lanes!Init

LinePart == part = "line" /\ Next /\ UNCHANGED <<part, busVars, cellVars, laneVars>>
BusTick == part = "bus" /\ Bus!Tick /\ UNCHANGED <<part, vars, cellVars, laneVars>>
BusCall == part = "bus" /\ Bus!Call /\ UNCHANGED <<part, vars, cellVars, laneVars>>
CellPart == part = "cells" /\ Cell!Next /\ UNCHANGED <<part, vars, busVars, laneVars>>
LanePart == part = "lanes" /\ Lanes!Next /\ UNCHANGED <<part, vars, busVars, cellVars>>

\* A failed expectation aborts the test, and so does a half word allocated
\* behind a byte; nothing else stops.
Aborted ==
  /\ (part = "bus" /\ busFailed) \/ (part = "cells" /\ aborted)
  /\ UNCHANGED allVars

AllNext == LinePart \/ BusTick \/ BusCall \/ CellPart \/ LanePart \/ Aborted

\* The fairness of DBusPipeline's FairSpec.
AllSpec ==
  /\ AllInit /\ [][AllNext]_allVars
  /\ WF_allVars(BusTick /\ busOk')
  /\ WF_allVars(BusCall /\ ~busFailed /\ Bus!FenceReturns)

-----------------------------------------------------------------------------
(* Properties of the parts                                                 *)

\* DBusPipeline's InOrder (bus.h:647-687,862-867).
InOrder == Bus!InOrder

\* DBusPipeline's CallsReturn (bus.h:570-612,632-635,789-802): inside
\* DBusPipeline the leads-to, so that it is about this part alone.
CallsReturn ==
  user \in {"fence", "destroy", "await"} ~>
    busFailed \/ (user \in {"free", "none"} /\ ~busReq.valid)

\* Cells's ReadsAsVariables (cell.h:129-302).
ReadsAsVariables == Cell!ReadsAsVariables

\* MemoryLanes's StoresRight (writedata.sv:16-108, bus.h:69-187,517-541).
StoresRight == Lanes!StoresRight

\* MemoryLanes's LoadsRight (readdata.sv:24-115, bus.h:190-260,493-509).
LoadsRight == Lanes!LoadsRight
=============================================================================
