---------------------------- MODULE VCacheTopInv ----------------------------
(***************************************************************************)
(* The inductive invariant behind the theorems of VCacheTopProofs, in      *)
(* named parts: one for the reset, one for the control of the cache and    *)
(* its bus, one for the data, one for what an idle master drives.          *)
(***************************************************************************)
EXTENDS VCacheTop

\* The types of everything but the observer.
Types ==
  /\ CacheTypeOK
  /\ DeviceTypeOK
  /\ left \in 0 .. ResetTicks
  /\ reset <=> left > 0

\* The master keeps a request until it is answered.
Master ==
  dreq' \in IF dreq.valid /\ ~answer.data_ok THEN {dreq} ELSE NextReq

\* What the cache may see of the device's answer: the data count only with a
\* word that is read.
Sees(r) ==
  /\ r.ready = cresp.ready /\ r.last = cresp.last
  /\ cresp.ready /\ ~tx.is_write => r.data = cresp.data

\* A Tick, but for what the master makes of the answer.
Cycle ==
  /\ \E r \in CResp : Sees(r) /\ CacheCycle(r)
  /\ DeviceCycle(creq)
  /\ Master

Empty(i) == \A w \in Way : ~meta_ram[i][w].valid

\* How many cycles ago the counter of a FLUSH was at set i (1 .. SetNum).
Since(i) ==
  LET c == offset_cnt % SetNum
  IN  IF i < c THEN c - i ELSE c - i + SetNum

\* After k cycles of reset the k - 1 sets the counter came from are empty.
ResetInv ==
  reset => \/ left = ResetTicks
           \/ /\ state = "FLUSH"
              /\ \A i \in Index : Since(i) < ResetTicks - left => Empty(i)

\* Out of IDLE the master is waiting, for memory or for a device.
Waiting ==
  state \in {"ALLOCATE", "WRITE_BACK", "SKIP"} =>
    dreq.valid /\ (Uncached(dreq.addr) <=> state = "SKIP")

\* A write-back still has its victim; a fill that has not claimed its way has
\* not begun on the bus.
Victim ==
  /\ state = "WRITE_BACK" =>
       ~hit /\ ram_rmeta[position].valid /\ ram_rmeta[position].dirty
  /\ state = "ALLOCATE" /\ ~hit => ~tx.busy

\* The running transaction is the cache's request.
Bus ==
  tx.busy => /\ creq.valid
             /\ creq.is_write = tx.is_write
             /\ creq.addr = tx.start
             /\ creq.len = tx.len
             /\ tx.n \in 1 .. tx.len

\* Two equal ages are zeros, of a set that holds nothing yet, or whose first
\* line is being filled into way 1.
AgesOld == \A i \in Index : age_ram[i][0] = 0 \/ age_ram[i][1] = 0
AgesRun ==
  \A i \in Index : age_ram[i][0] = age_ram[i][1] =>
    /\ ~meta_ram[i][0].valid
    /\ meta_ram[i][1].valid => state = "ALLOCATE" /\ i = index /\ hit

ControlInv ==
  /\ Waiting
  /\ EmptyAfterReset
  /\ UniqueTags
  /\ DevicesNotCached
  /\ Victim
  /\ Bus
  /\ BeatsAgree
  /\ AgesRun

\* The part of the invariant that needs nothing of the data.
ControlCore == Types /\ ResetInv /\ AgesOld /\ (~reset => ControlInv)

\* Words below the counter have reached memory.
WrittenSoFar ==
  state = "WRITE_BACK" =>
    \A o \in Offset : o < offset_cnt =>
      data_ram[index][position][o]
        = mem[[tag |-> ram_rmeta[position].tag, index |-> index, offset |-> o]]

\* What a fill is about to overwrite is in memory.
VictimSafe ==
  state = "ALLOCATE" /\ ~hit /\ ram_rmeta[position].valid =>
    LineInMemory(index, position)

\* Words below the counter have arrived.
FilledSoFar ==
  state = "ALLOCATE" /\ hit =>
    /\ ~ram_rmeta[position].dirty
    /\ \A o \in Offset : o < offset_cnt =>
         data_ram[index][position][o]
           = mem[[tag |-> tag, index |-> index, offset |-> o]]

LinesInv ==
  /\ CleanLineInMemory
  /\ WrittenSoFar
  /\ VictimSafe
  /\ FilledSoFar

\* With the data in the lines.
LinesCore == ControlCore /\ (~reset => LinesInv)

\* The master drives no strobe without a request, unless it is that of the
\* request it took back.
QuietMaster == \A r \in IdleReqs : r.strobe = {}

\* A store left on the bus without valid is one that was done.
IdleStoreDone ==
  ~dreq.valid /\ dreq.strobe # {} =>
    Merge(View[dreq.addr], dreq.strobe, dreq.data) = View[dreq.addr]

\* A reset finds the master quiet, and leaves it so.
ResetQuiet == reset => dreq = DReq0

Inv == LinesCore /\ ResetQuiet /\ (~reset => IdleStoreDone)
=============================================================================
