------------------------------ MODULE VCacheTop ------------------------------
(***************************************************************************)
(* The cache test bench (vsrc/VCacheTop.sv, verilate/vsrc/VCacheTop): a    *)
(* master that keeps a request until it is answered, the data cache, and   *)
(* the burst memory.  A Tick is one clock cycle of the three together, in  *)
(* the order of MyCache::_tick: the device answers from its registers, the *)
(* cache's outputs settle, the device reads the request, all registers     *)
(* change.                                                                 *)
(***************************************************************************)
EXTENDS DCache, CBusDevice

CONSTANTS
  Requests,    \* the requests the master may make
  IdleReqs,    \* what the master may drive without a request
  ResetTicks   \* cycles reset is held (100000 in MyCache::reset)

ASSUME RequestAssumption ==
  /\ Requests \subseteq DReq /\ \A r \in Requests : r.valid
  /\ IdleReqs \subseteq DReq /\ \A r \in IdleReqs : ~r.valid

\* One cycle to enter FLUSH and one for each set.
ASSUME ResetAssumption == ResetTicks \in Nat /\ ResetTicks > SetNum

VARIABLES
  left,   \* cycles of reset still to come
  rdata   \* the answer the master took last (DBus::await)

vars == <<dreq, reset, cacheVars, deviceVars, left, rdata>>

answer == dresp(cresp)

-----------------------------------------------------------------------------
(* The master: DBusGen::issue, await and clear                             *)

NextReq == Requests \cup IdleReqs \cup {[dreq EXCEPT !.valid = FALSE]}

Await ==
  /\ dreq.valid /\ ~answer.data_ok
  /\ UNCHANGED <<dreq, rdata>>

Accept ==
  /\ dreq.valid /\ answer.data_ok
  /\ rdata' = answer.data
  /\ dreq' \in NextReq

NoRequest ==
  /\ ~dreq.valid
  /\ dreq' \in NextReq
  /\ UNCHANGED rdata

-----------------------------------------------------------------------------
(* MyCache::reset, before every test case, wherever the last one stopped   *)

Restart ==
  /\ ~reset
  /\ reset' = TRUE
  /\ left' = ResetTicks
  /\ dreq' = DReq0
  /\ UNCHANGED <<cacheVars, deviceVars, rdata>>

\* The device takes no part, and is reset at the end.
ResetTick ==
  /\ ResetCycle(CResp0)
  /\ left' = left - 1
  /\ IF left' = 0 THEN reset' = FALSE /\ DeviceReset
                   ELSE UNCHANGED <<reset, deviceVars>>
  /\ UNCHANGED <<dreq, rdata>>

Tick ==
  /\ CacheCycle(cresp)
  /\ DeviceCycle(creq)
  /\ Await \/ Accept \/ NoRequest
  /\ UNCHANGED <<reset, left>>

Init ==
  /\ CacheInit
  /\ DeviceInit
  /\ dreq = DReq0
  /\ reset = TRUE
  /\ left = ResetTicks
  /\ rdata = Word0

Next == Restart \/ ResetTick \/ Tick

Spec == Init /\ [][Next]_vars

\* The clock runs, and the device is enabled in infinitely many cycles
\* (p_disable < 1).
Fairness ==
  /\ WF_vars(ResetTick)
  /\ WF_vars(Tick /\ enable')

FairSpec == Spec /\ Fairness

-----------------------------------------------------------------------------
(* What the cache and the memory hold                                      *)

\* Way w of the set of addr holds its line, complete.  While a line is being
\* filled it is not the cache's yet.
Holds(addr, w) ==
  /\ meta_ram[addr.index][w].valid
  /\ meta_ram[addr.index][w].tag = addr.tag
  /\ ~(state = "ALLOCATE" /\ addr.index = index /\ addr.tag = tag)

\* The word the master should see at addr.
View ==
  [addr \in Addr |->
     IF reset THEN InitMem[addr]
     ELSE IF \E w \in Way : Holds(addr, w)
          THEN data_ram[addr.index][LastOf({w \in Way : Holds(addr, w)})][addr.offset]
          ELSE mem[addr]]

\* Way w of set i holds, word for word, what memory has under its tag.
LineInMemory(i, w) ==
  \A o \in Offset :
    data_ram[i][w][o] = mem[[tag |-> meta_ram[i][w].tag, index |-> i, offset |-> o]]

-----------------------------------------------------------------------------
(* Properties                                                              *)

\* Every register and RAM of the bench keeps its type.
TypeOK ==
  /\ CacheTypeOK
  /\ DeviceTypeOK
  /\ left \in 0 .. ResetTicks
  /\ reset <=> left > 0
  /\ rdata \in Word

\* The cache implements the bus's promise: one memory, each access taking
\* effect exactly once, when it is answered (DCache.sv against cache_ref.cpp).
Memory == INSTANCE DBusMemory WITH ram <- View
ImplementsMemory == Memory!MemorySpec

\* No two ways of a set hold the same line, so that the loop that looks for
\* a hit has at most one match (DCache.sv:151-156).
UniqueTags ==
  ~reset => \A i \in Index : \A v, w \in Way :
    /\ meta_ram[i][v].valid /\ meta_ram[i][w].valid
    /\ meta_ram[i][v].tag = meta_ram[i][w].tag
    => v = w

\* A line that is valid and not dirty is the line in memory, unless it is
\* just being filled: dropping it without a write-back loses nothing
\* (DCache.sv:282-289).
CleanLineInMemory ==
  ~reset => \A i \in Index : \A w \in Way :
    /\ meta_ram[i][w].valid /\ ~meta_ram[i][w].dirty
    /\ ~(state = "ALLOCATE" /\ i = index /\ w = position)
    => LineInMemory(i, w)

\* When a way is given to another line, what it held is in memory: no dirty
\* word is lost between the write-back and the fill (DCache.sv:327-332).
NoDirtyLineLost ==
  [][\A i \in Index : \A w \in Way :
       /\ ~reset /\ ~reset' /\ meta_ram[i][w].valid
       /\ meta_ram'[i][w].tag # meta_ram[i][w].tag
       => LineInMemory(i, w)]_vars

\* A device address never gets into the cache: the hit test, which does not
\* look at addr[31], then never answers for a device (DCache.sv:191,273).
DevicesNotCached ==
  ~reset => \A i \in Index : \A w \in Way :
    meta_ram[i][w].valid => meta_ram[i][w].tag \notin IOTag

\* The request of a burst does not change until the burst ends, though
\* creq is computed from the live dreq and from meta_ram, which the first
\* ALLOCATE cycle changes (the asserts at cbus_device.cpp:39-43).
RequestStable == ~reset => RequestHeld(creq)

\* The cache and the device count the same beats: offset_cnt is the beat the
\* device serves, and is back at 0 when the fill follows a write-back
\* (DCache.sv:318,330 against axi.h:51-69).
BeatsAgree ==
  ~reset /\ state \in {"ALLOCATE", "WRITE_BACK"} =>
    offset_cnt = IF tx.busy THEN tx.n - 1 ELSE 0

\* In a full set exactly one way is old, so that the victim is chosen by age
\* and not by the default of the loop (DCache.sv:148,166-170).
OneVictim ==
  ~reset => \A i \in Index :
    (\A w \in Way : meta_ram[i][w].valid) => age_ram[i][0] # age_ram[i][1]

\* What has to hold together in every cycle of a miss: the victim, which is
\* looked up again in each of them, is one way and stays it, no line is there
\* twice, the request and the beats of the burst stay as the device has them,
\* and what is clean is in memory (DCache.sv:164-182,222-337).
CacheSound ==
  /\ TypeOK
  /\ UniqueTags
  /\ OneVictim
  /\ DevicesNotCached
  /\ RequestStable
  /\ BeatsAgree
  /\ CleanLineInMemory

\* In a full set the way used last is the young one until the other is used,
\* and the line given up is the old one's: never the line used last, however
\* many cycles the victim is looked up again in (DCache.sv:164-182).
LeastRecentlyUsed ==
  [][\A i \in Index :
       ~reset /\ ~reset' /\ (\A w \in Way : meta_ram[i][w].valid) =>
         /\ \A w \in Way : meta_ram'[i][w].tag # meta_ram[i][w].tag =>
              age_ram[i][w] = 1 /\ age_ram[i][1 - w] = 0
         /\ age_ram'[i] = IF i = index /\ hit
                         THEN [w \in Way |-> IF w = position THEN 0 ELSE 1]
                         ELSE age_ram[i]]_vars

\* After a reset no set holds a line: the counter that walks the sets has
\* seen them all (DCache.sv:212-217,350-351).
EmptyAfterReset ==
  ~reset /\ state = "FLUSH" =>
    \A i \in Index : \A w \in Way : ~meta_ram[i][w].valid

\* A device access is answered in the cycle the device performs it, so that
\* it is performed once for one request (DCache.sv:191,333-337).
DeviceAccessOnce ==
  [][/\ ~reset /\ ~reset' /\ enable /\ tx.busy /\ Uncached(tx.start)
     => Accept /\ dreq.addr = tx.start]_vars

\* A request for cached memory that is made again is answered again at once:
\* the line stays.  The pipeline repeats a request whose answer it cannot
\* take yet (stall.sv:56-59) and must not wait for ever.
AnsweredAgain ==
  [][/\ ~reset /\ ~reset' /\ dreq.valid /\ ~Uncached(dreq.addr)
     /\ answer.data_ok /\ dreq' = dreq
     => answer'.data_ok]_vars

\* A request is answered, unless the bench is reset.
Answered == dreq.valid ~> answer.data_ok \/ reset

\* Without a request the cache does nothing to the memory the master sees
\* (common.sv:196, "in request?").
NoRequestNoEffect == [][~dreq.valid /\ ~reset /\ ~reset' => View' = View]_vars
=============================================================================
