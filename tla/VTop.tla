-------------------------------- MODULE VTop --------------------------------
(***************************************************************************)
(* vsrc/VTop.sv without the core: the instruction cache, which is the data *)
(* cache behind IREQ_TO_DREQ (ICache.sv), the data cache and the arbiter,  *)
(* on a burst memory.  The core is two masters that keep a request until   *)
(* it is answered (RequestsHeld of Pipeline).  A Tick is one clock cycle   *)
(* of all of them.  The caches share the reset; nothing keeps what they    *)
(* hold coherent, so fetches and stores are to different lines.            *)
(***************************************************************************)
EXTENDS CBusDevice

CONSTANTS
  Fetches,     \* the addresses fetched from
  Requests,    \* the data requests made
  ResetTicks,  \* cycles reset is held
  MayRestart   \* whether reset may come while the system runs

\* No fetch is to a line that is stored to (there is no fence.i).
ASSUME FetchAssumption ==
  /\ Fetches \subseteq Addr
  /\ Requests \subseteq DReq /\ \A r \in Requests : r.valid
  /\ \A a \in Fetches, r \in Requests :
       r.strobe # {} => <<a.tag, a.index>> # <<r.addr.tag, r.addr.index>>

ASSUME ResetAssumption ==
  ResetTicks \in Nat /\ ResetTicks > SetNum /\ MayRestart \in BOOLEAN

VARIABLES
  reset, left,                                            \* cycles of reset left
  ireq, istate, ioffset_cnt, idata_ram, imeta_ram, iage_ram,  \* ICache
  dreq, dstate, doffset_cnt, ddata_ram, dmeta_ram, dage_ram,  \* DCache
  busy, index,                                            \* CBusArbiter
  passed   \* transactions granted to the data cache while a fetch waits

icacheVars  == <<istate, ioffset_cnt, idata_ram, imeta_ram, iage_ram>>
dcacheVars  == <<dstate, doffset_cnt, ddata_ram, dmeta_ram, dage_ram>>
arbiterVars == <<busy, index>>
vars == <<reset, left, ireq, icacheVars, dreq, dcacheVars, arbiterVars,
          deviceVars, passed>>

IReq  == [valid : BOOLEAN, addr : Addr]
IReq0 == [valid |-> FALSE, addr |-> Addr0]

IREQ_TO_DREQ(r) ==
  [valid |-> r.valid, addr |-> r.addr, strobe |-> {}, data |-> Word0]

I == INSTANCE DCache WITH dreq <- IREQ_TO_DREQ(ireq),
       state <- istate, offset_cnt <- ioffset_cnt, data_ram <- idata_ram,
       meta_ram <- imeta_ram, age_ram <- iage_ram

D == INSTANCE DCache WITH
       state <- dstate, offset_cnt <- doffset_cnt, data_ram <- ddata_ram,
       meta_ram <- dmeta_ram, age_ram <- dage_ram

Arbiter == INSTANCE CBusArbiter WITH NUM_INPUTS <- 2

-----------------------------------------------------------------------------
(* The wires: .ireqs({icreq, dcreq}), so the data cache is input 0         *)

icreq == I!creq
dcreq == D!creq
ireqs == [i \in {0, 1} |-> IF i = 0 THEN dcreq ELSE icreq]

oreq   == Arbiter!oreq(ireqs)
dcresp == Arbiter!iresps(cresp)[0]
icresp == Arbiter!iresps(cresp)[1]

iresp == I!dresp(icresp)
dresp == D!dresp(dcresp)

-----------------------------------------------------------------------------
(* The core: a fetch in every cycle, a data request now and then           *)

IMaster ==
  ireq' \in IF ireq.valid /\ ~iresp.data_ok THEN {ireq}
            ELSE [valid : {TRUE}, addr : Fetches]

DMaster ==
  dreq' \in IF dreq.valid /\ ~dresp.data_ok THEN {dreq}
            ELSE Requests \cup {D!DReq0}

\* Grants to the data cache while the instruction cache asks.
CountPassed ==
  passed' = IF ~icreq.valid \/ (busy /\ index = 1) THEN 0
            ELSE IF ~busy /\ dcreq.valid /\ passed < 3 THEN passed + 1
            ELSE passed

Tick ==
  /\ ~reset
  /\ I!CacheCycle(icresp)
  /\ D!CacheCycle(dcresp)
  /\ Arbiter!ArbiterCycle(ireqs, cresp)
  /\ DeviceCycle(oreq)
  /\ IMaster /\ DMaster
  /\ CountPassed
  /\ UNCHANGED <<reset, left>>

\* The memory keeps its words and forgets its transaction.
ResetTick ==
  /\ reset
  /\ I!ResetCycle(icresp)
  /\ D!ResetCycle(dcresp)
  /\ Arbiter!ArbiterReset
  /\ tx' = Tx0 /\ UNCHANGED <<mem, enable>>
  /\ left' = left - 1
  /\ reset' = (left' > 0)
  /\ ireq' = IReq0 /\ dreq' = D!DReq0
  /\ passed' = 0

Restart ==
  /\ MayRestart /\ ~reset
  /\ reset' = TRUE /\ left' = ResetTicks
  /\ UNCHANGED <<ireq, icacheVars, dreq, dcacheVars, arbiterVars, deviceVars, passed>>

Init ==
  /\ reset = TRUE /\ left = ResetTicks
  /\ ireq = IReq0 /\ dreq = D!DReq0
  /\ I!CacheInit /\ D!CacheInit
  /\ Arbiter!ArbiterInit
  /\ DeviceInit
  /\ passed = 0

Next == Tick \/ ResetTick \/ Restart

Spec == Init /\ [][Next]_vars

\* The clock never stops, and the memory is enabled in infinitely many cycles.
Fairness == []<><<TRUE>>_vars /\ []<>enable

FairSpec == Spec /\ Fairness

-----------------------------------------------------------------------------
(* Properties                                                              *)

\* Every register keeps its type.
TypeOK ==
  /\ left \in 0 .. ResetTicks
  /\ ireq \in IReq
  /\ I!CacheTypeOK /\ D!CacheTypeOK
  /\ busy \in BOOLEAN /\ index \in {0, 1}
  /\ DeviceTypeOK
  /\ passed \in 0 .. 3

\* The memory sees one request until it ends, whoever else asks meanwhile
\* (CBusArbiter.sv:31-32, "prevent early issue"; cbus_device.cpp:39-43).
RequestStable == ~reset => RequestHeld(oreq)

\* Each cache counts the beats of its own bursts and of no other's: while it
\* waits for the bus its counter stays at 0 (CBusArbiter.sv:48-57 against
\* DCache.sv:316-332).
BeatsAgree ==
  ~reset =>
    /\ istate \in {"ALLOCATE", "WRITE_BACK"} =>
         ioffset_cnt = IF tx.busy /\ index = 1 THEN tx.n - 1 ELSE 0
    /\ dstate \in {"ALLOCATE", "WRITE_BACK"} =>
         doffset_cnt = IF tx.busy /\ index = 0 THEN tx.n - 1 ELSE 0

\* The fixed priority starves nobody: a fetch is passed by a write-back and
\* the fill that follows it, and then the data cache spends a cycle in IDLE
\* (CBusArbiter.sv:36-45, DCache.sv:261-297).
PassedTwice == passed <= 2

\* Two caches share the bus: one transaction at a time, seen by its owner
\* alone, and neither waits for more than two of the other's
\* (CBusArbiter.sv:25-78).
BusShared == TypeOK /\ RequestStable /\ BeatsAgree /\ PassedTwice

\* What the data cache's master should see at an address: its cache first,
\* unless the line is still being filled.
dView ==
  [a \in Addr |->
     LET ways == {w \in D!Way : /\ dmeta_ram[a.index][w].valid
                                /\ dmeta_ram[a.index][w].tag = a.tag
                                /\ dstate = "ALLOCATE" =>
                                     <<a.tag, a.index>> # <<D!tag, D!index>>}
     IN IF ways # {} THEN ddata_ram[a.index][D!LastOf(ways)][a.offset] ELSE mem[a]]

\* Behind the arbiter the data cache is still one memory: an answered load
\* returns its word, an answered store changes it, and nothing else does,
\* whatever the fetches and the arbiter do meanwhile (VTop.sv:31-48).
DataRight ==
  [][~reset /\ ~reset' =>
       IF dreq.valid /\ dresp.data_ok
       THEN /\ dreq.strobe = {} => dresp.data = dView[dreq.addr]
            /\ dView' = [dView EXCEPT ![dreq.addr] = Merge(@, dreq.strobe, dreq.data)]
       ELSE dView' = dView]_vars

\* A fetch that is answered gets the word of the program.
FetchRight ==
  ~reset /\ ireq.valid /\ iresp.data_ok => iresp.data = InitMem[ireq.addr]

\* Every request of either master is answered, unless there is a reset.
Answered ==
  /\ ireq.valid ~> iresp.data_ok \/ reset
  /\ dreq.valid ~> dresp.data_ok \/ reset
=============================================================================
