----------------------------- MODULE VTopProofs -----------------------------
(***************************************************************************)
(* Theorems about VTop, for every value of the constants.  What each cache *)
(* has of the arbiter and the memory behind it is the test bench's memory, *)
(* enabled in the cycles in which the bus is granted to it: so each is the *)
(* cache of VCacheTop, whose lemmas are taken from there (DC and IC).  The *)
(* instruction cache never writes, and nobody else writes where it reads,  *)
(* so that its memory is the first one.                                    *)
(***************************************************************************)
EXTENDS MCTops, TLAPS

Fetch == {IREQ_TO_DREQ(r) : r \in [valid : {TRUE}, addr : Fetches]}

DC == INSTANCE VCacheTopProofs WITH
        state <- dstate, offset_cnt <- doffset_cnt, data_ram <- ddata_ram,
        meta_ram <- dmeta_ram, age_ram <- dage_ram,
        tx <- IF busy /\ index = 0 THEN tx ELSE Tx0,
        enable <- enable /\ busy /\ index = 0,
        IdleReqs <- {DReq0}, rdata <- Word0

IC == INSTANCE VCacheTopProofs WITH
        dreq <- IREQ_TO_DREQ(ireq), state <- istate, offset_cnt <- ioffset_cnt,
        data_ram <- idata_ram, meta_ram <- imeta_ram, age_ram <- iage_ram,
        tx <- IF busy /\ index = 1 THEN tx ELSE Tx0,
        enable <- enable /\ busy /\ index = 1, mem <- InitMem,
        Requests <- Fetch, IdleReqs <- {DReq0}, rdata <- Word0

-----------------------------------------------------------------------------
(* The invariant                                                           *)

\* What the masters ask.
Asked ==
  /\ dreq \in Requests \cup {DReq0}
  /\ ireq \in [valid : {TRUE}, addr : Fetches] \cup {IReq0}

\* The bus is granted to a cache that asks, and a transaction runs for it.
Granted ==
  /\ busy \in BOOLEAN /\ index \in {0, 1}
  /\ ~busy => tx = Tx0
  /\ ~reset /\ busy => ireqs[index].valid

\* Some store is to line t of set i.
StoredTo(t, i) ==
  \E r \in Requests : r.strobe # {} /\ r.addr.tag = t /\ r.addr.index = i

\* Only lines that are stored to are ever written back, and the instruction
\* cache has none.
Untouched ==
  /\ \A a \in Addr : ~StoredTo(a.tag, a.index) => mem[a] = InitMem[a]
  /\ \A i \in Index : \A w \in D!Way :
       /\ ~imeta_ram[i][w].dirty
       /\ dmeta_ram[i][w].dirty => StoredTo(dmeta_ram[i][w].tag, i)

\* Who has passed a waiting fetch is writing back or filling, or has done so.
Passing ==
  /\ passed \in 0 .. 2
  /\ ~reset /\ passed > 0 /\ ~(busy /\ index = 1) =>
       /\ busy => passed = 1 \/ dstate = "ALLOCATE"
       /\ ~busy => dstate = "IDLE" \/ (dstate = "ALLOCATE" /\ passed = 1)

Inv ==
  /\ Asked /\ Granted /\ Untouched /\ Passing
  /\ mem \in [Addr -> Word] /\ enable \in BOOLEAN
  /\ DC!ControlCore /\ IC!ControlCore
  /\ ~reset => DC!LinesInv /\ IC!LinesInv

-----------------------------------------------------------------------------
(* The copies of the definitions that the instances have are the same      *)

LEMMA SameData ==
  /\ D!Addr = Addr /\ DC!Addr = Addr /\ IC!Addr = Addr
  /\ D!Word = Word /\ DC!Word = Word /\ IC!Word = Word
  /\ D!DReq = DReq /\ DC!DReq = DReq /\ IC!DReq = DReq
  /\ D!DReq0 = DReq0 /\ DC!DReq0 = DReq0 /\ IC!DReq0 = DReq0
  /\ DC!Index = Index /\ IC!Index = Index /\ D!Index = Index
  /\ DC!Offset = Offset /\ IC!Offset = Offset
  /\ DC!Way = D!Way /\ IC!Way = D!Way
  /\ DC!CResp = CResp /\ IC!CResp = CResp
  /\ DC!CResp0 = CResp0 /\ IC!CResp0 = CResp0
  /\ DC!Tx = Tx /\ IC!Tx = Tx /\ DC!Tx0 = Tx0 /\ IC!Tx0 = Tx0
  BY DEF Addr, D!Addr, DC!Addr, IC!Addr, Index, D!Index, DC!Index, IC!Index,
         Offset, D!Offset, DC!Offset, IC!Offset, Word, D!Word, DC!Word, IC!Word,
         DReq, D!DReq, DC!DReq, IC!DReq, Strobe, D!Strobe, DC!Strobe, IC!Strobe,
         DReq0, D!DReq0, DC!DReq0, IC!DReq0, Addr0, D!Addr0, DC!Addr0, IC!Addr0,
         Word0, D!Word0, DC!Word0, IC!Word0, D!Way, DC!Way, IC!Way,
         CResp, DC!CResp, IC!CResp, CResp0, DC!CResp0, IC!CResp0,
         Tx, DC!Tx, IC!Tx, Tx0, DC!Tx0, IC!Tx0

LEMMA SameDCache ==
  /\ \A r : D!CacheCycle(r) <=> DC!CacheCycle(r)
  /\ \A r : D!ResetCycle(r) <=> DC!ResetCycle(r)
  /\ D!creq = DC!creq
  /\ \A r : D!dresp(r) = DC!dresp(r)
  /\ D!CacheTypeOK <=> DC!CacheTypeOK
  BY DEF
    D!CacheCycle, D!ResetCycle, D!Flush, D!Idle, D!StartSkip, D!StartMiss, D!Allocate,
    D!WriteBack, D!Skip, D!Rams, D!TouchAges, D!ClearSet, D!WriteWord, D!StoreHit,
    D!FillWord, D!KeepRams, D!Uncached, D!Merge, D!hit, D!hitWays, D!Way, D!ram_rmeta,
    D!meta_addr, D!index, D!tag, D!offset, D!position, D!LastOf, D!victims, D!ram_rage,
    D!wage, D!cnt_nxt, D!Meta0, D!creq, D!creq_addr, D!ram_rdata, D!dresp, D!Addr0,
    D!CacheTypeOK, D!States, D!Meta, D!DReq, D!Addr, D!Index, D!Offset, D!Word, D!Strobe,
    DC!CacheCycle, DC!ResetCycle, DC!Flush, DC!Idle, DC!StartSkip, DC!StartMiss, DC!Allocate,
    DC!WriteBack, DC!Skip, DC!Rams, DC!TouchAges, DC!ClearSet, DC!WriteWord, DC!StoreHit,
    DC!FillWord, DC!KeepRams, DC!Uncached, DC!Merge, DC!hit, DC!hitWays, DC!Way, DC!ram_rmeta,
    DC!meta_addr, DC!index, DC!tag, DC!offset, DC!position, DC!LastOf, DC!victims, DC!ram_rage,
    DC!wage, DC!cnt_nxt, DC!Meta0, DC!creq, DC!creq_addr, DC!ram_rdata, DC!dresp, DC!Addr0,
    DC!CacheTypeOK, DC!States, DC!Meta, DC!DReq, DC!Addr, DC!Index, DC!Offset, DC!Word, DC!Strobe

LEMMA SameICache ==
  /\ \A r : I!CacheCycle(r) <=> IC!CacheCycle(r)
  /\ \A r : I!ResetCycle(r) <=> IC!ResetCycle(r)
  /\ I!creq = IC!creq
  /\ \A r : I!dresp(r) = IC!dresp(r)
  /\ I!CacheTypeOK <=> IC!CacheTypeOK
  BY DEF
    I!CacheCycle, I!ResetCycle, I!Flush, I!Idle, I!StartSkip, I!StartMiss, I!Allocate,
    I!WriteBack, I!Skip, I!Rams, I!TouchAges, I!ClearSet, I!WriteWord, I!StoreHit,
    I!FillWord, I!KeepRams, I!Uncached, I!Merge, I!hit, I!hitWays, I!Way, I!ram_rmeta,
    I!meta_addr, I!index, I!tag, I!offset, I!position, I!LastOf, I!victims, I!ram_rage,
    I!wage, I!cnt_nxt, I!Meta0, I!creq, I!creq_addr, I!ram_rdata, I!dresp, I!Addr0,
    I!CacheTypeOK, I!States, I!Meta, I!DReq, I!Addr, I!Index, I!Offset, I!Word, I!Strobe,
    IC!CacheCycle, IC!ResetCycle, IC!Flush, IC!Idle, IC!StartSkip, IC!StartMiss, IC!Allocate,
    IC!WriteBack, IC!Skip, IC!Rams, IC!TouchAges, IC!ClearSet, IC!WriteWord, IC!StoreHit,
    IC!FillWord, IC!KeepRams, IC!Uncached, IC!Merge, IC!hit, IC!hitWays, IC!Way, IC!ram_rmeta,
    IC!meta_addr, IC!index, IC!tag, IC!offset, IC!position, IC!LastOf, IC!victims, IC!ram_rage,
    IC!wage, IC!cnt_nxt, IC!Meta0, IC!creq, IC!creq_addr, IC!ram_rdata, IC!dresp, IC!Addr0,
    IC!CacheTypeOK, IC!States, IC!Meta, IC!DReq, IC!Addr, IC!Index, IC!Offset, IC!Word, IC!Strobe

\* The sizes are usable, and the zeros of the types belong to them.
LEMMA Zeros ==
  /\ 0 \in Index /\ 0 \in Offset
  /\ Addr0 \in Addr /\ Word0 \in Word /\ DReq0 \in DReq /\ ~DReq0.valid
  /\ DReq0.strobe = {} /\ Tx0 \in Tx /\ ~Tx0.busy
<1>1. 0 \in Index /\ 0 \in Offset
  BY SizeAssumption DEF Index, Offset
<1>2. Addr0 \in Addr /\ Word0 \in Word
  BY <1>1, TagAssumption, ByteAssumption DEF Addr0, Addr, Word0, Word
<1> QED
  BY <1>1, <1>2 DEF DReq0, DReq, Strobe, Tx0, Tx

\* Both instances meet the assumptions of the test bench.
LEMMA DAssumptions ==
  /\ DC!TagAssumption /\ DC!ByteAssumption /\ DC!SizeAssumption
  /\ DC!InitMemAssumption /\ DC!RequestAssumption /\ DC!ResetAssumption
  BY SameData, Zeros, TagAssumption, ByteAssumption, SizeAssumption, InitMemAssumption,
     FetchAssumption, ResetAssumption

LEMMA IAssumptions ==
  /\ IC!TagAssumption /\ IC!ByteAssumption /\ IC!SizeAssumption
  /\ IC!InitMemAssumption /\ IC!RequestAssumption /\ IC!ResetAssumption
<1>1. ASSUME NEW q \in Fetch PROVE q \in DReq /\ q.valid
  <2>1. PICK r \in [valid : {TRUE}, addr : Fetches] : q = IREQ_TO_DREQ(r)
    BY DEF Fetch
  <2>2. r.valid /\ r.addr \in Addr
    BY FetchAssumption
  <2> QED
    BY <2>1, <2>2, Zeros DEF IREQ_TO_DREQ, DReq, Strobe
<1> QED
  BY <1>1, SameData, Zeros, TagAssumption, ByteAssumption, SizeAssumption,
     InitMemAssumption, ResetAssumption

-----------------------------------------------------------------------------
(* What each cache has of the bus                                          *)

\* The data cache gets the answers of its own memory.
LEMMA DAnswer == dcresp = DC!cresp
<1>1. CASE busy /\ index = 0
  BY <1>1, SameData
     DEF dcresp, Arbiter!iresps, Arbiter!Input, cresp, DC!cresp, txAddr, DC!txAddr,
         txLast, DC!txLast, Word0, DC!Word0
<1>2. CASE ~(busy /\ index = 0)
  BY <1>2, SameData
     DEF dcresp, Arbiter!iresps, Arbiter!Input, Arbiter!CResp0, Arbiter!Word0, CResp0,
         Word0, DC!cresp
<1> QED BY <1>1, <1>2

\* What is known in a running cycle.
LEMMA Facts ==
  ASSUME Inv, ~reset
  PROVE  /\ DC!ControlInv /\ IC!ControlInv
         /\ DC!Types /\ IC!Types /\ DC!CacheTypeOK /\ IC!CacheTypeOK
         /\ DC!Bus /\ DC!Waiting /\ DC!Victim /\ DC!BeatsAgree
         /\ IC!Bus /\ IC!Waiting /\ IC!Victim /\ IC!BeatsAgree
  BY DEF Inv, DC!ControlCore, IC!ControlCore, DC!ControlInv, IC!ControlInv,
         DC!Types, IC!Types

\* The memory's registers have their types.
LEMMA DeviceFacts ==
  ASSUME Inv
  PROVE  DeviceTypeOK
<1>1. DC!DeviceTypeOK /\ IC!DeviceTypeOK
  BY DEF Inv, DC!ControlCore, IC!ControlCore, DC!Types, IC!Types
<1>2. tx \in Tx
  BY <1>1, SameData DEF Inv, Granted, DC!DeviceTypeOK, IC!DeviceTypeOK
<1> QED BY <1>2 DEF Inv, DeviceTypeOK

\* The addresses of a fetch are not stored to.
LEMMA FetchedWord ==
  ASSUME Inv, NEW a \in Addr, ireq.valid,
         a.tag = ireq.addr.tag, a.index = ireq.addr.index
  PROVE  mem[a] = InitMem[a]
<1>1. ireq.addr \in Fetches
  <2>1. ireq # IReq0
    BY DEF IReq0
  <2>2. ireq \in [valid : {TRUE}, addr : Fetches]
    BY <2>1 DEF Inv, Asked
  <2> QED BY <2>2
<1>2. ~StoredTo(a.tag, a.index)
  BY <1>1, FetchAssumption DEF StoredTo
<1> QED BY <1>2 DEF Inv, Untouched

\* The transaction of the instruction cache is a read of the line fetched.
LEMMA FetchRead ==
  ASSUME Inv, ~reset, busy, index = 1, tx.busy
  PROVE  /\ ~tx.is_write /\ ireq.valid
         /\ tx.start.tag = ireq.addr.tag /\ tx.start.index = ireq.addr.index
         /\ IC!creq.valid
<1>1. /\ IC!creq.valid /\ IC!creq.is_write = tx.is_write /\ IC!creq.addr = tx.start
  BY Facts DEF IC!Bus
<1>2. istate \in {"ALLOCATE", "WRITE_BACK", "SKIP"}
  BY <1>1 DEF IC!creq
<1>3. ireq.valid
  BY <1>2, Facts DEF IC!Waiting, IREQ_TO_DREQ
<1>4. istate # "WRITE_BACK"
  <2> SUFFICES ASSUME istate = "WRITE_BACK" PROVE FALSE
    OBVIOUS
  <2>1. IC!ram_rmeta[IC!position].dirty
    BY Facts DEF IC!Victim
  <2>2. IC!ram_rmeta = imeta_ram[IC!index]
    BY DEF IC!ram_rmeta, IC!meta_addr
  <2>3. IC!index \in Index /\ IC!position \in D!Way
    BY IAssumptions, IC!LookupTypes, Facts, SameData
  <2> QED BY <2>1, <2>2, <2>3 DEF Inv, Untouched
<1>5. ~tx.is_write
  BY <1>1, <1>4 DEF IC!creq, IREQ_TO_DREQ
<1>6. tx.start.tag = ireq.addr.tag /\ tx.start.index = ireq.addr.index
  BY <1>1, <1>2, <1>4 DEF IC!creq, IC!creq_addr, IC!tag, IC!index, IREQ_TO_DREQ
<1> QED BY <1>1, <1>3, <1>5, <1>6

\* The word of the running beat is at an address of the memory, in the line
\* of the first one.
LEMMA BeatAddr ==
  ASSUME Inv
  PROVE  /\ txAddr \in Addr
         /\ txAddr.tag = tx.start.tag /\ txAddr.index = tx.start.index
<1>1. tx \in Tx
  BY DeviceFacts DEF DeviceTypeOK
<1>2. /\ WordsPerLine \in Nat \ {0} /\ tx.start \in Addr
      /\ tx.start.offset + tx.n - 1 \in Int
  BY <1>1, SizeAssumption DEF Tx, Addr, Offset
<1>3. \A a \in Int : a % WordsPerLine \in 0 .. WordsPerLine - 1
  BY <1>2
<1>4. (tx.start.offset + tx.n - 1) % WordsPerLine \in Offset
  BY <1>2, <1>3 DEF Offset
<1> QED BY <1>2, <1>4 DEF txAddr, Addr

\* The instruction cache gets the words of the program.
LEMMA IAnswer ==
  ASSUME Inv, ~reset
  PROVE  icresp = IC!cresp
<1>1. CASE busy /\ index = 1 /\ enable /\ tx.busy
  <2>1. mem[txAddr] = InitMem[txAddr]
    BY <1>1, FetchRead, BeatAddr, FetchedWord
  <2>2. IC!txAddr = txAddr /\ IC!txLast = txLast
    BY <1>1 DEF IC!txAddr, txAddr, IC!txLast, txLast
  <2> QED
    BY <1>1, <2>1, <2>2 DEF icresp, Arbiter!iresps, Arbiter!Input, cresp, IC!cresp,
           Word0, IC!Word0
<1>2. CASE ~(busy /\ index = 1 /\ enable /\ tx.busy)
  BY <1>2, SameData
     DEF icresp, Arbiter!iresps, Arbiter!Input, Arbiter!CResp0, Arbiter!Word0, CResp0,
         Word0, IC!cresp, cresp
<1> QED BY <1>1, <1>2

-----------------------------------------------------------------------------
(* A cycle of the two caches is a cycle of each                            *)

\* What a cycle does to the bus.  A granted one has a request.
LEMMA BusCycle ==
  ASSUME Inv, Tick
  PROVE  /\ ~reset /\ UNCHANGED <<reset, left>> /\ enable' \in BOOLEAN
         /\ ~busy => tx = Tx0 /\ tx' = Tx0 /\ mem' = mem
         /\ busy => /\ index' = index /\ ireqs[index].valid
                    /\ \/ ~enable /\ UNCHANGED <<mem, tx, busy>>
                       \/ enable /\ DeviceStart(ireqs[index]) /\ busy' = busy
                       \/ enable /\ DeviceBeat(ireqs[index]) /\ busy' = ~txLast
<1>1. ~reset /\ UNCHANGED <<reset, left>>
  BY DEF Tick
<1>2. DeviceCycle(oreq) /\ Arbiter!ArbiterCycle(ireqs, cresp)
  BY DEF Tick
<1>3. enable' \in BOOLEAN
  BY <1>2 DEF DeviceCycle, DeviceIdle, DeviceStart, DeviceBeat
<1>4. CASE ~busy
  <2>1. tx = Tx0 /\ ~tx.busy /\ ~oreq.valid
    BY <1>4, Zeros DEF Inv, Granted, oreq, Arbiter!oreq, Arbiter!CReq0
  <2>2. tx' = tx /\ mem' = mem
    BY <1>2, <2>1 DEF DeviceCycle, DeviceIdle, DeviceStart, DeviceBeat
  <2> QED BY <1>1, <1>3, <1>4, <2>1, <2>2
<1>5. CASE busy
  <2>1. oreq = ireqs[index] /\ ireqs[index].valid
    BY <1>1, <1>5 DEF Inv, Granted, oreq, Arbiter!oreq
  <2>2. busy' = ~cresp.last /\ index' = index
    BY <1>2, <1>5 DEF Arbiter!ArbiterCycle, Arbiter!Grant, Arbiter!Release
  <2>3. CASE DeviceIdle(ireqs[index])
    BY <1>1, <1>3, <1>5, <2>1, <2>2, <2>3 DEF DeviceIdle, cresp, CResp0
  <2>4. CASE DeviceStart(ireqs[index])
    BY <1>1, <1>3, <1>5, <2>1, <2>2, <2>4 DEF DeviceStart, cresp, CResp0
  <2>5. CASE DeviceBeat(ireqs[index])
    BY <1>1, <1>3, <1>5, <2>1, <2>2, <2>5 DEF DeviceBeat, cresp
  <2> QED BY <1>2, <2>1, <2>3, <2>4, <2>5 DEF DeviceCycle
<1> QED BY <1>4, <1>5

\* Nobody but the data cache writes.
LEMMA FetchesKeepMemory ==
  ASSUME Inv, Tick, ~(busy /\ index = 0)
  PROVE  mem' = mem
<1>1. CASE ~busy
  BY <1>1, BusCycle
<1>2. CASE busy
  <2>1. index = 1
    BY <1>2 DEF Inv, Granted
  <2>2. tx.busy => ~tx.is_write
    BY <1>2, <2>1, BusCycle, FetchRead
  <2> QED BY <1>2, <2>2, BusCycle DEF DeviceStart, DeviceBeat
<1> QED BY <1>1, <1>2

\* A cycle is one of the data cache on its own bus and memory.
LEMMA DCycle ==
  ASSUME Inv, Tick
  PROVE  DC!Cycle /\ UNCHANGED <<reset, left>>
<1>1. ~reset /\ UNCHANGED <<reset, left>>
  BY DEF Tick
<1>2. \E r \in DC!CResp : DC!Sees(r) /\ DC!CacheCycle(r)
  <2>1. DC!CacheCycle(DC!cresp)
    BY SameDCache, DAnswer DEF Tick
  <2>2. DC!cresp \in DC!CResp
    BY <1>1, DAssumptions, Facts, DC!RespType DEF DC!Types
  <2> QED BY <2>1, <2>2 DEF DC!Sees
<1>3. DC!Master
  <2>1. DC!answer = dresp
    BY SameDCache, DAnswer DEF DC!answer, dresp
  <2> QED
    BY <2>1, SameData DEF Tick, DMaster, DC!Master, DC!NextReq
<1>4. DC!DeviceCycle(DC!creq)
  <2>1. CASE busy /\ index = 0
    <3>1. ireqs[index] = DC!creq
      BY <2>1, SameDCache DEF ireqs, dcreq
    <3>2. CASE ~enable /\ UNCHANGED <<mem, tx, busy>>
      BY <2>1, <3>2, BusCycle DEF DC!DeviceCycle, DC!DeviceIdle
    <3>3. CASE enable /\ DeviceStart(DC!creq) /\ busy' = busy
      BY <2>1, <3>3, BusCycle
         DEF DC!DeviceCycle, DC!DeviceStart, DeviceStart, TxOf, DC!TxOf
    <3>4. CASE enable /\ DeviceBeat(DC!creq) /\ busy' = ~txLast
      BY <2>1, <3>4, BusCycle, SameData
         DEF DC!DeviceCycle, DC!DeviceBeat, DeviceBeat, txLast, DC!txLast,
             txAddr, DC!txAddr, Merge, DC!Merge
    <3> QED BY <2>1, <3>1, <3>2, <3>3, <3>4, BusCycle
  <2>2. CASE ~(busy /\ index = 0)
    <3>1. tx' = Tx0 \/ ~(busy' /\ index' = 0)
      BY <2>2, BusCycle
    <3> QED BY <2>2, <3>1, FetchesKeepMemory DEF DC!DeviceCycle, DC!DeviceIdle
  <2> QED BY <2>1, <2>2
<1> QED BY <1>1, <1>2, <1>3, <1>4 DEF DC!Cycle

\* And one of the instruction cache on a memory that stays as it was.
LEMMA ICycle ==
  ASSUME Inv, Tick
  PROVE  IC!Cycle /\ UNCHANGED <<reset, left>>
<1>1. ~reset /\ UNCHANGED <<reset, left>>
  BY DEF Tick
<1>2. \E r \in IC!CResp : IC!Sees(r) /\ IC!CacheCycle(r)
  <2>1. IC!CacheCycle(IC!cresp)
    BY <1>1, SameICache, IAnswer DEF Tick
  <2>2. IC!cresp \in IC!CResp
    BY <1>1, IAssumptions, Facts, IC!RespType DEF IC!Types
  <2> QED BY <2>1, <2>2 DEF IC!Sees
<1>3. IC!Master
  <2>1. IC!answer = iresp
    BY <1>1, SameICache, IAnswer DEF IC!answer, iresp
  <2>2. CASE ireq.valid /\ ~iresp.data_ok
    BY <2>1, <2>2 DEF Tick, IMaster, IC!Master, IREQ_TO_DREQ
  <2>3. CASE ~(ireq.valid /\ ~iresp.data_ok)
    <3>1. ireq' \in [valid : {TRUE}, addr : Fetches]
      BY <2>3 DEF Tick, IMaster
    <3>2. IREQ_TO_DREQ(ireq') \in Fetch
      BY <3>1 DEF Fetch
    <3>3. ~(IREQ_TO_DREQ(ireq).valid /\ ~IC!answer.data_ok)
      BY <2>1, <2>3 DEF IREQ_TO_DREQ
    <3> QED BY <3>2, <3>3 DEF IC!Master, IC!NextReq, IREQ_TO_DREQ
  <2> QED BY <2>2, <2>3
<1>4. IC!DeviceCycle(IC!creq)
  <2>1. CASE busy /\ index = 1
    <3>1. ireqs[index] = IC!creq
      BY <2>1, SameICache DEF ireqs, icreq
    <3>2. CASE ~enable /\ UNCHANGED <<mem, tx, busy>>
      BY <2>1, <3>2, BusCycle DEF IC!DeviceCycle, IC!DeviceIdle
    <3>3. CASE enable /\ DeviceStart(IC!creq) /\ busy' = busy
      BY <2>1, <3>3, BusCycle
         DEF IC!DeviceCycle, IC!DeviceStart, DeviceStart, TxOf, IC!TxOf
    <3>4. CASE enable /\ DeviceBeat(IC!creq) /\ busy' = ~txLast
      <4>1. ~tx.is_write
        BY <1>1, <2>1, <3>4, FetchRead DEF DeviceBeat
      <4> QED
        BY <2>1, <3>4, <4>1, BusCycle, SameData
           DEF IC!DeviceCycle, IC!DeviceBeat, DeviceBeat, txLast, IC!txLast
    <3> QED BY <2>1, <3>1, <3>2, <3>3, <3>4, BusCycle
  <2>2. CASE ~(busy /\ index = 1)
    <3>1. tx' = Tx0 \/ ~(busy' /\ index' = 1)
      BY <2>2, BusCycle DEF Inv, Granted
    <3> QED BY <2>2, <3>1 DEF IC!DeviceCycle, IC!DeviceIdle
  <2> QED BY <2>1, <2>2
<1> QED BY <1>1, <1>2, <1>3, <1>4 DEF IC!Cycle

-----------------------------------------------------------------------------
(* The invariant is kept                                                   *)

\* Each cache keeps its own invariant.
LEMMA TickCaches ==
  ASSUME Inv, Tick
  PROVE  /\ DC!RunningStep /\ DC!ControlCore' /\ DC!LinesInv'
         /\ IC!RunningStep /\ IC!ControlCore' /\ IC!LinesInv'
<1>1. DC!LinesInv /\ IC!LinesInv
  BY DEF Inv, Tick
<1>2. DC!RunningStep /\ DC!ControlCore'
  BY DAssumptions, DCycle, DC!CycleControl, DC!CycleRuns DEF Inv
<1>3. DC!LinesInv'
  BY <1>1, <1>2, DAssumptions, DC!CycleLines
<1>4. IC!RunningStep /\ IC!ControlCore'
  BY IAssumptions, ICycle, IC!CycleControl, IC!CycleRuns DEF Inv
<1>5. IC!LinesInv'
  BY <1>1, <1>4, IAssumptions, IC!CycleLines
<1> QED BY <1>2, <1>3, <1>4, <1>5

\* Only a line of a store gets dirty.
LEMMA DirtyStored ==
  ASSUME Inv, NEW r, DC!Rams(r), NEW i \in Index, NEW w \in D!Way,
         dmeta_ram'[i][w].dirty
  PROVE  StoredTo(dmeta_ram'[i][w].tag, i)
<1>1. DC!CacheTypeOK
  BY DEF Inv, DC!ControlCore, DC!Types
<1>2. DC!index \in Index /\ DC!position \in D!Way /\ DC!meta_addr \in Index
  BY <1>1, DAssumptions, DC!LookupTypes, SameData
<1>3. dmeta_ram \in [Index -> [D!Way -> DC!Meta]]
  BY <1>1, SameData DEF DC!CacheTypeOK
<1>4. dmeta_ram[i][w].dirty => StoredTo(dmeta_ram[i][w].tag, i)
  BY DEF Inv, Untouched
<1>5. CASE DC!ClearSet
  BY <1>2, <1>3, <1>4, <1>5, SameData DEF DC!ClearSet, DC!Meta0
<1>6. CASE DC!WriteWord
  <2>1. dmeta_ram'[i][w].tag = dmeta_ram[i][w].tag
    BY <1>1, <1>6, DAssumptions, DC!TagsKept, SameData
  <2>2. CASE i = DC!index /\ w = DC!position
    <3>1. dreq \in Requests /\ dreq.strobe # {}
      BY <1>6, Zeros DEF DC!WriteWord, DC!StoreHit, Inv, Asked
    <3>2. DC!hit /\ DC!ram_rmeta = dmeta_ram[DC!index]
      BY <1>6 DEF DC!WriteWord, DC!StoreHit, DC!ram_rmeta, DC!meta_addr
    <3>3. dmeta_ram[i][w].tag = DC!tag
      BY <1>1, <2>2, <3>2, DAssumptions, DC!HitFacts
    <3> QED BY <2>1, <2>2, <3>1, <3>3 DEF StoredTo, DC!tag, DC!index
  <2>3. CASE ~(i = DC!index /\ w = DC!position)
    <3>1. dmeta_ram'[i][w] = dmeta_ram[i][w]
      BY <1>2, <1>3, <1>6, <2>3 DEF DC!WriteWord
    <3> QED BY <1>4, <3>1
  <2> QED BY <2>2, <2>3
<1>7. CASE DC!FillWord(r)
  BY <1>1, <1>4, <1>7, DAssumptions, DC!TagsFilled, SameData
<1>8. CASE DC!KeepRams
  BY <1>4, <1>8 DEF DC!KeepRams
<1> QED BY <1>5, <1>6, <1>7, <1>8 DEF DC!Rams

\* The instruction cache has no dirty line.
LEMMA NothingDirty ==
  ASSUME Inv, NEW r, IC!Rams(r), NEW i \in Index, NEW w \in D!Way
  PROVE  ~imeta_ram'[i][w].dirty
<1>1. IC!CacheTypeOK
  BY DEF Inv, IC!ControlCore, IC!Types
<1>2. IC!meta_addr \in Index
  BY <1>1, IAssumptions, IC!LookupTypes, SameData
<1>3. imeta_ram \in [Index -> [D!Way -> IC!Meta]]
  BY <1>1, SameData DEF IC!CacheTypeOK
<1>4. ~imeta_ram[i][w].dirty
  BY DEF Inv, Untouched
<1>5. CASE IC!ClearSet
  BY <1>2, <1>3, <1>4, <1>5, SameData DEF IC!ClearSet, IC!Meta0
<1>6. ~IC!WriteWord
  BY DEF IC!WriteWord, IC!StoreHit, IREQ_TO_DREQ
<1>7. CASE IC!FillWord(r)
  BY <1>1, <1>4, <1>7, IAssumptions, IC!TagsFilled, SameData
<1>8. CASE IC!KeepRams
  BY <1>4, <1>8 DEF IC!KeepRams
<1> QED BY <1>5, <1>6, <1>7, <1>8 DEF IC!Rams

\* A word written to memory is one of a line that is stored to.
LEMMA WrittenStored ==
  ASSUME Inv, Tick, NEW a \in Addr, ~StoredTo(a.tag, a.index)
  PROVE  mem'[a] = mem[a]
<1>1. CASE mem' = mem
  BY <1>1
<1>2. CASE mem' # mem
  <2>1. /\ DC!RunningStep /\ ~reset
        /\ DC!Bus /\ DC!Waiting /\ DC!Victim /\ DC!CacheTypeOK
    BY TickCaches, Facts, BusCycle
  <2>2. /\ busy /\ index = 0 /\ tx.busy /\ tx.is_write
        /\ \E x : mem' = [mem EXCEPT ![txAddr] = x]
    <3>1. busy /\ index = 0
      BY <1>2, FetchesKeepMemory
    <3> QED BY <1>2, <3>1, BusCycle DEF DeviceStart, DeviceBeat
  <2>3. DC!creq.is_write /\ DC!creq.addr = tx.start /\ DC!creq.valid
    BY <2>1, <2>2 DEF DC!Bus
  <2>4. StoredTo(tx.start.tag, tx.start.index)
    <3>1. CASE dstate = "WRITE_BACK"
      <4>1. DC!index \in Index /\ DC!position \in D!Way
        BY <2>1, DAssumptions, DC!LookupTypes, SameData
      <4>2. /\ tx.start.tag = dmeta_ram[DC!index][DC!position].tag
            /\ tx.start.index = DC!index
            /\ dmeta_ram[DC!index][DC!position].dirty
        BY <2>1, <2>3, <3>1
           DEF DC!creq, DC!creq_addr, DC!ram_rmeta, DC!meta_addr, DC!Victim
      <4> QED BY <4>1, <4>2 DEF Inv, Untouched
    <3>2. CASE dstate = "SKIP" /\ dreq.strobe # {}
      <4>1. tx.start = dreq.addr
        BY <2>3, <3>2 DEF DC!creq, DC!creq_addr
      <4>2. dreq \in Requests
        BY <3>2, Zeros DEF Inv, Asked
      <4> QED BY <3>2, <4>1, <4>2 DEF StoredTo
    <3> QED BY <2>3, <3>1, <3>2 DEF DC!creq
  <2>5. a # txAddr
    BY <2>4, BeatAddr
  <2> QED BY <2>2, <2>5 DEF Inv
<1> QED BY <1>1, <1>2

LEMMA TickUntouched ==
  ASSUME Inv, Tick
  PROVE  Untouched'
<1>1. (\E r : DC!Rams(r)) /\ (\E r : IC!Rams(r))
  BY DCycle, ICycle
     DEF DC!Cycle, DC!CacheCycle, DC!Flush, DC!Idle, DC!StartSkip, DC!StartMiss,
         DC!Allocate, DC!WriteBack, DC!Skip,
         IC!Cycle, IC!CacheCycle, IC!Flush, IC!Idle, IC!StartSkip, IC!StartMiss,
         IC!Allocate, IC!WriteBack, IC!Skip
<1>2. ASSUME NEW a \in Addr, ~StoredTo(a.tag, a.index) PROVE mem'[a] = InitMem[a]
  BY <1>2, WrittenStored DEF Inv, Untouched
<1>3. \A i \in Index : \A w \in D!Way :
        /\ ~imeta_ram'[i][w].dirty
        /\ dmeta_ram'[i][w].dirty => StoredTo(dmeta_ram'[i][w].tag, i)
  BY <1>1, DirtyStored, NothingDirty
<1> QED BY <1>2, <1>3 DEF Untouched, StoredTo, D!Way

\* What the data cache asks for stays asked for until the last answer, and
\* likewise the instruction cache.
LEMMA KeepsAsking ==
  ASSUME Inv, Tick
  PROVE  /\ dcreq.valid /\ ~dcresp.last => dcreq'.valid /\ dstate' = dstate
         /\ icreq.valid /\ ~icresp.last => icreq'.valid
         /\ dcreq.valid => dstate \in {"ALLOCATE", "WRITE_BACK", "SKIP"}
         /\ dcreq.valid /\ dcresp.last =>
              dstate' = "IDLE" \/ (dstate' = "ALLOCATE" /\ dstate = "WRITE_BACK")
<1>1. D!CacheCycle(dcresp) /\ I!CacheCycle(icresp)
  BY DEF Tick
<1>2. dcreq.valid <=> dstate \in {"ALLOCATE", "WRITE_BACK", "SKIP"}
  BY DEF dcreq, D!creq
<1>3. dcreq'.valid <=> dstate' \in {"ALLOCATE", "WRITE_BACK", "SKIP"}
  BY DEF dcreq, D!creq
<1>4. icreq.valid <=> istate \in {"ALLOCATE", "WRITE_BACK", "SKIP"}
  BY DEF icreq, I!creq
<1>5. icreq'.valid <=> istate' \in {"ALLOCATE", "WRITE_BACK", "SKIP"}
  BY DEF icreq, I!creq
<1>6. dcresp.last => dcresp.ready
  BY DEF dcresp, Arbiter!iresps, Arbiter!Input, Arbiter!CResp0, cresp, CResp0
<1>7. dcreq.valid /\ ~dcresp.last => dstate' = dstate
  BY <1>1, <1>2 DEF D!CacheCycle, D!Flush, D!Idle, D!StartSkip, D!StartMiss,
         D!Allocate, D!WriteBack, D!Skip
<1>8. icreq.valid /\ ~icresp.last => istate' = istate
  BY <1>1, <1>4 DEF I!CacheCycle, I!Flush, I!Idle, I!StartSkip, I!StartMiss,
         I!Allocate, I!WriteBack, I!Skip
<1>9. dcreq.valid /\ dcresp.last =>
        dstate' = "IDLE" \/ (dstate' = "ALLOCATE" /\ dstate = "WRITE_BACK")
  BY <1>1, <1>2, <1>6 DEF D!CacheCycle, D!Flush, D!Idle, D!StartSkip, D!StartMiss,
         D!Allocate, D!WriteBack, D!Skip
<1> QED BY <1>2, <1>3, <1>4, <1>5, <1>7, <1>8, <1>9

\* The owner of the bus alone sees the answer of the memory.
LEMMA Answers ==
  /\ dcresp = IF busy /\ index = 0 THEN cresp ELSE CResp0
  /\ icresp = IF busy /\ index = 1 THEN cresp ELSE CResp0
  BY DEF dcresp, icresp, Arbiter!iresps, Arbiter!Input, Arbiter!CResp0, CResp0,
         Arbiter!Word0, Word0

\* A free bus goes to the data cache, if it asks, and else to the other one.
LEMMA Grants ==
  ASSUME Inv, Tick, ~busy
  PROVE  /\ busy' = (dcreq.valid \/ icreq.valid)
         /\ index' = IF ~dcreq.valid /\ icreq.valid THEN 1 ELSE 0
         /\ ~dcresp.last /\ ~icresp.last
<1>1. busy' = ireqs[Arbiter!select(ireqs)].valid /\ index' = Arbiter!select(ireqs)
  BY DEF Tick, Arbiter!ArbiterCycle, Arbiter!Grant, Arbiter!Release
<1>2. /\ Arbiter!Input = {0, 1} /\ ireqs[0] = dcreq /\ ireqs[1] = icreq
      /\ dcreq.valid \in BOOLEAN /\ icreq.valid \in BOOLEAN
  BY DEF Arbiter!Input, ireqs, dcreq, icreq, D!creq, I!creq
<1>3. ~dcresp.last /\ ~icresp.last
  BY Answers DEF CResp0
<1>4. CASE dcreq.valid
  <2>1. /\ 0 \in Arbiter!Input /\ ireqs[0].valid
        /\ \A j \in Arbiter!Input : ireqs[j].valid => 0 <= j
    BY <1>2, <1>4
  <2>2. \A i \in Arbiter!Input :
          (ireqs[i].valid /\ \A j \in Arbiter!Input : ireqs[j].valid => i <= j) => i = 0
    BY <1>2, <1>4
  <2>3. Arbiter!select(ireqs) = 0
    BY <2>1, <2>2 DEF Arbiter!select
  <2> QED BY <1>1, <1>2, <1>3, <1>4, <2>3
<1>5. CASE ~dcreq.valid /\ icreq.valid
  <2>1. /\ 1 \in Arbiter!Input /\ ireqs[1].valid
        /\ \A j \in Arbiter!Input : ireqs[j].valid => 1 <= j
    BY <1>2, <1>5
  <2>2. \A i \in Arbiter!Input :
          (ireqs[i].valid /\ \A j \in Arbiter!Input : ireqs[j].valid => i <= j) => i = 1
    BY <1>2, <1>5
  <2>3. Arbiter!select(ireqs) = 1
    BY <2>1, <2>2 DEF Arbiter!select
  <2> QED BY <1>1, <1>2, <1>3, <1>5, <2>3
<1>6. CASE ~dcreq.valid /\ ~icreq.valid
  <2>1. ~\E i \in Arbiter!Input : ireqs[i].valid
    BY <1>2, <1>6
  <2>2. Arbiter!select(ireqs) = 0
    BY <2>1 DEF Arbiter!select
  <2> QED BY <1>1, <1>2, <1>3, <1>6, <2>2
<1> QED BY <1>4, <1>5, <1>6

\* A bus that stays granted gave its owner no last answer, and nobody else
\* gets any answer.
LEMMA Kept ==
  ASSUME Inv, Tick, busy
  PROVE  /\ index' = index /\ ireqs[index].valid
         /\ index = 0 => (dcresp.last <=> ~busy') /\ ~icresp.last
         /\ index = 1 => (icresp.last <=> ~busy') /\ ~dcresp.last
<1>1. busy' = ~cresp.last /\ index' = index
  BY DEF Tick, Arbiter!ArbiterCycle, Arbiter!Grant, Arbiter!Release
<1>2. ireqs[index].valid
  BY BusCycle
<1>3. index = 0 => dcresp = cresp /\ icresp = CResp0
  BY Answers
<1>4. index = 1 => icresp = cresp /\ dcresp = CResp0
  BY Answers
<1>5. ~CResp0.last
  BY DEF CResp0
<1> QED BY <1>1, <1>2, <1>3, <1>4, <1>5

LEMMA TickGranted ==
  ASSUME Inv, Tick
  PROVE  Granted'
<1>1. ireqs'[0] = dcreq' /\ ireqs'[1] = icreq' /\ ireqs[0] = dcreq /\ ireqs[1] = icreq
  BY DEF ireqs
<1>2. index \in {0, 1}
  BY DEF Inv, Granted
<1>3. CASE ~busy
  <2>1. busy' \in BOOLEAN /\ index' \in {0, 1}
    BY <1>3, Grants DEF dcreq, icreq, D!creq, I!creq
  <2>2. tx' = Tx0
    BY <1>3, BusCycle
  <2>3. busy' => ireqs'[index'].valid
    BY <1>1, <1>3, Grants, KeepsAsking
  <2> QED BY <2>1, <2>2, <2>3 DEF Granted
<1>4. CASE busy
  <2>1. busy' \in BOOLEAN /\ index' \in {0, 1}
    BY <1>2, <1>4, BusCycle DEF Inv, Granted
  <2>2. ~busy' => tx' = Tx0
    BY <1>4, BusCycle DEF DeviceBeat
  <2>3. busy' => ireqs'[index'].valid
    BY <1>1, <1>2, <1>4, Kept, KeepsAsking
  <2> QED BY <2>1, <2>2, <2>3 DEF Granted
<1> QED BY <1>3, <1>4

LEMMA TickPassing ==
  ASSUME Inv, Tick
  PROVE  Passing'
<1>1. /\ passed \in 0 .. 2
      /\ passed > 0 /\ ~(busy /\ index = 1) =>
           /\ busy => passed = 1 \/ dstate = "ALLOCATE"
           /\ ~busy => dstate = "IDLE" \/ (dstate = "ALLOCATE" /\ passed = 1)
  BY DEF Inv, Passing, Tick
<1>2. /\ passed' = IF ~icreq.valid \/ (busy /\ index = 1) THEN 0
                   ELSE IF ~busy /\ dcreq.valid /\ passed < 3 THEN passed + 1
                   ELSE passed
      /\ index \in {0, 1}
  BY DEF Inv, Granted, Tick, CountPassed
<1>3. CASE ~icreq.valid \/ (busy /\ index = 1)
  BY <1>2, <1>3 DEF Passing
<1>4. CASE icreq.valid /\ ~busy
  <2>1. CASE ~dcreq.valid
    BY <1>1, <1>2, <1>4, <2>1, Grants DEF Passing
  <2>2. CASE dcreq.valid
    <3>1. /\ busy' /\ index' = 0 /\ dstate' = dstate
          /\ dstate \in {"ALLOCATE", "WRITE_BACK", "SKIP"}
      BY <1>4, <2>2, Grants, KeepsAsking
    <3>2. passed = 0 \/ (passed = 1 /\ dstate = "ALLOCATE")
      BY <1>1, <1>4, <3>1
    <3> QED BY <1>2, <1>4, <2>2, <3>1, <3>2 DEF Passing
  <2> QED BY <2>1, <2>2
<1>5. CASE icreq.valid /\ busy /\ index = 0
  <2>1. dcreq.valid /\ index' = 0 /\ (dcresp.last <=> ~busy') /\ passed' = passed
    BY <1>2, <1>5, Kept DEF ireqs
  <2>2. passed > 0 => passed = 1 \/ dstate = "ALLOCATE"
    BY <1>1, <1>5
  <2>3. CASE busy'
    BY <1>1, <2>1, <2>2, <2>3, KeepsAsking DEF Passing
  <2>4. CASE ~busy'
    <3>1. dstate' = "IDLE" \/ (dstate' = "ALLOCATE" /\ dstate = "WRITE_BACK")
      BY <2>1, <2>4, KeepsAsking
    <3> QED BY <1>1, <2>1, <2>2, <2>4, <3>1 DEF Passing
  <2> QED BY <2>3, <2>4
<1> QED BY <1>2, <1>3, <1>4, <1>5

LEMMA TickAsked ==
  ASSUME Inv, Tick
  PROVE  Asked'
<1>1. dreq' \in Requests \cup {DReq0}
  BY SameData DEF Tick, DMaster, Inv, Asked
<1>2. ireq' \in [valid : {TRUE}, addr : Fetches] \cup {IReq0}
  <2>1. ireq' = ireq \/ ireq' \in [valid : {TRUE}, addr : Fetches]
    BY DEF Tick, IMaster
  <2> QED BY <2>1 DEF Inv, Asked
<1> QED BY <1>1, <1>2 DEF Asked

LEMMA TickInv ==
  ASSUME Inv, Tick
  PROVE  Inv'
<1>1. mem' \in [Addr -> Word] /\ enable' \in BOOLEAN
  BY TickCaches, BusCycle, SameData DEF DC!ControlCore, DC!Types, DC!DeviceTypeOK
<1> QED
  BY <1>1, TickCaches, TickAsked, TickGranted, TickUntouched, TickPassing DEF Inv

LEMMA ResetInv ==
  ASSUME Inv, ResetTick
  PROVE  Inv'
<1>1. /\ left' = left - 1 /\ reset' \in BOOLEAN /\ (reset' <=> left' > 0)
      /\ tx' = Tx0 /\ mem' = mem /\ enable' = enable /\ busy' = FALSE /\ index' = 0
      /\ dreq' = DReq0 /\ ireq' = IReq0 /\ passed' = 0
  <2>1. (left' > 0) \in BOOLEAN
    OBVIOUS
  <2>2. reset' = (left' > 0)
    BY DEF ResetTick
  <2> QED BY <2>1, <2>2, SameData DEF ResetTick, Arbiter!ArbiterReset
<1>2. dcresp \in CResp /\ icresp \in CResp
  <2>1. mem[txAddr] \in Word /\ Word0 \in Word
    BY BeatAddr, Zeros DEF Inv
  <2>2. cresp \in CResp /\ CResp0 \in CResp
    BY <2>1 DEF cresp, CResp0, CResp, txLast
  <2> QED BY <2>2, Answers
<1>3. DC!ResetCycle(dcresp) /\ IC!ResetCycle(icresp)
  BY SameDCache, SameICache DEF ResetTick
<1>4. DC!ControlCore' /\ (~reset' => DC!LinesInv')
  <2>1. DC!ControlCore /\ DC!Types
    BY DEF Inv, DC!ControlCore
  <2>2. DC!DeviceTypeOK'
    BY <1>1, SameData, Zeros DEF DC!DeviceTypeOK, Inv
  <2>3. DC!ControlCore'
    BY <1>1, <1>2, <1>3, <2>1, <2>2, DAssumptions, DC!ResetControl, SameData, Zeros
  <2>4. ~reset' => DC!LinesInv'
    BY <1>1, <1>3, <2>1, DAssumptions, DC!ResetLines
  <2> QED BY <2>3, <2>4
<1>5. IC!ControlCore' /\ (~reset' => IC!LinesInv')
  <2>1. IC!ControlCore /\ IC!Types
    BY DEF Inv, IC!ControlCore
  <2>2. IC!DeviceTypeOK'
    BY <1>1, SameData, Zeros, InitMemAssumption DEF IC!DeviceTypeOK
  <2>3. IREQ_TO_DREQ(ireq') = DReq0
    BY <1>1 DEF IREQ_TO_DREQ, IReq0, DReq0
  <2>4. IC!ControlCore'
    BY <1>1, <1>2, <1>3, <2>1, <2>2, <2>3, IAssumptions, IC!ResetControl, SameData, Zeros
  <2>5. ~reset' => IC!LinesInv'
    BY <1>1, <1>3, <2>1, IAssumptions, IC!ResetLines
  <2> QED BY <2>4, <2>5
<1>6. Untouched'
  <2>1. DC!Rams(dcresp) /\ IC!Rams(icresp)
    BY <1>3 DEF DC!ResetCycle, IC!ResetCycle
  <2>2. \A i \in Index : \A w \in D!Way :
          /\ ~imeta_ram'[i][w].dirty
          /\ dmeta_ram'[i][w].dirty => StoredTo(dmeta_ram'[i][w].tag, i)
    BY <2>1, DirtyStored, NothingDirty
  <2> QED BY <1>1, <2>2 DEF Untouched, StoredTo, D!Way, Inv
<1>7. Asked'
  BY <1>1 DEF Asked
<1>8. Granted' /\ Passing'
  <2>1. ~busy' /\ busy' \in BOOLEAN /\ index' \in {0, 1} /\ ~(passed' > 0)
    <3>1. ~busy' /\ busy' \in BOOLEAN
      BY <1>1, Zenon
    <3>2. index' \in {0, 1}
      BY <1>1, Zenon
    <3>3. ~(passed' > 0)
      <4>1. passed' = 0
        BY <1>1, Zenon
      <4> QED BY <4>1
    <3> QED BY <3>1, <3>2, <3>3
  <2>2. Granted'
    BY <1>1, <2>1 DEF Granted
  <2>3. Passing'
    BY <1>1, <2>1 DEF Passing
  <2> QED BY <2>2, <2>3
<1> QED
  BY <1>1, <1>4, <1>5, <1>6, <1>7, <1>8 DEF Inv

LEMMA RestartInv ==
  ASSUME Inv, Restart
  PROVE  Inv'
<1>1. /\ reset' = TRUE /\ left' = ResetTicks
      /\ UNCHANGED <<ireq, icacheVars, dreq, dcacheVars, arbiterVars, deviceVars, passed>>
  BY DEF Restart
<1> USE <1>1 DEF icacheVars, dcacheVars, arbiterVars, deviceVars
<1>2. ResetTicks \in 0 .. ResetTicks /\ ResetTicks > 0
  BY ResetAssumption, SizeAssumption
<1>3. DC!ControlCore'
  <2>1. DC!Types /\ DC!AgesOld
    BY DEF Inv, DC!ControlCore
  <2>2. DC!Types'
    BY <1>2, <2>1 DEF DC!Types, DC!CacheTypeOK, DC!DeviceTypeOK
  <2> QED BY <2>1, <2>2 DEF DC!ControlCore, DC!ResetInv, DC!AgesOld
<1>4. IC!ControlCore'
  <2>1. IC!Types /\ IC!AgesOld
    BY DEF Inv, IC!ControlCore
  <2>2. IC!Types'
    BY <1>2, <2>1 DEF IC!Types, IC!CacheTypeOK, IC!DeviceTypeOK
  <2> QED BY <2>1, <2>2 DEF IC!ControlCore, IC!ResetInv, IC!AgesOld
<1>5. Asked' /\ Granted' /\ Passing'
  BY DEF Inv, Asked, Granted, Passing
<1>6. Untouched'
  BY DEF Inv, Untouched, StoredTo, D!Way
<1> QED
  BY <1>3, <1>4, <1>5, <1>6 DEF Inv

LEMMA SameInv ==
  ASSUME Inv, UNCHANGED vars
  PROVE  Inv'
<1> USE DEF vars, icacheVars, dcacheVars, arbiterVars, deviceVars
<1>1. DC!ControlCore' /\ (~reset' => DC!LinesInv')
  <2>1. UNCHANGED <<dreq, reset, DC!cacheVars, DC!deviceVars, left>>
    BY DEF DC!cacheVars, DC!cacheRams, DC!deviceVars
  <2> QED
    BY <2>1, DAssumptions, DC!SameControl, DC!SameLines DEF Inv, DC!deviceVars
<1>2. IC!ControlCore' /\ (~reset' => IC!LinesInv')
  <2>1. UNCHANGED <<IREQ_TO_DREQ(ireq), reset, IC!cacheVars, IC!deviceVars, left>>
    BY DEF IC!cacheVars, IC!cacheRams, IC!deviceVars, IREQ_TO_DREQ
  <2> QED
    BY <2>1, IAssumptions, IC!SameControl, IC!SameLines DEF Inv, IC!deviceVars
<1>3. Asked' /\ Passing'
  BY DEF Inv, Asked, Passing
<1>4. Granted'
  BY DEF Inv, Granted, ireqs, dcreq, icreq, D!creq, I!creq
<1>5. Untouched'
  BY DEF Inv, Untouched, StoredTo, D!Way
<1> QED
  BY <1>1, <1>2, <1>3, <1>4, <1>5 DEF Inv

LEMMA InitInv == Init => Inv
<1> SUFFICES ASSUME Init PROVE Inv
  OBVIOUS
<1>1. /\ reset = TRUE /\ left = ResetTicks /\ ResetTicks \in 0 .. ResetTicks
      /\ ResetTicks > 0 /\ ireq = IReq0 /\ dreq = DReq0
      /\ busy = FALSE /\ index = 0 /\ mem = InitMem /\ tx = Tx0 /\ enable = TRUE
      /\ passed = 0
  BY SameData, ResetAssumption, SizeAssumption DEF Init, DeviceInit, Arbiter!ArbiterInit
<1>2. DC!ControlCore
  <2>1. DC!CacheTypeOK
    BY <1>1, SameData, Zeros, TagAssumption
       DEF Init, D!CacheInit, DC!CacheTypeOK, DC!States, DC!Meta, D!Meta0, D!Way,
           D!Index, D!Offset, Index, Offset, D!Word0, Word0
  <2>2. DC!DeviceTypeOK
    BY <1>1, SameData, Zeros, InitMemAssumption DEF DC!DeviceTypeOK
  <2>3. DC!AgesOld
    BY SameData DEF Init, D!CacheInit, DC!AgesOld, D!Way
  <2> QED BY <1>1, <2>1, <2>2, <2>3 DEF DC!ControlCore, DC!Types, DC!ResetInv
<1>3. IC!ControlCore
  <2>1. IC!CacheTypeOK
    BY <1>1, SameData, Zeros, TagAssumption
       DEF Init, I!CacheInit, IC!CacheTypeOK, IC!States, IC!Meta, I!Meta0, I!Way, D!Way,
           I!Index, I!Offset, Index, Offset, I!Word0, Word0, IREQ_TO_DREQ, IReq0, DReq0
  <2>2. IC!DeviceTypeOK
    BY <1>1, SameData, Zeros, InitMemAssumption DEF IC!DeviceTypeOK
  <2>3. IC!AgesOld
    BY SameData DEF Init, I!CacheInit, IC!AgesOld, I!Way, D!Way, I!Index, Index
  <2> QED BY <1>1, <2>1, <2>2, <2>3 DEF IC!ControlCore, IC!Types, IC!ResetInv
<1>4. Untouched
  BY <1>1 DEF Init, Untouched, I!CacheInit, D!CacheInit, I!Meta0, D!Meta0, I!Way, D!Way,
     I!Index, D!Index, Index
<1>5. Asked /\ Granted /\ Passing
  <2>1. ~busy /\ busy \in BOOLEAN /\ index \in {0, 1} /\ ~(passed > 0)
    <3>1. ~busy /\ busy \in BOOLEAN
      BY <1>1, Zenon
    <3>2. index \in {0, 1}
      BY <1>1, Zenon
    <3>3. ~(passed > 0)
      <4>1. passed = 0
        BY <1>1, Zenon
      <4> QED BY <4>1
    <3> QED BY <3>1, <3>2, <3>3
  <2>2. Asked
    BY <1>1 DEF Asked
  <2>3. Granted
    BY <1>1, <2>1 DEF Granted
  <2>4. Passing
    BY <1>1, <2>1 DEF Passing
  <2> QED BY <2>2, <2>3, <2>4
<1> QED
  BY <1>1, <1>2, <1>3, <1>4, <1>5, InitMemAssumption DEF Inv

LEMMA NextInv == Inv /\ [Next]_vars => Inv'
  BY TickInv, ResetInv, RestartInv, SameInv DEF Next

\* The invariant holds in every state.
THEOREM InvCorrect == Spec => []Inv
  BY InitInv, NextInv, PTL DEF Spec

-----------------------------------------------------------------------------
(* What follows                                                            *)

\* Two caches share the bus: one transaction at a time, seen by its owner
\* alone, and a fetch is passed at most twice.
THEOREM BusSharedHolds == Spec => []BusShared
<1>1. Inv => BusShared
  <2> SUFFICES ASSUME Inv PROVE BusShared
    OBVIOUS
  <2>1. TypeOK
    <3>1. DC!Types /\ IC!Types
      BY DEF Inv, DC!ControlCore, IC!ControlCore
    <3>2. D!CacheTypeOK /\ I!CacheTypeOK /\ left \in 0 .. ResetTicks
      BY <3>1, SameDCache, SameICache DEF DC!Types, IC!Types
    <3>3. ireq \in IReq
      <4>1. CASE ireq = IReq0
        BY <4>1, Zeros DEF IReq, IReq0
      <4>2. CASE ireq \in [valid : {TRUE}, addr : Fetches]
        BY <4>2, FetchAssumption DEF IReq
      <4> QED BY <4>1, <4>2 DEF Inv, Asked
    <3>4. busy \in BOOLEAN /\ index \in {0, 1} /\ passed \in 0 .. 3
      BY DEF Inv, Granted, Passing
    <3> QED BY <3>2, <3>3, <3>4, DeviceFacts DEF TypeOK
  <2>2. RequestStable
    <3> SUFFICES ASSUME ~reset, enable, tx.busy
                 PROVE  /\ oreq.valid /\ oreq.is_write = tx.is_write
                        /\ oreq.addr = tx.start /\ oreq.len = tx.len
      BY DEF RequestStable, RequestHeld
    <3>1. busy /\ index \in {0, 1}
      BY Zeros DEF Inv, Granted
    <3>2. oreq = IF index = 0 THEN DC!creq ELSE IC!creq
      BY <3>1, SameDCache, SameICache DEF oreq, Arbiter!oreq, ireqs, dcreq, icreq
    <3>3. CASE index = 0
      BY <3>1, <3>2, <3>3, Facts DEF DC!Bus
    <3>4. CASE index = 1
      BY <3>1, <3>2, <3>4, Facts DEF IC!Bus
    <3> QED BY <3>1, <3>3, <3>4
  <2>3. BeatsAgree
    <3> SUFFICES ASSUME ~reset PROVE BeatsAgree
      BY DEF BeatsAgree
    <3>1. tx.busy => busy
      BY Zeros DEF Inv, Granted
    <3> QED
      BY <3>1, Facts, Zeros, SameData DEF BeatsAgree, DC!BeatsAgree, IC!BeatsAgree
  <2>4. PassedTwice
    BY DEF Inv, Passing, PassedTwice
  <2> QED BY <2>1, <2>2, <2>3, <2>4 DEF BusShared
<1> QED BY <1>1, InvCorrect, PTL

\* A fetch that is answered gets the word of the program.
THEOREM FetchRightHolds == Spec => []FetchRight
<1>1. Inv => FetchRight
  <2> SUFFICES ASSUME Inv, ~reset, ireq.valid, iresp.data_ok
               PROVE  iresp.data = InitMem[ireq.addr]
    BY DEF FetchRight
  <2>1. iresp = IC!dresp(IC!cresp)
    BY IAnswer, SameICache DEF iresp
  <2>2. ireq.addr \in Addr
    <3>1. ireq # IReq0
      BY DEF IReq0
    <3>2. ireq \in [valid : {TRUE}, addr : Fetches]
      BY <3>1 DEF Inv, Asked
    <3> QED BY <3>2, FetchAssumption
  <2>3. CASE istate = "SKIP"
    <3>1. IC!cresp.last /\ iresp.data = IC!cresp.data
      BY <2>1, <2>3 DEF IC!dresp
    <3>2. busy /\ index = 1 /\ tx.busy
      BY <3>1 DEF IC!cresp, IC!CResp0
    <3>3. /\ IC!creq.addr = ireq.addr /\ IC!creq.len = 1
          /\ tx.start = IC!creq.addr /\ tx.len = IC!creq.len /\ tx.n \in 1 .. tx.len
      BY <2>3, <3>2, Facts DEF IC!creq, IC!creq_addr, IC!Bus, IREQ_TO_DREQ
    <3>4. txAddr = ireq.addr
      <4>1. /\ ireq.addr.offset \in 0 .. WordsPerLine - 1 /\ WordsPerLine \in Nat \ {0}
        BY <2>2, SizeAssumption DEF Addr, Offset
      <4>2. (ireq.addr.offset + 1 - 1) % WordsPerLine = ireq.addr.offset
        BY <4>1
      <4>3. tx.n = 1 /\ tx.start = ireq.addr
        BY <3>3
      <4> QED BY <2>2, <4>2, <4>3 DEF txAddr, Addr
    <3>5. ~tx.is_write /\ IC!txAddr = txAddr
      BY <3>2, FetchRead DEF IC!txAddr, txAddr
    <3> QED BY <3>1, <3>2, <3>4, <3>5 DEF IC!cresp, IC!CResp0
  <2>4. CASE istate # "SKIP"
    <3>1. /\ istate = "IDLE" /\ IC!hit
          /\ iresp.data = idata_ram[IC!index][IC!position][IC!offset]
      BY <2>1, <2>4 DEF IC!dresp, IC!ram_rdata
    <3>2. /\ IC!index \in Index /\ IC!position \in D!Way /\ IC!offset \in Offset
      BY IAssumptions, IC!LookupTypes, Facts, SameData
    <3>3. IC!ram_rmeta = imeta_ram[IC!index]
      BY <3>1 DEF IC!ram_rmeta, IC!meta_addr
    <3>4. /\ imeta_ram[IC!index][IC!position].valid
          /\ imeta_ram[IC!index][IC!position].tag = IC!tag
          /\ ~imeta_ram[IC!index][IC!position].dirty
      BY <3>1, <3>2, <3>3, IAssumptions, IC!HitFacts, Facts DEF Inv, Untouched
    <3>5. IC!LineInMemory(IC!index, IC!position)
      BY <3>1, <3>2, <3>4, SameData DEF Inv, IC!LinesInv, IC!CleanLineInMemory
    <3>6. ireq.addr = [tag |-> IC!tag, index |-> IC!index, offset |-> IC!offset]
      BY <2>2 DEF Addr, IC!tag, IC!index, IC!offset, IREQ_TO_DREQ
    <3> QED BY <3>1, <3>2, <3>4, <3>5, <3>6, SameData DEF IC!LineInMemory
  <2> QED BY <2>3, <2>4
<1> QED BY <1>1, InvCorrect, PTL

\* What the data cache's master should see is what the master of the test
\* bench sees.
LEMMA SameViews ==
  /\ ~reset => dView = DC!View
  /\ ~reset' => dView' = DC!View'
  BY SameData DEF dView, DC!View, DC!Holds, D!LastOf, DC!LastOf, D!Way, DC!Way,
     D!tag, DC!tag, D!index, DC!index

\* Behind the arbiter the data cache is still one memory.
THEOREM DataRightHolds == Spec => DataRight
<1>1. Inv /\ [Next]_vars =>
        [~reset /\ ~reset' =>
           IF dreq.valid /\ dresp.data_ok
           THEN /\ dreq.strobe = {} => dresp.data = dView[dreq.addr]
                /\ dView' = [dView EXCEPT ![dreq.addr] =
                               Merge(@, dreq.strobe, dreq.data)]
           ELSE dView' = dView]_vars
  <2> SUFFICES ASSUME Inv, Next, ~reset, ~reset'
               PROVE  IF dreq.valid /\ dresp.data_ok
                      THEN /\ dreq.strobe = {} => dresp.data = dView[dreq.addr]
                           /\ dView' = [dView EXCEPT ![dreq.addr] =
                                          Merge(@, dreq.strobe, dreq.data)]
                      ELSE dView' = dView
    OBVIOUS
  <2>1. Tick
    BY DEF Next, ResetTick, Restart
  <2>2. DC!RunningStep /\ DC!LinesInv
    BY <2>1, TickCaches DEF Inv
  <2>3. DC!IdleStoreDone
    BY FetchAssumption, Zeros DEF DC!IdleStoreDone, Inv, Asked
  <2>4. DC!answer = dresp
    BY SameDCache, DAnswer DEF DC!answer, dresp
  <2>5. IF dreq.valid /\ dresp.data_ok
        THEN /\ DC!View' = DC!Stored
             /\ dreq.strobe = {} => dresp.data = DC!View[dreq.addr]
        ELSE DC!View' = DC!View
    BY <2>2, <2>3, <2>4, DAssumptions, DC!CycleView
  <2> QED BY <2>5, SameViews DEF DC!Stored, Merge, DC!Merge
<1> QED BY <1>1, InvCorrect, PTL DEF Spec, DataRight

-----------------------------------------------------------------------------
(* The two tops together, as the runs have them                            *)

SP == INSTANCE SocTopProofs WITH
        left <- socLeft, Fetches <- SocFetches, Requests <- SocRequests

\* SocTop, of which Soc is an instance, and what SocTopProofs has of it are the
\* same: the types and the reset,
LEMMA SameTypes ==
  /\ Soc!Addr = SP!Addr
  /\ Soc!Word = SP!Word
  /\ Soc!DReq = SP!DReq
  /\ Soc!Addr0 = SP!Addr0
  /\ Soc!Word0 = SP!Word0
  /\ Soc!DReq0 = SP!DReq0
  /\ Soc!D!Index = SP!D!Index
  /\ Soc!I!Index = SP!I!Index
  /\ Soc!D!Offset = SP!D!Offset
  /\ Soc!I!Offset = SP!I!Offset
  /\ Soc!D!Word0 = SP!D!Word0
  /\ Soc!I!Word0 = SP!I!Word0
  /\ Soc!D!Addr0 = SP!D!Addr0
  /\ Soc!I!Addr0 = SP!I!Addr0
  /\ Soc!D!DReq0 = SP!D!DReq0
  /\ Soc!I!DReq0 = SP!I!DReq0
  /\ Soc!D!Addr = SP!D!Addr
  /\ Soc!I!Addr = SP!I!Addr
  /\ Soc!D!Word = SP!D!Word
  /\ Soc!I!Word = SP!I!Word
  /\ Soc!reset = SP!reset
  BY DEF Soc!Index, SP!Index, Soc!Offset, SP!Offset, Soc!Word, SP!Word,
         Soc!Strobe, SP!Strobe, Soc!Addr, SP!Addr, Soc!Addr0, SP!Addr0,
         Soc!Word0, SP!Word0, Soc!DReq, SP!DReq, Soc!DReq0, SP!DReq0, Soc!reset,
         SP!reset, Soc!D!Index, SP!D!Index, Soc!D!Offset, SP!D!Offset,
         Soc!D!Word, SP!D!Word, Soc!D!Strobe, SP!D!Strobe, Soc!D!Addr,
         SP!D!Addr, Soc!D!Addr0, SP!D!Addr0, Soc!D!Word0, SP!D!Word0,
         Soc!D!DReq, SP!D!DReq, Soc!D!DReq0, SP!D!DReq0, Soc!I!Index,
         SP!I!Index, Soc!I!Offset, SP!I!Offset, Soc!I!Word, SP!I!Word,
         Soc!I!Strobe, SP!I!Strobe, Soc!I!Addr, SP!I!Addr, Soc!I!Addr0,
         SP!I!Addr0, Soc!I!Word0, SP!I!Word0, Soc!I!DReq, SP!I!DReq,
         Soc!I!DReq0, SP!I!DReq0

\* what the data cache looks up and asks,
LEMMA SameDLookup ==
  /\ Soc!D!tag = SP!D!tag
  /\ Soc!D!index = SP!D!index
  /\ Soc!D!offset = SP!D!offset
  /\ Soc!D!cnt_nxt = SP!D!cnt_nxt
  /\ Soc!D!meta_addr = SP!D!meta_addr
  /\ Soc!D!ram_rmeta = SP!D!ram_rmeta
  /\ Soc!D!ram_rage = SP!D!ram_rage
  /\ Soc!D!hitWays = SP!D!hitWays
  /\ Soc!D!victims = SP!D!victims
  /\ Soc!D!hit = SP!D!hit
  /\ Soc!D!position = SP!D!position
  /\ Soc!D!wage = SP!D!wage
  /\ Soc!D!ram_rdata = SP!D!ram_rdata
  /\ Soc!D!creq_addr = SP!D!creq_addr
  /\ Soc!D!creq = SP!D!creq
<1>1. Soc!D!tag = SP!D!tag /\ Soc!D!index = SP!D!index /\ Soc!D!offset = SP!D!offset /\ Soc!D!cnt_nxt = SP!D!cnt_nxt /\ Soc!D!meta_addr = SP!D!meta_addr
  BY SameTypes DEF Soc!D!tag, SP!D!tag, Soc!D!index, SP!D!index, Soc!D!offset, SP!D!offset,
         Soc!D!cnt_nxt, SP!D!cnt_nxt, Soc!D!meta_addr, SP!D!meta_addr
<1>2. Soc!D!ram_rmeta = SP!D!ram_rmeta /\ Soc!D!ram_rage = SP!D!ram_rage
  BY SameTypes, <1>1 DEF Soc!D!ram_rmeta, SP!D!ram_rmeta, Soc!D!ram_rage, SP!D!ram_rage
<1>3. Soc!D!hitWays = SP!D!hitWays /\ Soc!D!victims = SP!D!victims
  BY SameTypes, <1>1, <1>2 DEF Soc!D!hitWays, SP!D!hitWays, Soc!D!victims, SP!D!victims, Soc!D!Way,
         SP!D!Way
<1>4. Soc!D!hit = SP!D!hit
  BY SameTypes, <1>1, <1>2, <1>3 DEF Soc!D!hit, SP!D!hit
<1>5. Soc!D!position = SP!D!position
  BY SameTypes, <1>1, <1>2, <1>3, <1>4 DEF Soc!D!position, SP!D!position, Soc!D!LastOf, SP!D!LastOf
<1>6. Soc!D!wage = SP!D!wage /\ Soc!D!ram_rdata = SP!D!ram_rdata
  BY SameTypes, <1>1, <1>2, <1>3, <1>4, <1>5 DEF Soc!D!wage, SP!D!wage, Soc!D!ram_rdata, SP!D!ram_rdata, Soc!D!Way, SP!D!Way
<1>7. Soc!D!creq_addr = SP!D!creq_addr
  BY SameTypes, <1>1, <1>2, <1>3, <1>4, <1>5, <1>6 DEF Soc!D!creq_addr, SP!D!creq_addr, Soc!D!Addr0, SP!D!Addr0
<1>8. Soc!D!creq = SP!D!creq
  BY SameTypes, <1>1, <1>2, <1>3, <1>4, <1>5, <1>6, <1>7 DEF Soc!D!creq, SP!D!creq
<1> QED BY <1>1, <1>2, <1>3, <1>4, <1>5, <1>6, <1>7, <1>8

\* what it answers and does in a cycle,
LEMMA SameDCycle ==
  ASSUME NEW cr
  PROVE  /\ Soc!D!dresp(cr) = SP!D!dresp(cr)
         /\ Soc!D!CacheCycle(cr) <=> SP!D!CacheCycle(cr)
         /\ Soc!D!ResetCycle(cr) <=> SP!D!ResetCycle(cr)
<1>1. Soc!D!Rams(cr) <=> SP!D!Rams(cr)
  BY SameTypes, SameDLookup DEF Soc!D!Rams, SP!D!Rams, Soc!D!TouchAges,
         SP!D!TouchAges, Soc!D!ClearSet, SP!D!ClearSet, Soc!D!WriteWord,
         SP!D!WriteWord, Soc!D!FillWord, SP!D!FillWord, Soc!D!KeepRams,
         SP!D!KeepRams, Soc!D!StoreHit, SP!D!StoreHit, Soc!D!Way, SP!D!Way,
         Soc!D!Meta0, SP!D!Meta0, Soc!D!Merge, SP!D!Merge
<1>2. Soc!D!dresp(cr) = SP!D!dresp(cr)
  BY SameDLookup DEF Soc!D!dresp, SP!D!dresp
<1>3. Soc!D!CacheCycle(cr) <=> SP!D!CacheCycle(cr)
  BY <1>1, SameTypes, SameDLookup DEF Soc!D!CacheCycle, SP!D!CacheCycle,
         Soc!D!Uncached, SP!D!Uncached, Soc!D!Flush, SP!D!Flush, Soc!D!Idle,
         SP!D!Idle, Soc!D!StartSkip, SP!D!StartSkip, Soc!D!StartMiss,
         SP!D!StartMiss, Soc!D!Allocate, SP!D!Allocate, Soc!D!WriteBack,
         SP!D!WriteBack, Soc!D!Skip, SP!D!Skip
<1>4. Soc!D!ResetCycle(cr) <=> SP!D!ResetCycle(cr)
  BY <1>1, SameTypes, SameDLookup DEF Soc!D!ResetCycle, SP!D!ResetCycle
<1> QED BY <1>1, <1>2, <1>3, <1>4

\* what the instruction cache looks up and asks,
LEMMA SameILookup ==
  /\ Soc!I!tag = SP!I!tag
  /\ Soc!I!index = SP!I!index
  /\ Soc!I!offset = SP!I!offset
  /\ Soc!I!cnt_nxt = SP!I!cnt_nxt
  /\ Soc!I!meta_addr = SP!I!meta_addr
  /\ Soc!I!ram_rmeta = SP!I!ram_rmeta
  /\ Soc!I!ram_rage = SP!I!ram_rage
  /\ Soc!I!hitWays = SP!I!hitWays
  /\ Soc!I!victims = SP!I!victims
  /\ Soc!I!hit = SP!I!hit
  /\ Soc!I!position = SP!I!position
  /\ Soc!I!wage = SP!I!wage
  /\ Soc!I!ram_rdata = SP!I!ram_rdata
  /\ Soc!I!creq_addr = SP!I!creq_addr
  /\ Soc!I!creq = SP!I!creq
<1>1. Soc!I!tag = SP!I!tag /\ Soc!I!index = SP!I!index /\ Soc!I!offset = SP!I!offset /\ Soc!I!cnt_nxt = SP!I!cnt_nxt /\ Soc!I!meta_addr = SP!I!meta_addr
  BY SameTypes DEF Soc!I!tag, SP!I!tag, Soc!I!index, SP!I!index, Soc!I!offset, SP!I!offset,
         Soc!I!cnt_nxt, SP!I!cnt_nxt, Soc!I!meta_addr, SP!I!meta_addr
<1>2. Soc!I!ram_rmeta = SP!I!ram_rmeta /\ Soc!I!ram_rage = SP!I!ram_rage
  BY SameTypes, <1>1 DEF Soc!I!ram_rmeta, SP!I!ram_rmeta, Soc!I!ram_rage, SP!I!ram_rage
<1>3. Soc!I!hitWays = SP!I!hitWays /\ Soc!I!victims = SP!I!victims
  BY SameTypes, <1>1, <1>2 DEF Soc!I!hitWays, SP!I!hitWays, Soc!I!victims, SP!I!victims, Soc!I!Way,
         SP!I!Way
<1>4. Soc!I!hit = SP!I!hit
  BY SameTypes, <1>1, <1>2, <1>3 DEF Soc!I!hit, SP!I!hit
<1>5. Soc!I!position = SP!I!position
  BY SameTypes, <1>1, <1>2, <1>3, <1>4 DEF Soc!I!position, SP!I!position, Soc!I!LastOf, SP!I!LastOf
<1>6. Soc!I!wage = SP!I!wage /\ Soc!I!ram_rdata = SP!I!ram_rdata
  BY SameTypes, <1>1, <1>2, <1>3, <1>4, <1>5 DEF Soc!I!wage, SP!I!wage, Soc!I!ram_rdata, SP!I!ram_rdata, Soc!I!Way, SP!I!Way
<1>7. Soc!I!creq_addr = SP!I!creq_addr
  BY SameTypes, <1>1, <1>2, <1>3, <1>4, <1>5, <1>6 DEF Soc!I!creq_addr, SP!I!creq_addr, Soc!I!Addr0, SP!I!Addr0
<1>8. Soc!I!creq = SP!I!creq
  BY SameTypes, <1>1, <1>2, <1>3, <1>4, <1>5, <1>6, <1>7 DEF Soc!I!creq, SP!I!creq
<1> QED BY <1>1, <1>2, <1>3, <1>4, <1>5, <1>6, <1>7, <1>8

\* what it answers and does in a cycle,
LEMMA SameICycle ==
  ASSUME NEW cr
  PROVE  /\ Soc!I!dresp(cr) = SP!I!dresp(cr)
         /\ Soc!I!CacheCycle(cr) <=> SP!I!CacheCycle(cr)
         /\ Soc!I!ResetCycle(cr) <=> SP!I!ResetCycle(cr)
<1>1. Soc!I!Rams(cr) <=> SP!I!Rams(cr)
  BY SameTypes, SameILookup DEF Soc!I!Rams, SP!I!Rams, Soc!I!TouchAges,
         SP!I!TouchAges, Soc!I!ClearSet, SP!I!ClearSet, Soc!I!WriteWord,
         SP!I!WriteWord, Soc!I!FillWord, SP!I!FillWord, Soc!I!KeepRams,
         SP!I!KeepRams, Soc!I!StoreHit, SP!I!StoreHit, Soc!I!Way, SP!I!Way,
         Soc!I!Meta0, SP!I!Meta0, Soc!I!Merge, SP!I!Merge
<1>2. Soc!I!dresp(cr) = SP!I!dresp(cr)
  BY SameILookup DEF Soc!I!dresp, SP!I!dresp
<1>3. Soc!I!CacheCycle(cr) <=> SP!I!CacheCycle(cr)
  BY <1>1, SameTypes, SameILookup DEF Soc!I!CacheCycle, SP!I!CacheCycle,
         Soc!I!Uncached, SP!I!Uncached, Soc!I!Flush, SP!I!Flush, Soc!I!Idle,
         SP!I!Idle, Soc!I!StartSkip, SP!I!StartSkip, Soc!I!StartMiss,
         SP!I!StartMiss, Soc!I!Allocate, SP!I!Allocate, Soc!I!WriteBack,
         SP!I!WriteBack, Soc!I!Skip, SP!I!Skip
<1>4. Soc!I!ResetCycle(cr) <=> SP!I!ResetCycle(cr)
  BY <1>1, SameTypes, SameILookup DEF Soc!I!ResetCycle, SP!I!ResetCycle
<1> QED BY <1>1, <1>2, <1>3, <1>4

\* what the bus asks and answers,
LEMMA SameBusses ==
  /\ Soc!ireqs = SP!ireqs /\ Soc!oreq = SP!oreq /\ Soc!wstrobe = SP!wstrobe
  /\ Soc!cresp = SP!cresp /\ Soc!dcresp = SP!dcresp /\ Soc!icresp = SP!icresp
  /\ Soc!iresp = SP!iresp /\ Soc!dresp = SP!dresp
<1>1. Soc!ireqs = SP!ireqs
  BY SameDLookup, SameILookup DEF Soc!ireqs, SP!ireqs
<1>2. Soc!oreq = SP!oreq
  BY <1>1 DEF Soc!oreq, SP!oreq, Soc!Arbiter!oreq, SP!Arbiter!oreq,
         Soc!Arbiter!CReq0, SP!Arbiter!CReq0, Soc!Arbiter!Addr0,
         SP!Arbiter!Addr0, Soc!Arbiter!Word0, SP!Arbiter!Word0
<1>3. Soc!wstrobe = SP!wstrobe
  BY <1>2 DEF Soc!wstrobe, SP!wstrobe
<1>4. Soc!cresp = SP!cresp
  BY <1>2, <1>3 DEF Soc!cresp, SP!cresp, Soc!ram_ready, SP!ram_ready,
         Soc!ram_last, SP!ram_last, Soc!last_write, SP!last_write, Soc!is_incr,
         SP!is_incr, Soc!Uncached, SP!Uncached
<1>5. Soc!dcresp = SP!dcresp /\ Soc!icresp = SP!icresp
  BY <1>4 DEF Soc!dcresp, SP!dcresp, Soc!icresp, SP!icresp, Soc!Arbiter!iresps,
         SP!Arbiter!iresps, Soc!Arbiter!Input, SP!Arbiter!Input,
         Soc!Arbiter!CResp0, SP!Arbiter!CResp0, Soc!Arbiter!Addr0,
         SP!Arbiter!Addr0, Soc!Arbiter!Word0, SP!Arbiter!Word0
<1>6. Soc!iresp = SP!iresp /\ Soc!dresp = SP!dresp
  BY <1>5, SameDCycle, SameICycle DEF Soc!iresp, SP!iresp, Soc!dresp, SP!dresp
<1> QED BY <1>1, <1>2, <1>3, <1>4, <1>5, <1>6

\* and what the system assumes, begins with and does.
LEMMA SameSystem ==
  /\ Soc!SocAssumption <=> SP!SocAssumption
  /\ Soc!Init <=> SP!Init
  /\ Soc!Next <=> SP!Next
<1>1. Soc!SocAssumption <=> SP!SocAssumption
  BY SameTypes DEF Soc!SocAssumption, SP!SocAssumption, Soc!Uncached, SP!Uncached
<1>2. Soc!Init <=> SP!Init
  BY SameTypes DEF Soc!Init, SP!Init, Soc!Arbiter!ArbiterInit,
         SP!Arbiter!ArbiterInit, Soc!D!CacheInit, SP!D!CacheInit, Soc!D!Way,
         SP!D!Way, Soc!D!Meta0, SP!D!Meta0, Soc!I!CacheInit, SP!I!CacheInit,
         Soc!I!Way, SP!I!Way, Soc!I!Meta0, SP!I!Meta0
<1>3. Soc!BramWrapper <=> SP!BramWrapper
  BY SameTypes, SameBusses DEF Soc!BramWrapper, SP!BramWrapper, Soc!Bram,
         SP!Bram, Soc!InLine, SP!InLine, Soc!burst_addr, SP!burst_addr,
         Soc!Merge, SP!Merge, Soc!ram_valid, SP!ram_valid, Soc!ram_last,
         SP!ram_last, Soc!last_write, SP!last_write, Soc!is_incr, SP!is_incr,
         Soc!Uncached, SP!Uncached
<1>4. Soc!Device <=> SP!Device
  BY SameBusses DEF Soc!Device, SP!Device, Soc!device_valid, SP!device_valid,
         Soc!Uncached, SP!Uncached
<1>5. Soc!Masters <=> SP!Masters
  BY SameTypes, SameBusses DEF Soc!Masters, SP!Masters
<1>6. /\ Soc!Arbiter!ArbiterCycle(Soc!ireqs, Soc!cresp)
         <=> SP!Arbiter!ArbiterCycle(SP!ireqs, SP!cresp)
      /\ Soc!Arbiter!ArbiterReset <=> SP!Arbiter!ArbiterReset
  BY SameBusses DEF Soc!Arbiter!ArbiterCycle, SP!Arbiter!ArbiterCycle,
         Soc!Arbiter!ArbiterReset, SP!Arbiter!ArbiterReset, Soc!Arbiter!Grant,
         SP!Arbiter!Grant, Soc!Arbiter!Release, SP!Arbiter!Release,
         Soc!Arbiter!select, SP!Arbiter!select, Soc!Arbiter!Input,
         SP!Arbiter!Input
<1>7. Soc!Tick <=> SP!Tick
  BY <1>3, <1>4, <1>5, <1>6, SameTypes, SameBusses, SameDCycle, SameICycle
  DEF Soc!Tick, SP!Tick
<1>8. Soc!ResetTick <=> SP!ResetTick
  BY <1>3, <1>4, <1>6, SameTypes, SameBusses, SameDCycle, SameICycle
  DEF Soc!ResetTick, SP!ResetTick
<1> QED BY <1>1, <1>2, <1>7, <1>8 DEF Soc!Next, SP!Next

\* What the data cache's master should see.
LEMMA SameView == Soc!View = SP!View /\ Soc!View' = SP!View'
  BY SameTypes DEF Soc!View, SP!View, Soc!D!Way, SP!D!Way, Soc!D!LastOf, SP!D!LastOf,
         Soc!D!tag, SP!D!tag, Soc!D!index, SP!D!index

\* The invariant of the two tops.
Tops ==
  /\ top \in {"VTop", "SocTop"}
  /\ top = "VTop" => socLeft = ResetTicks
  /\ top = "SocTop" => SP!Inv

\* SocTop keeps its invariant while it runs, and stays in reset while it does not.
LEMMA TopsInv == TopsSpec => []Tops
<1>1. SP!SocAssumption
  BY SocSizes, SameSystem
<1>2. SP!Inv /\ [SP!Next]_(SP!vars) => SP!Inv'
  BY <1>1, SP!NextInv, SizeAssumption, ByteAssumption, TagAssumption
<1>3. TopsInit => Tops
  <2>1. SP!Init => SP!Inv
    BY <1>1, SP!InitInv, SizeAssumption, ByteAssumption, TagAssumption
  <2> QED BY <2>1, SameSystem DEF TopsInit, Tops, Soc!Init
<1>4. Tops /\ VTopCycle => Tops'
  BY DEF Tops, VTopCycle, socVars
<1>5. Tops /\ SocTopCycle => Tops'
  <2> SUFFICES ASSUME Tops, SocTopCycle PROVE Tops'
    OBVIOUS
  <2>1. top = "SocTop" /\ top' = "SocTop" /\ SP!Next
    BY SameSystem DEF SocTopCycle
  <2>2. SP!Inv'
    BY <2>1, <1>2 DEF Tops
  <2> QED BY <2>1, <2>2 DEF Tops
<1>6. Tops /\ UNCHANGED topsVars => Tops'
  <2> SUFFICES ASSUME Tops, UNCHANGED topsVars PROVE Tops'
    OBVIOUS
  <2>1. UNCHANGED SP!vars
    BY DEF topsVars, vars, socVars, icacheVars, dcacheVars, arbiterVars, deviceVars,
           SP!vars, SP!icacheVars, SP!dcacheVars, SP!arbiterVars, SP!bramVars, SP!deviceVars
  <2>2. SP!Inv => SP!Inv'
    BY <2>1, <1>2
  <2>3. UNCHANGED <<top, socLeft>>
    BY DEF topsVars, socVars
  <2> QED BY <2>2, <2>3 DEF Tops
<1> QED BY <1>3, <1>4, <1>5, <1>6, PTL DEF TopsSpec

\* What SocTop's MemoryRight says of a cycle.
SocRight ==
  /\ ireq.valid /\ Soc!iresp.data_ok => Soc!iresp.data = InitMem[ireq.addr]
  /\ LET done  == dreq.valid /\ Soc!dresp.data_ok
         store == done /\ dreq.strobe # {}
     IN  /\ done /\ ~store => Soc!dresp.data = Soc!View[dreq.addr]
         /\ Soc!View' =
              IF store /\ ~Soc!Uncached(dreq.addr)
              THEN [Soc!View EXCEPT ![dreq.addr] = Soc!Merge(@, dreq.strobe, dreq.data)]
              ELSE Soc!View
         /\ out' = IF store /\ Soc!Uncached(dreq.addr) THEN dreq.data ELSE out

\* In the runs too, where VTop or SocTop runs: with every delay of the RAM
\* and every size of the caches a fetch and a load through SocTop get their
\* word, and a store reaches its own and no other.
THEOREM MemoryRightHolds == TopsSpec => MemoryRight
<1>1. Tops /\ [VTopCycle \/ SocTopCycle]_topsVars => [~Soc!reset => SocRight]_(Soc!vars)
  <2> SUFFICES ASSUME Tops, [VTopCycle \/ SocTopCycle]_topsVars,
                      ~Soc!reset, ~UNCHANGED Soc!vars
               PROVE  SocRight
    OBVIOUS
  <2>1. ~UNCHANGED topsVars
    BY DEF topsVars, vars, socVars, icacheVars, dcacheVars, arbiterVars, deviceVars,
           Soc!vars, Soc!icacheVars, Soc!dcacheVars, Soc!arbiterVars, Soc!bramVars,
           Soc!deviceVars
  <2>2. top = "SocTop"
    <3>1. ResetTicks > 0
      BY SocSizes, SizeAssumption DEF Soc!SocAssumption
    <3> QED BY <3>1 DEF Tops, Soc!reset
  <2>3. SP!Inv /\ SP!Next /\ ~SP!reset /\ SP!SocAssumption
    BY <2>1, <2>2, SocSizes, SameTypes, SameSystem DEF Tops, VTopCycle, SocTopCycle
  <2>4. SP!Right
    BY <2>3, SP!RightStep, SizeAssumption, ByteAssumption, TagAssumption
  <2> QED BY <2>4, SameView, SameBusses
      DEF SocRight, SP!Right, SP!Uncached, Soc!Uncached, SP!Merge, Soc!Merge
<1> QED BY <1>1, TopsInv, PTL DEF TopsSpec, MemoryRight, Soc!MemoryRight, SocRight
=============================================================================
