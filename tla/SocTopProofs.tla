---------------------------- MODULE SocTopProofs ----------------------------
(***************************************************************************)
(* Theorems about SocTop, for every value of the constants.  As in         *)
(* VTopProofs each cache is the cache of VCacheTop on a memory of its own; *)
(* here that memory's transaction has to be made out of the registers of   *)
(* the RAM's wrapper.  A write has moved as many words as burst_counter    *)
(* says, a read, which is answered a cycle late, one less, and an access   *)
(* of the device is a transaction of one beat, which begins when the bus   *)
(* is granted.  A store of the device does not change the memory: there    *)
(* the data cache's request is taken for a read.                           *)
(***************************************************************************)
EXTENDS SocTop, TLAPS

IReq0 == [valid |-> FALSE, addr |-> Addr0]

\* IREQ_TO_DREQ
FetchReq(r) == [valid |-> r.valid, addr |-> r.addr, strobe |-> {}, data |-> Word0]

Fetch == {FetchReq(r) : r \in [valid : {TRUE}, addr : Fetches]}

\* A request as the memory has it.
Stripped(r) ==
  [valid |-> r.valid, addr |-> r.addr,
   strobe |-> IF Uncached(r.addr) THEN {} ELSE r.strobe, data |-> r.data]

\* The word of the transaction on the bus is served in this cycle, unless the
\* device is not ready.
running ==
  \/ Uncached(oreq.addr)
  \/ IF oreq.is_write THEN real_valid ELSE ready_read

\* The first one will be served in the next cycle.
starting == IF oreq.is_write THEN counter = BRAM_DELAY ELSE real_valid

NoTx == [busy |-> FALSE, is_write |-> FALSE, start |-> Addr0, len |-> 0, n |-> 0]

BusTx ==
  [busy |-> TRUE,
   is_write |-> oreq.is_write /\ ~Uncached(oreq.addr),
   start |-> oreq.addr,
   len |-> oreq.len,
   n |-> IF Uncached(oreq.addr) THEN 1
         ELSE IF oreq.is_write THEN burst_counter + 1 ELSE burst_counter]

\* The transaction of cache i, and the cycles its memory takes part in.
TxFor(i) == IF busy /\ index = i /\ running THEN BusTx ELSE NoTx

EnableFor(i) ==
  IF busy /\ index = i
  THEN IF Uncached(oreq.addr) THEN device_ready ELSE running \/ starting
  ELSE ~busy /\ ireqs[i].valid /\ Uncached(ireqs[i].addr)

DC == INSTANCE VCacheTopProofs WITH
        dreq <- Stripped(dreq), state <- dstate, offset_cnt <- doffset_cnt,
        data_ram <- ddata_ram, meta_ram <- dmeta_ram, age_ram <- dage_ram,
        tx <- TxFor(0), enable <- EnableFor(0),
        Requests <- {Stripped(r) : r \in Requests}, IdleReqs <- {DReq0},
        rdata <- Word0

IC == INSTANCE VCacheTopProofs WITH
        dreq <- FetchReq(ireq), state <- istate, offset_cnt <- ioffset_cnt,
        data_ram <- idata_ram, meta_ram <- imeta_ram, age_ram <- iage_ram,
        tx <- TxFor(1), enable <- EnableFor(1), mem <- InitMem,
        Requests <- Fetch, IdleReqs <- {DReq0}, rdata <- Word0

-----------------------------------------------------------------------------
(* The invariant                                                           *)

\* What the masters ask.
Asked ==
  /\ dreq \in Requests \cup {DReq0}
  /\ ireq \in [valid : {TRUE}, addr : Fetches] \cup {IReq0}

\* The bus is granted to a cache that asks, and nobody asks in a reset.
Granted ==
  /\ busy \in BOOLEAN /\ index \in {0, 1}
  /\ reset => ~busy /\ dreq = DReq0
  /\ ~reset /\ busy => ireqs[index].valid

\* The wrapper waits, counts the words it has written, or has read one more
\* than it has answered.
Wrapper ==
  /\ counter \in 0 .. BRAM_DELAY /\ burst_counter \in Nat
  /\ real_valid \in BOOLEAN /\ ready_read \in BOOLEAN /\ last_read \in BOOLEAN
  /\ douta \in Word /\ device_ready \in BOOLEAN
  /\ ~busy \/ Uncached(oreq.addr) => ~real_valid /\ counter = 0
  /\ busy /\ ~Uncached(oreq.addr) =>
       /\ ~real_valid => burst_counter = 0 /\ ~ready_read /\ ~last_read
       /\ real_valid => counter = BRAM_DELAY
       /\ real_valid /\ oreq.is_write => burst_counter < WordsPerLine
       /\ real_valid /\ ~oreq.is_write =>
            /\ burst_counter <= WordsPerLine
            /\ ready_read <=> burst_counter > 0
            /\ last_read <=> burst_counter = WordsPerLine
            /\ burst_counter > 0 =>
                 douta = mem[[oreq.addr EXCEPT !.offset = burst_counter - 1]]

\* Some store is to line t of set i.
StoredTo(t, i) ==
  \E r \in Requests :
    r.strobe # {} /\ ~Uncached(r.addr) /\ r.addr.tag = t /\ r.addr.index = i

\* Only lines that are stored to are ever written back, and the instruction
\* cache has none.
Untouched ==
  /\ \A a \in Addr : ~StoredTo(a.tag, a.index) => mem[a] = InitMem[a]
  /\ \A i \in Index : \A w \in D!Way :
       /\ ~imeta_ram[i][w].dirty
       /\ dmeta_ram[i][w].dirty => StoredTo(dmeta_ram[i][w].tag, i)

Inv ==
  /\ Asked /\ Granted /\ Wrapper /\ Untouched
  /\ mem \in [Addr -> Word]
  /\ DC!ControlCore /\ IC!ControlCore
  /\ ~reset => DC!LinesInv /\ IC!LinesInv

-----------------------------------------------------------------------------
(* The copies of the definitions that the instances have are the same      *)

\* The types, and the empty requests, answers and transactions.
LEMMA SameData ==
  /\ D!Addr = Addr /\ DC!Addr = Addr /\ IC!Addr = Addr
  /\ D!Word = Word /\ DC!Word = Word /\ IC!Word = Word
  /\ D!DReq = DReq /\ DC!DReq = DReq /\ IC!DReq = DReq
  /\ D!DReq0 = DReq0 /\ DC!DReq0 = DReq0 /\ IC!DReq0 = DReq0
  /\ DC!Index = Index /\ IC!Index = Index /\ D!Index = Index
  /\ DC!Offset = Offset /\ IC!Offset = Offset
  /\ DC!Way = D!Way /\ IC!Way = D!Way
  /\ DC!CResp = CResp /\ IC!CResp = CResp
  /\ DC!CResp0 = CResp0 /\ IC!CResp0 = CResp0
  /\ DC!Tx = IC!Tx /\ DC!Tx0 = NoTx /\ IC!Tx0 = NoTx
  BY DEF Addr, D!Addr, DC!Addr, IC!Addr, Index, D!Index, DC!Index, IC!Index,
         Offset, D!Offset, DC!Offset, IC!Offset, Word, D!Word, DC!Word, IC!Word,
         DReq, D!DReq, DC!DReq, IC!DReq, Strobe, D!Strobe, DC!Strobe, IC!Strobe,
         DReq0, D!DReq0, DC!DReq0, IC!DReq0, Addr0, D!Addr0, DC!Addr0, IC!Addr0,
         Word0, D!Word0, DC!Word0, IC!Word0, D!Way, DC!Way, IC!Way,
         CResp, DC!CResp, IC!CResp, CResp0, DC!CResp0, IC!CResp0,
         DC!Tx, IC!Tx, NoTx, DC!Tx0, IC!Tx0

\* The sizes are usable, and the zeros of the types belong to them.
LEMMA Zeros ==
  /\ 0 \in Index /\ 0 \in Offset
  /\ Addr0 \in Addr /\ Word0 \in Word /\ DReq0 \in DReq /\ ~DReq0.valid
  /\ DReq0.strobe = {} /\ Uncached(Addr0) /\ Stripped(DReq0) = DReq0
<1>1. 0 \in Index /\ 0 \in Offset
  BY SizeAssumption DEF Index, Offset
<1>2. Addr0 \in Addr /\ Word0 \in Word /\ Uncached(Addr0)
  BY <1>1, TagAssumption, ByteAssumption DEF Addr0, Addr, Word0, Word, Uncached
<1> QED
  BY <1>1, <1>2 DEF DReq0, DReq, Strobe, Stripped

\* Both instances meet the assumptions of the test bench.
LEMMA DAssumptions ==
  ASSUME SocAssumption
  PROVE  /\ DC!TagAssumption /\ DC!ByteAssumption /\ DC!SizeAssumption
         /\ DC!InitMemAssumption /\ DC!RequestAssumption /\ DC!ResetAssumption
<1>1. ASSUME NEW r \in Requests PROVE Stripped(r) \in DReq /\ Stripped(r).valid
  BY DEF SocAssumption, Stripped, DReq, Strobe
<1> QED
  BY <1>1, SameData, Zeros, TagAssumption, ByteAssumption, SizeAssumption
     DEF SocAssumption

\* The instruction cache makes the same assumptions true.
LEMMA IAssumptions ==
  ASSUME SocAssumption
  PROVE  /\ IC!TagAssumption /\ IC!ByteAssumption /\ IC!SizeAssumption
         /\ IC!InitMemAssumption /\ IC!RequestAssumption /\ IC!ResetAssumption
<1>1. ASSUME NEW q \in Fetch PROVE q \in DReq /\ q.valid
  <2>1. PICK r \in [valid : {TRUE}, addr : Fetches] : q = FetchReq(r)
    BY DEF Fetch
  <2>2. r.valid /\ r.addr \in Addr
    BY DEF SocAssumption
  <2> QED BY <2>1, <2>2, Zeros DEF FetchReq, DReq, Strobe
<1> QED
  BY <1>1, SameData, Zeros, TagAssumption, ByteAssumption, SizeAssumption
     DEF SocAssumption

-----------------------------------------------------------------------------
(* The caches of SocTop are the caches of the two instances                *)

\* The instruction cache's request is the same record.
LEMMA SameICache ==
  /\ \A r : I!CacheCycle(r) <=> IC!CacheCycle(r)
  /\ \A r : I!ResetCycle(r) <=> IC!ResetCycle(r)
  /\ I!creq = IC!creq
  /\ \A r : I!dresp(r) = IC!dresp(r)
  BY DEF FetchReq,
    I!CacheCycle, I!ResetCycle, I!Flush, I!Idle, I!StartSkip, I!StartMiss, I!Allocate,
    I!WriteBack, I!Skip, I!Rams, I!TouchAges, I!ClearSet, I!WriteWord, I!StoreHit,
    I!FillWord, I!KeepRams, I!Uncached, I!Merge, I!hit, I!hitWays, I!Way, I!ram_rmeta,
    I!meta_addr, I!index, I!tag, I!offset, I!position, I!LastOf, I!victims, I!ram_rage,
    I!wage, I!cnt_nxt, I!Meta0, I!creq, I!creq_addr, I!ram_rdata, I!dresp, I!Addr0,
    IC!CacheCycle, IC!ResetCycle, IC!Flush, IC!Idle, IC!StartSkip, IC!StartMiss, IC!Allocate,
    IC!WriteBack, IC!Skip, IC!Rams, IC!TouchAges, IC!ClearSet, IC!WriteWord, IC!StoreHit,
    IC!FillWord, IC!KeepRams, IC!Uncached, IC!Merge, IC!hit, IC!hitWays, IC!Way, IC!ram_rmeta,
    IC!meta_addr, IC!index, IC!tag, IC!offset, IC!position, IC!LastOf, IC!victims, IC!ram_rage,
    IC!wage, IC!cnt_nxt, IC!Meta0, IC!creq, IC!creq_addr, IC!ram_rdata, IC!dresp, IC!Addr0

\* The data cache looks up the same, whatever the strobe.
LEMMA SameDLookup ==
  /\ D!tag = DC!tag /\ D!index = DC!index /\ D!offset = DC!offset
  /\ D!meta_addr = DC!meta_addr /\ D!ram_rmeta = DC!ram_rmeta
  /\ D!ram_rage = DC!ram_rage /\ D!hit = DC!hit /\ D!position = DC!position
  /\ D!wage = DC!wage /\ D!cnt_nxt = DC!cnt_nxt /\ D!ram_rdata = DC!ram_rdata
  /\ D!creq_addr = DC!creq_addr /\ D!Meta0 = DC!Meta0
<1>1. Stripped(dreq).addr = dreq.addr /\ Stripped(dreq).valid = dreq.valid
  BY DEF Stripped
<1>2. D!tag = DC!tag /\ D!index = DC!index /\ D!offset = DC!offset
  BY <1>1 DEF D!tag, DC!tag, D!index, DC!index, D!offset, DC!offset
<1>3. D!meta_addr = DC!meta_addr
  BY <1>2 DEF D!meta_addr, DC!meta_addr
<1>4. D!ram_rmeta = DC!ram_rmeta /\ D!ram_rage = DC!ram_rage
  BY <1>3 DEF D!ram_rmeta, DC!ram_rmeta, D!ram_rage, DC!ram_rage
<1>5. D!hitWays = DC!hitWays /\ D!victims = DC!victims /\ D!Way = DC!Way
  BY <1>2, <1>4 DEF D!hitWays, DC!hitWays, D!victims, DC!victims, D!Way, DC!Way
<1>6. D!hit = DC!hit
  BY <1>5 DEF D!hit, DC!hit
<1>7. D!position = DC!position
  BY <1>5, <1>6 DEF D!position, DC!position, D!LastOf, DC!LastOf
<1>8. D!wage = DC!wage
  BY <1>4, <1>5, <1>7 DEF D!wage, DC!wage
<1>9. D!cnt_nxt = DC!cnt_nxt
  BY DEF D!cnt_nxt, DC!cnt_nxt
<1>10. D!ram_rdata = DC!ram_rdata
  BY <1>2, <1>7 DEF D!ram_rdata, DC!ram_rdata
<1>11. D!creq_addr = DC!creq_addr
  BY <1>1, <1>2, <1>4, <1>7 DEF D!creq_addr, DC!creq_addr, D!Addr0, DC!Addr0
<1>12. D!Meta0 = DC!Meta0
  BY DEF D!Meta0, DC!Meta0
<1> QED
  BY <1>2, <1>3, <1>4, <1>6, <1>7, <1>8, <1>9, <1>10, <1>11, <1>12

\* Answers and requests are the same but for the strobe of a device access.
LEMMA SameDBus ==
  /\ \A r : D!dresp(r) = DC!dresp(r)
  /\ D!creq.valid = DC!creq.valid /\ D!creq.addr = DC!creq.addr
  /\ D!creq.len = DC!creq.len /\ D!creq.data = DC!creq.data
  /\ dstate # "SKIP" \/ ~Uncached(dreq.addr) =>
       D!creq.strobe = DC!creq.strobe /\ D!creq.is_write = DC!creq.is_write
<1>1. \A r : D!dresp(r) = DC!dresp(r)
  BY SameDLookup DEF D!dresp, DC!dresp
<1>2. /\ Stripped(dreq).data = dreq.data
      /\ ~Uncached(dreq.addr) => Stripped(dreq).strobe = dreq.strobe
  BY DEF Stripped
<1>3. /\ D!creq.valid = DC!creq.valid /\ D!creq.addr = DC!creq.addr
      /\ D!creq.len = DC!creq.len /\ D!creq.data = DC!creq.data
  BY <1>2, SameDLookup DEF D!creq, DC!creq
<1>4. CASE dstate # "SKIP"
  BY <1>1, <1>3, <1>4 DEF D!creq, DC!creq
<1>5. CASE ~Uncached(dreq.addr)
  BY <1>1, <1>2, <1>3, <1>5 DEF D!creq, DC!creq
<1> QED BY <1>1, <1>3, <1>4, <1>5

\* A cycle of the data cache is the same if no store hits a device address.
LEMMA SameDCache ==
  ASSUME NEW r, Stripped(dreq).strobe = dreq.strobe \/ dstate # "IDLE" \/ ~D!hit
  PROVE  /\ D!CacheCycle(r) => DC!CacheCycle(r)
         /\ D!ResetCycle(r) => DC!ResetCycle(r)
<1>1. /\ Stripped(dreq).data = dreq.data /\ Stripped(dreq).valid = dreq.valid
      /\ Stripped(dreq).addr = dreq.addr /\ D!Way = DC!Way
  BY DEF Stripped, D!Way, DC!Way
<1>2. D!StoreHit <=> DC!StoreHit
  BY SameDLookup DEF D!StoreHit, DC!StoreHit
<1>3. D!StoreHit => Stripped(dreq).strobe = dreq.strobe
  BY DEF D!StoreHit
<1>4. D!WriteWord <=> DC!WriteWord
  BY <1>1, <1>2, <1>3, SameDLookup
     DEF D!WriteWord, DC!WriteWord, D!Merge, DC!Merge
<1>5. D!Rams(r) <=> DC!Rams(r)
  <2>1. D!TouchAges <=> DC!TouchAges
    BY <1>1, SameDLookup DEF D!TouchAges, DC!TouchAges
  <2>2. D!ClearSet <=> DC!ClearSet
    BY <1>1, SameDLookup DEF D!ClearSet, DC!ClearSet
  <2>3. D!FillWord(r) <=> DC!FillWord(r)
    BY SameDLookup DEF D!FillWord, DC!FillWord
  <2>4. D!KeepRams <=> DC!KeepRams
    BY <1>2 DEF D!KeepRams, DC!KeepRams
  <2> QED BY <1>4, <2>1, <2>2, <2>3, <2>4 DEF D!Rams, DC!Rams
<1>6. D!ResetCycle(r) => DC!ResetCycle(r)
  BY <1>5, SameDLookup DEF D!ResetCycle, DC!ResetCycle
<1>7. D!CacheCycle(r) => DC!CacheCycle(r)
  <2>1. D!Uncached(dreq.addr) <=> DC!Uncached(Stripped(dreq).addr)
    BY <1>1 DEF D!Uncached, DC!Uncached
  <2> QED
    BY <1>1, <1>5, <2>1, SameDLookup
       DEF D!CacheCycle, D!Flush, D!Idle, D!StartSkip, D!StartMiss, D!Allocate,
           D!WriteBack, D!Skip, DC!CacheCycle, DC!Flush, DC!Idle, DC!StartSkip,
           DC!StartMiss, DC!Allocate, DC!WriteBack, DC!Skip
<1> QED BY <1>6, <1>7

-----------------------------------------------------------------------------
(* What each cache has of the bus                                          *)

\* What is known in a running cycle.
LEMMA Facts ==
  ASSUME Inv, ~reset
  PROVE  /\ DC!ControlInv /\ IC!ControlInv
         /\ DC!Types /\ IC!Types /\ DC!CacheTypeOK /\ IC!CacheTypeOK
         /\ DC!Bus /\ DC!Waiting /\ DC!Victim /\ DC!BeatsAgree /\ DC!DevicesNotCached
         /\ IC!Bus /\ IC!Waiting /\ IC!Victim /\ IC!BeatsAgree
  BY DEF Inv, DC!ControlCore, IC!ControlCore, DC!ControlInv, IC!ControlInv,
         DC!Types, IC!Types

\* What the masters may ask.
LEMMA Requested ==
  ASSUME SocAssumption, Inv
  PROVE  /\ dreq \in DReq /\ dreq.addr \in Addr
         /\ dreq.valid \/ dreq.strobe # {} => dreq \in Requests
         /\ ireq.valid => /\ ireq.addr \in Fetches /\ ireq.addr \in Addr
                          /\ ~Uncached(ireq.addr)
<1>1. dreq \in Requests \cup {DReq0}
  BY DEF Inv, Asked
<1>2. dreq \in DReq
  BY <1>1, Zeros DEF SocAssumption
<1>3. dreq.valid \/ dreq.strobe # {} => dreq \in Requests
  BY <1>1, Zeros
<1>4. ASSUME ireq.valid PROVE ireq.addr \in Fetches
  <2>1. ireq # IReq0
    BY <1>4 DEF IReq0
  <2>2. ireq \in [valid : {TRUE}, addr : Fetches]
    BY <2>1 DEF Inv, Asked
  <2> QED BY <2>2
<1> QED BY <1>2, <1>3, <1>4 DEF SocAssumption, DReq

\* The line of a fetch is not stored to, and a device's words are not.
LEMMA FetchedWord ==
  ASSUME SocAssumption, Inv, NEW a \in Addr, ireq.valid,
         a.tag = ireq.addr.tag, a.index = ireq.addr.index
  PROVE  mem[a] = InitMem[a]
<1>1. ireq.addr \in Fetches
  BY Requested
<1>2. ~StoredTo(a.tag, a.index)
  BY <1>1 DEF StoredTo, SocAssumption
<1> QED BY <1>2 DEF Inv, Untouched

\* No store to a device changes the memory.
LEMMA DeviceWord ==
  ASSUME SocAssumption, Inv, NEW a \in Addr, Uncached(a)
  PROVE  mem[a] = InitMem[a]
<1>1. ~StoredTo(a.tag, a.index)
  BY DEF StoredTo, Uncached
<1> QED BY <1>1 DEF Inv, Untouched

\* A device address is not in the data cache.
LEMMA DMisses ==
  ASSUME SocAssumption, Inv, ~reset, Uncached(dreq.addr), dstate # "FLUSH"
  PROVE  ~D!hit
<1>1. DC!Uncached(Stripped(dreq).addr)
  BY DEF Stripped, Uncached, DC!Uncached
<1>2. ~DC!hit
  BY <1>1, DAssumptions, Facts, DC!DeviceMisses
<1> QED BY <1>2, SameDLookup

\* No store hits a device address.
LEMMA DStrobe ==
  ASSUME SocAssumption, Inv
  PROVE  Stripped(dreq).strobe = dreq.strobe \/ dstate # "IDLE" \/ ~D!hit
<1>1. CASE reset
  BY <1>1, Zeros DEF Inv, Granted
<1>2. CASE ~Uncached(dreq.addr)
  BY <1>2 DEF Stripped
<1>3. CASE ~reset /\ Uncached(dreq.addr) /\ dstate = "IDLE"
  BY <1>3, DMisses
<1> QED BY <1>1, <1>2, <1>3

\* The request of the data cache, and the one of the instruction cache, which
\* never writes and is never for a device.
LEMMA DRequest ==
  ASSUME SocAssumption, Inv, ~reset, D!creq.valid
  PROVE  /\ dreq.valid /\ D!creq.addr \in Addr
         /\ \/ /\ dstate = "SKIP" /\ Uncached(D!creq.addr) /\ Uncached(dreq.addr)
               /\ D!creq.addr = dreq.addr /\ D!creq.len = 1
               /\ D!creq.strobe = dreq.strobe /\ D!creq.data = dreq.data
               /\ D!creq.is_write = (dreq.strobe # {})
            \/ /\ dstate \in {"ALLOCATE", "WRITE_BACK"}
               /\ ~Uncached(D!creq.addr) /\ ~Uncached(dreq.addr)
               /\ D!creq.is_write = (dstate = "WRITE_BACK")
               /\ D!creq.addr.offset = 0 /\ D!creq.len = WordsPerLine
               /\ D!creq.strobe = Lane
<1>1. dstate \in {"ALLOCATE", "WRITE_BACK", "SKIP"}
  BY DEF D!creq
<1>2. dreq.valid /\ (Uncached(dreq.addr) <=> dstate = "SKIP")
  BY <1>1, Facts DEF DC!Waiting, Stripped, Uncached, DC!Uncached
<1>3. D!tag \in Tag /\ D!index \in Index /\ D!position \in D!Way /\ D!tag = dreq.addr.tag
  BY DAssumptions, DC!LookupTypes, Facts, SameDLookup, SameData DEF D!tag
<1>4. CASE dstate = "SKIP"
  BY <1>2, <1>4, Requested DEF D!creq, D!creq_addr
<1>5. CASE dstate = "ALLOCATE"
  <2>1. D!creq.addr = [tag |-> D!tag, index |-> D!index, offset |-> 0]
    BY <1>5 DEF D!creq, D!creq_addr
  <2> QED
    BY <1>2, <1>3, <1>5, <2>1, Zeros DEF D!creq, Addr, Uncached
<1>6. CASE dstate = "WRITE_BACK"
  <2>1. D!creq.addr = [tag |-> D!ram_rmeta[D!position].tag, index |-> D!index, offset |-> 0]
    BY <1>6 DEF D!creq, D!creq_addr
  <2>2. D!ram_rmeta[D!position].valid
    BY <1>6, Facts, SameDLookup DEF DC!Victim
  <2>3. D!ram_rmeta = dmeta_ram[D!index]
    BY <1>6 DEF D!ram_rmeta, D!meta_addr
  <2>4. D!ram_rmeta[D!position].tag \notin IOTag
    BY <1>3, <2>2, <2>3, Facts, SameData DEF DC!DevicesNotCached
  <2>5. D!ram_rmeta[D!position].tag \in Tag
    <3>1. dmeta_ram \in [Index -> [D!Way -> DC!Meta]]
      BY Facts, SameData DEF DC!CacheTypeOK
    <3> QED BY <1>3, <2>3, <3>1 DEF DC!Meta
  <2> QED
    BY <1>2, <1>3, <1>6, <2>1, <2>4, <2>5, Zeros DEF D!creq, Addr, Uncached
<1> QED BY <1>1, <1>4, <1>5, <1>6

\* The instruction cache only asks for whole lines, and never writes.
LEMMA IRequest ==
  ASSUME SocAssumption, Inv, ~reset, I!creq.valid
  PROVE  /\ ireq.valid /\ istate = "ALLOCATE" /\ ~I!creq.is_write
         /\ I!creq.addr = [ireq.addr EXCEPT !.offset = 0]
         /\ I!creq.addr \in Addr /\ ~Uncached(I!creq.addr)
         /\ I!creq.len = WordsPerLine
<1>1. istate \in {"ALLOCATE", "WRITE_BACK", "SKIP"}
  BY DEF I!creq
<1>2. ireq.valid /\ (IC!Uncached(FetchReq(ireq).addr) <=> istate = "SKIP")
  BY <1>1, Facts DEF IC!Waiting, FetchReq
<1>3. istate # "SKIP"
  BY <1>2, Requested DEF FetchReq, IC!Uncached, Uncached
<1>4. istate # "WRITE_BACK"
  <2> SUFFICES ASSUME istate = "WRITE_BACK" PROVE FALSE
    OBVIOUS
  <2>1. IC!ram_rmeta[IC!position].dirty
    BY Facts DEF IC!Victim
  <2>2. IC!ram_rmeta = imeta_ram[IC!index]
    BY DEF IC!ram_rmeta, IC!meta_addr
  <2>3. IC!index \in Index /\ IC!position \in D!Way
    BY IAssumptions, IC!LookupTypes, Facts, SameData
  <2> QED BY <2>1, <2>2, <2>3 DEF Inv, Untouched
<1>5. I!creq.addr = [ireq.addr EXCEPT !.offset = 0]
  <2>1. I!creq.addr = [tag |-> ireq.addr.tag, index |-> ireq.addr.index, offset |-> 0]
    BY <1>1, <1>3, <1>4 DEF I!creq, I!creq_addr, I!tag, I!index
  <2>2. ireq.addr \in Addr
    BY <1>2, Requested
  <2> QED BY <2>1, <2>2 DEF Addr
<1>6. I!creq.addr \in Addr /\ ~Uncached(I!creq.addr)
  BY <1>2, <1>5, Requested, Zeros DEF Addr, Uncached
<1> QED BY <1>1, <1>2, <1>3, <1>4, <1>5, <1>6 DEF I!creq

\* The owner's request is on the bus; a free bus carries zeros.
LEMMA BusRequest ==
  ASSUME SocAssumption, Inv
  PROVE  /\ ireqs[0] = D!creq /\ ireqs[1] = I!creq
         /\ ~busy => ~oreq.valid /\ Uncached(oreq.addr)
         /\ busy => /\ ~reset /\ index \in {0, 1}
                    /\ oreq = ireqs[index] /\ oreq.valid
                    /\ oreq.addr \in Addr /\ oreq.is_write \in BOOLEAN
         /\ busy /\ index = 1 => ~oreq.is_write
         /\ busy /\ Uncached(oreq.addr) => index = 0 /\ oreq.len = 1
         /\ busy /\ ~Uncached(oreq.addr) =>
              /\ oreq.addr.offset = 0 /\ oreq.len = WordsPerLine
              /\ oreq.is_write => oreq.strobe = Lane
<1>1. ireqs[0] = D!creq /\ ireqs[1] = I!creq
  BY DEF ireqs
<1>2. ASSUME ~busy PROVE ~oreq.valid /\ Uncached(oreq.addr)
  <2>1. oreq = Arbiter!CReq0
    BY <1>2 DEF oreq, Arbiter!oreq
  <2> QED BY <2>1, TagAssumption DEF Arbiter!CReq0, Arbiter!Addr0, Uncached
<1>3. ASSUME busy PROVE ~reset /\ index \in {0, 1} /\ oreq = ireqs[index] /\ oreq.valid
  BY <1>3 DEF Inv, Granted, oreq, Arbiter!oreq
<1>4. ASSUME busy PROVE oreq.is_write \in BOOLEAN
  <2>1. D!creq.is_write \in BOOLEAN
    BY DEF D!creq
  <2>2. I!creq.is_write \in BOOLEAN
    BY DEF I!creq
  <2>3. CASE index = 0
    BY <1>1, <1>3, <1>4, <2>1, <2>3
  <2>4. CASE index = 1
    BY <1>1, <1>3, <1>4, <2>2, <2>4
  <2> QED BY <1>3, <1>4, <2>3, <2>4
<1>5. CASE busy /\ index = 0
  BY <1>1, <1>3, <1>4, <1>5, DRequest
<1>6. CASE busy /\ index = 1
  <2>1. I!creq.addr.offset = 0
    BY <1>1, <1>3, <1>6, IRequest, Requested DEF Addr
  <2> QED BY <1>1, <1>3, <1>4, <1>6, <2>1, IRequest
<1> QED BY <1>1, <1>2, <1>3, <1>5, <1>6

\* The owner of the bus alone sees the answer on it.
LEMMA Answers ==
  /\ dcresp = IF busy /\ index = 0 THEN cresp ELSE CResp0
  /\ icresp = IF busy /\ index = 1 THEN cresp ELSE CResp0
  BY DEF dcresp, icresp, Arbiter!iresps, Arbiter!Input, Arbiter!CResp0, CResp0,
         Arbiter!Word0, Word0

\* The wrapper answers the word of the running beat, and says which is last.
LEMMA CachedAnswer ==
  ASSUME SocAssumption, Inv, busy, ~Uncached(oreq.addr)
  PROVE  /\ running = IF oreq.is_write THEN real_valid ELSE ready_read
         /\ running \in BOOLEAN
         /\ is_incr /\ wstrobe = IF oreq.is_write THEN Lane ELSE {}
         /\ cresp.ready = running
         /\ cresp.last <=> running /\ BusTx.n = WordsPerLine
         /\ cresp.last = ram_last
         /\ running => BusTx.n \in 1 .. WordsPerLine
         /\ ~oreq.is_write => cresp.data = douta
<1>1. /\ oreq.addr \in Addr /\ oreq.is_write \in BOOLEAN /\ oreq.len = WordsPerLine
      /\ oreq.is_write => oreq.strobe = Lane
  BY BusRequest
<1>2. WordsPerLine \in Nat \ {0}
  BY SizeAssumption
<1>3. /\ burst_counter \in Nat
      /\ real_valid \in BOOLEAN /\ ready_read \in BOOLEAN /\ last_read \in BOOLEAN
      /\ ~real_valid => burst_counter = 0 /\ ~ready_read /\ ~last_read
      /\ real_valid /\ oreq.is_write => burst_counter < WordsPerLine
      /\ real_valid /\ ~oreq.is_write =>
           /\ burst_counter <= WordsPerLine
           /\ ready_read <=> burst_counter > 0
           /\ last_read <=> burst_counter = WordsPerLine
  BY DEF Inv, Wrapper
<1>4. is_incr
  BY <1>1 DEF is_incr
<1>5. cresp = [ready |-> ram_ready, last |-> ram_last, data |-> douta]
  BY DEF cresp
<1>6. CASE oreq.is_write
  <2>1. wstrobe = Lane /\ Lane # {}
    BY <1>1, <1>6 DEF wstrobe, SocAssumption
  <2>2. ram_ready = real_valid /\ ram_last = last_write
    BY <2>1 DEF ram_ready, ram_last
  <2>3. running = real_valid
    BY <1>3, <1>6 DEF running
  <2>4. BusTx.n = burst_counter + 1
    BY <1>6 DEF BusTx
  <2>5. last_write <=> real_valid /\ burst_counter = WordsPerLine - 1
    BY <1>1, <1>4 DEF last_write
  <2> QED BY <1>2, <1>3, <1>4, <1>5, <1>6, <2>1, <2>2, <2>3, <2>4, <2>5
<1>7. CASE ~oreq.is_write
  <2>1. wstrobe = {}
    BY <1>7 DEF wstrobe
  <2>2. ram_ready = ready_read /\ ram_last = last_read
    BY <2>1 DEF ram_ready, ram_last
  <2>3. running = ready_read
    BY <1>3, <1>7 DEF running
  <2>4. BusTx.n = burst_counter
    BY <1>7 DEF BusTx
  <2> QED BY <1>2, <1>3, <1>4, <1>5, <1>7, <2>1, <2>2, <2>3, <2>4
<1> QED BY <1>6, <1>7

\* A word read is the one of the running beat in memory.
LEMMA ReadAnswer ==
  ASSUME SocAssumption, Inv, busy, ~oreq.is_write \/ Uncached(oreq.addr), running
  PROVE  LET a == [oreq.addr EXCEPT !.offset = (oreq.addr.offset + BusTx.n - 1) % WordsPerLine]
         IN  /\ a \in Addr /\ cresp.data = mem[a]
             /\ a.tag = oreq.addr.tag /\ a.index = oreq.addr.index
<1> DEFINE a == [oreq.addr EXCEPT !.offset = (oreq.addr.offset + BusTx.n - 1) % WordsPerLine]
<1>1. oreq.addr \in Addr /\ WordsPerLine \in Nat \ {0}
  BY BusRequest, SizeAssumption
<1>2. oreq.addr.offset \in 0 .. WordsPerLine - 1
  BY <1>1 DEF Addr, Offset
<1>3. CASE Uncached(oreq.addr)
  <2>1. BusTx.n = 1
    BY <1>3 DEF BusTx
  <2>2. (oreq.addr.offset + 1 - 1) % WordsPerLine = oreq.addr.offset
    BY <1>1, <1>2
  <2>3. a = oreq.addr
    BY <1>1, <2>1, <2>2 DEF Addr
  <2>4. cresp.data = InitMem[oreq.addr]
    BY <1>3 DEF cresp
  <2> QED BY <1>1, <1>3, <2>3, <2>4, DeviceWord
<1>4. CASE ~Uncached(oreq.addr)
  <2>1. /\ oreq.addr.offset = 0 /\ BusTx.n \in 1 .. WordsPerLine /\ cresp.data = douta
        /\ ready_read
    BY <1>4, BusRequest, CachedAnswer
  <2>2. BusTx.n = burst_counter
    BY <1>4 DEF BusTx
  <2>3. (0 + burst_counter - 1) % WordsPerLine = burst_counter - 1
    BY <1>1, <2>1, <2>2
  <2>4. a = [oreq.addr EXCEPT !.offset = burst_counter - 1]
    BY <2>1, <2>2, <2>3
  <2>5. douta = mem[[oreq.addr EXCEPT !.offset = burst_counter - 1]]
    BY <1>4, <2>1, <2>2 DEF Inv, Wrapper
  <2>6. burst_counter - 1 \in Offset
    BY <1>1, <2>1, <2>2 DEF Offset
  <2> QED BY <1>1, <2>1, <2>4, <2>5, <2>6 DEF Addr
<1> QED BY <1>3, <1>4

\* What each cache is answered has the type of an answer.
LEMMA AnswerTypes ==
  ASSUME SocAssumption, Inv
  PROVE  dcresp \in CResp /\ icresp \in CResp
<1>1. CResp0 \in CResp
  BY Zeros DEF CResp0, CResp
<1>2. douta \in Word /\ device_ready \in BOOLEAN
  BY DEF Inv, Wrapper
<1>3. ASSUME busy PROVE cresp \in CResp
  <2>1. CASE Uncached(oreq.addr)
    <3>1. InitMem[oreq.addr] \in Word
      BY <1>3, BusRequest DEF SocAssumption
    <3>2. cresp = [ready |-> device_ready, last |-> device_ready, data |-> InitMem[oreq.addr]]
      BY <2>1 DEF cresp
    <3> QED BY <1>2, <3>1, <3>2 DEF CResp
  <2>2. CASE ~Uncached(oreq.addr)
    <3>1. ram_ready \in BOOLEAN
      BY DEF Inv, Wrapper, ram_ready
    <3>2. ram_last \in BOOLEAN
      <4>1. CASE wstrobe = {}
        BY <4>1 DEF Inv, Wrapper, ram_last
      <4>2. CASE wstrobe # {}
        BY <4>2 DEF ram_last, last_write
      <4> QED BY <4>1, <4>2
    <3>3. cresp = [ready |-> ram_ready, last |-> ram_last, data |-> douta]
      BY <2>2 DEF cresp
    <3> QED BY <1>2, <3>1, <3>2, <3>3 DEF CResp
  <2> QED BY <2>1, <2>2
<1> QED BY <1>1, <1>3, Answers

\* What the data cache sees is the answer of its own memory.
LEMMA DSees ==
  ASSUME SocAssumption, Inv, ~reset
  PROVE  DC!Sees(dcresp)
<1>1. CASE ~(busy /\ index = 0)
  <2>1. dcresp = CResp0 /\ TxFor(0) = NoTx
    BY <1>1, Answers DEF TxFor
  <2>2. DC!cresp = CResp0
    BY <2>1, SameData DEF DC!cresp, NoTx
  <2> QED BY <2>1, <2>2 DEF DC!Sees, CResp0
<1>2. CASE busy /\ index = 0 /\ ~running
  <2>1. ~Uncached(oreq.addr)
    BY <1>2 DEF running
  <2>2. TxFor(0) = NoTx /\ dcresp = cresp
    BY <1>2, Answers DEF TxFor
  <2>3. DC!cresp = CResp0
    BY <2>2, SameData DEF DC!cresp, NoTx
  <2>4. cresp.ready = FALSE /\ cresp.last = FALSE
    <3>1. ~running /\ running \in BOOLEAN /\ cresp.ready = running
      BY <1>2, <2>1, CachedAnswer
    <3>2. ~cresp.last /\ cresp.last \in BOOLEAN
      BY <1>2, <2>1, CachedAnswer, AnswerTypes, Answers DEF CResp
    <3> QED BY <3>1, <3>2
  <2> QED BY <2>2, <2>3, <2>4 DEF DC!Sees, CResp0
<1>3. CASE busy /\ index = 0 /\ running
  <2>1. TxFor(0) = BusTx /\ dcresp = cresp
    BY <1>3, Answers DEF TxFor
  <2>2. /\ BusTx.busy /\ BusTx.is_write = (oreq.is_write /\ ~Uncached(oreq.addr))
        /\ BusTx.start = oreq.addr /\ BusTx.len = oreq.len
    BY DEF BusTx
  <2>3. DC!cresp = IF EnableFor(0) THEN
                   [ready |-> TRUE, last |-> BusTx.n = BusTx.len,
                    data |-> IF BusTx.is_write THEN Word0 ELSE mem[DC!txAddr]]
                   ELSE CResp0
    BY <2>1, <2>2, SameData DEF DC!cresp, DC!txLast, Word0, DC!Word0
  <2>4. DC!txAddr = [oreq.addr EXCEPT
                       !.offset = (oreq.addr.offset + BusTx.n - 1) % WordsPerLine]
    BY <2>1, <2>2 DEF DC!txAddr
  <2>5. ~BusTx.is_write => cresp.data = mem[DC!txAddr]
    BY <1>3, <2>2, <2>4, ReadAnswer
  <2>6. cresp.ready = DC!cresp.ready /\ cresp.last = DC!cresp.last
    <3>1. CASE Uncached(oreq.addr)
      <4>1. BusTx.n = 1 /\ oreq.len = 1 /\ EnableFor(0) = device_ready
        BY <1>3, <3>1, BusRequest DEF BusTx, EnableFor
      <4>2. cresp.ready = device_ready /\ cresp.last = device_ready
        BY <3>1 DEF cresp
      <4>3. device_ready \in BOOLEAN
        BY DEF Inv, Wrapper
      <4>4. CASE device_ready
        BY <2>2, <2>3, <4>1, <4>2, <4>3, <4>4
      <4>5. CASE ~device_ready
        BY <2>2, <2>3, <4>1, <4>2, <4>3, <4>5 DEF CResp0
      <4> QED BY <4>4, <4>5
    <3>2. CASE ~Uncached(oreq.addr)
      <4>1. EnableFor(0)
        BY <1>3, <3>2 DEF EnableFor
      <4>2. cresp.ready = TRUE /\ (cresp.last <=> BusTx.n = BusTx.len)
        BY <1>3, <2>2, <3>2, CachedAnswer, BusRequest
      <4>3. cresp.last \in BOOLEAN
        BY <1>3, AnswerTypes, Answers DEF CResp
      <4>4. DC!cresp.ready = TRUE /\ DC!cresp.last = (BusTx.n = BusTx.len)
        BY <2>3, <4>1
      <4> QED BY <4>2, <4>3, <4>4
    <3> QED BY <3>1, <3>2
  <2>7. DC!cresp.ready /\ ~BusTx.is_write => DC!cresp.data = mem[DC!txAddr]
    BY <2>3 DEF CResp0
  <2> QED BY <2>1, <2>5, <2>6, <2>7 DEF DC!Sees
<1> QED BY <1>1, <1>2, <1>3

\* The masters are told the same: a load gets the same word.
LEMMA DAnswered ==
  ASSUME SocAssumption, Inv, ~reset
  PROVE  /\ DC!answer.data_ok = dresp.data_ok
         /\ dresp.data_ok /\ (dreq.strobe = {} \/ Uncached(dreq.addr)) =>
              DC!answer.data = dresp.data
<1>1. dresp = DC!dresp(dcresp)
  BY SameDBus DEF dresp
<1>2. dcresp.last = DC!cresp.last
  BY DSees DEF DC!Sees
<1>3. DC!answer.data_ok = dresp.data_ok
  BY <1>1, <1>2 DEF DC!answer, DC!dresp
<1>4. CASE dstate # "SKIP"
  BY <1>1, <1>3, <1>4 DEF DC!answer, DC!dresp
<1>5. CASE dstate = "SKIP" /\ dresp.data_ok
  <2>1. DC!cresp.last
    BY <1>1, <1>2, <1>5 DEF DC!dresp
  <2>2. DC!cresp.ready /\ TxFor(0).busy
    BY <2>1 DEF DC!cresp, DC!CResp0
  <2>3. busy /\ index = 0 /\ TxFor(0) = BusTx
    BY <2>2 DEF TxFor, NoTx
  <2>4. Uncached(oreq.addr)
    BY <1>5, <2>3, BusRequest, DRequest
  <2>5. ~TxFor(0).is_write
    <3>1. BusTx.is_write = (oreq.is_write /\ ~Uncached(oreq.addr))
      BY DEF BusTx
    <3> QED BY <2>3, <2>4, <3>1
  <2>6. dcresp.data = DC!cresp.data
    BY <2>2, <2>5, DSees DEF DC!Sees
  <2> QED BY <1>1, <1>3, <1>5, <2>6 DEF DC!answer, DC!dresp
<1> QED BY <1>3, <1>4, <1>5

\* The instruction cache sees what a memory that stays as it was answers.
LEMMA ISees ==
  ASSUME SocAssumption, Inv, ~reset
  PROVE  IC!Sees(icresp)
<1>1. CASE ~(busy /\ index = 1)
  <2>1. icresp = CResp0 /\ TxFor(1) = NoTx
    BY <1>1, Answers DEF TxFor
  <2>2. IC!cresp = CResp0
    BY <2>1, SameData DEF IC!cresp, NoTx
  <2> QED BY <2>1, <2>2 DEF IC!Sees, CResp0
<1>2. ASSUME busy /\ index = 1
      PROVE  ~Uncached(oreq.addr) /\ ~oreq.is_write /\ icresp = cresp /\ ireq.valid
             /\ oreq.addr = [ireq.addr EXCEPT !.offset = 0] /\ oreq.addr \in Addr
  BY <1>2, BusRequest, IRequest, Answers
<1>3. CASE busy /\ index = 1 /\ ~running
  <2>1. TxFor(1) = NoTx
    BY <1>3 DEF TxFor
  <2>2. IC!cresp = CResp0
    BY <2>1, SameData DEF IC!cresp, NoTx
  <2>3. cresp.ready = FALSE /\ cresp.last = FALSE
    <3>1. ~running /\ running \in BOOLEAN /\ cresp.ready = running
      BY <1>2, <1>3, CachedAnswer
    <3>2. ~cresp.last /\ cresp.last \in BOOLEAN
      BY <1>2, <1>3, CachedAnswer, AnswerTypes, Answers DEF CResp
    <3> QED BY <3>1, <3>2
  <2> QED BY <1>2, <1>3, <2>2, <2>3 DEF IC!Sees, CResp0
<1>4. CASE busy /\ index = 1 /\ running
  <2>1. /\ TxFor(1) = BusTx /\ BusTx.busy /\ ~BusTx.is_write
        /\ BusTx.start = oreq.addr /\ BusTx.len = WordsPerLine /\ EnableFor(1)
    BY <1>2, <1>4, BusRequest DEF TxFor, BusTx, EnableFor
  <2>2. IC!cresp = [ready |-> TRUE, last |-> BusTx.n = BusTx.len,
                    data |-> InitMem[IC!txAddr]]
    BY <2>1 DEF IC!cresp, IC!txLast
  <2>3. IC!txAddr = [oreq.addr EXCEPT
                       !.offset = (oreq.addr.offset + BusTx.n - 1) % WordsPerLine]
    BY <2>1 DEF IC!txAddr
  <2>4. /\ cresp.data = mem[IC!txAddr] /\ IC!txAddr \in Addr
        /\ IC!txAddr.tag = oreq.addr.tag /\ IC!txAddr.index = oreq.addr.index
    BY <1>2, <1>4, <2>3, ReadAnswer
  <2>5. oreq.addr.tag = ireq.addr.tag /\ oreq.addr.index = ireq.addr.index
    BY <1>2, <1>4, Requested DEF Addr
  <2>6. cresp.data = InitMem[IC!txAddr]
    BY <1>2, <1>4, <2>4, <2>5, FetchedWord
  <2>7. cresp.ready = TRUE /\ (cresp.last <=> BusTx.n = BusTx.len)
    BY <1>2, <1>4, <2>1, CachedAnswer
  <2>8. cresp.last \in BOOLEAN
    BY <1>2, <1>4, AnswerTypes DEF CResp
  <2>9. cresp.last = (BusTx.n = BusTx.len)
    BY <2>7, <2>8
  <2> QED BY <1>2, <1>4, <2>2, <2>6, <2>7, <2>9 DEF IC!Sees
<1> QED BY <1>1, <1>3, <1>4

-----------------------------------------------------------------------------
(* A cycle of the bus and of the wrapper                                   *)

\* Every cycle of the data cache is one of the instance.
LEMMA DCacheCycle ==
  ASSUME SocAssumption, Inv
  PROVE  /\ D!CacheCycle(dcresp) => DC!CacheCycle(dcresp)
         /\ D!ResetCycle(dcresp) => DC!ResetCycle(dcresp)
  BY DStrobe, SameDCache

\* A cache that is not given a last word keeps its request.
LEMMA DHeld ==
  ASSUME SocAssumption, Inv, Tick, D!creq.valid, ~dcresp.last
  PROVE  /\ dreq' = dreq /\ dstate' = dstate
         /\ D!creq'.valid /\ D!creq'.addr = D!creq.addr
         /\ D!creq'.is_write = D!creq.is_write /\ D!creq'.len = D!creq.len
<1>1. ~reset /\ D!CacheCycle(dcresp) /\ DC!CacheCycle(dcresp)
  BY DCacheCycle DEF Tick
<1>2. dstate \in {"ALLOCATE", "WRITE_BACK", "SKIP"} /\ dreq.valid
  BY <1>1, DRequest DEF D!creq
<1>3. ~dresp.data_ok
  BY <1>2 DEF dresp, D!dresp
<1>4. dreq' = dreq
  BY <1>2, <1>3 DEF Tick, Masters
<1>5. dstate' = dstate
  BY <1>1, <1>2 DEF D!CacheCycle, D!Flush, D!Idle, D!StartSkip, D!StartMiss,
         D!Allocate, D!WriteBack, D!Skip
<1>6. CASE dstate = "WRITE_BACK"
  <2>1. ~DC!hit /\ DC!Rams(dcresp)
    BY <1>1, <1>6, Facts
       DEF DC!Victim, DC!CacheCycle, DC!Flush, DC!Idle, DC!StartSkip, DC!StartMiss,
           DC!Allocate, DC!WriteBack, DC!Skip
  <2>2. dmeta_ram' = dmeta_ram /\ dage_ram' = dage_ram
    BY <1>1, <1>6, <2>1, DAssumptions, DC!MissKeepsRams
  <2>3. D!creq_addr' = D!creq_addr
    BY <1>4, <1>5, <2>2
       DEF D!creq_addr, D!tag, D!index, D!ram_rmeta, D!ram_rage, D!meta_addr,
           D!position, D!hit, D!hitWays, D!victims, D!LastOf, D!Way, D!Addr0
  <2> QED BY <1>4, <1>5, <1>6, <2>3 DEF D!creq
<1>7. CASE dstate # "WRITE_BACK"
  BY <1>2, <1>4, <1>5, <1>7 DEF D!creq, D!creq_addr, D!tag, D!index
<1> QED BY <1>4, <1>5, <1>6, <1>7

\* The instruction cache too holds its request until the last answer.
LEMMA IHeld ==
  ASSUME SocAssumption, Inv, Tick, I!creq.valid, ~icresp.last
  PROVE  /\ I!creq'.valid /\ I!creq'.addr = I!creq.addr
         /\ I!creq'.is_write = I!creq.is_write /\ I!creq'.len = I!creq.len
<1>1. ~reset /\ I!CacheCycle(icresp)
  BY DEF Tick
<1>2. istate = "ALLOCATE" /\ ireq.valid
  BY <1>1, IRequest
<1>3. ~iresp.data_ok
  BY <1>2 DEF iresp, I!dresp
<1>4. ireq' = ireq
  BY <1>2, <1>3 DEF Tick, Masters
<1>5. istate' = istate
  BY <1>1, <1>2 DEF I!CacheCycle, I!Flush, I!Idle, I!StartSkip, I!StartMiss,
         I!Allocate, I!WriteBack, I!Skip
<1> QED BY <1>2, <1>4, <1>5 DEF I!creq, I!creq_addr, I!tag, I!index

\* A free bus goes to the data cache, if it asks, and else to the other one.
LEMMA Grants ==
  ASSUME SocAssumption, Inv, Tick, ~busy
  PROVE  /\ busy' = (D!creq.valid \/ I!creq.valid)
         /\ index' = IF ~D!creq.valid /\ I!creq.valid THEN 1 ELSE 0
         /\ ~dcresp.last /\ ~icresp.last
<1>1. busy' = ireqs[Arbiter!select(ireqs)].valid /\ index' = Arbiter!select(ireqs)
  BY DEF Tick, Arbiter!ArbiterCycle, Arbiter!Grant, Arbiter!Release
<1>2. /\ Arbiter!Input = {0, 1} /\ ireqs[0] = D!creq /\ ireqs[1] = I!creq
      /\ D!creq.valid \in BOOLEAN /\ I!creq.valid \in BOOLEAN
  BY DEF Arbiter!Input, ireqs, D!creq, I!creq
<1>3. ~dcresp.last /\ ~icresp.last
  BY Answers DEF CResp0
<1>4. CASE D!creq.valid
  <2>1. /\ 0 \in Arbiter!Input /\ ireqs[0].valid
        /\ \A j \in Arbiter!Input : ireqs[j].valid => 0 <= j
    BY <1>2, <1>4
  <2>2. \A i \in Arbiter!Input :
          (ireqs[i].valid /\ \A j \in Arbiter!Input : ireqs[j].valid => i <= j) => i = 0
    BY <1>2, <1>4
  <2>3. Arbiter!select(ireqs) = 0
    BY <2>1, <2>2 DEF Arbiter!select
  <2> QED BY <1>1, <1>2, <1>3, <1>4, <2>3
<1>5. CASE ~D!creq.valid /\ I!creq.valid
  <2>1. /\ 1 \in Arbiter!Input /\ ireqs[1].valid
        /\ \A j \in Arbiter!Input : ireqs[j].valid => 1 <= j
    BY <1>2, <1>5
  <2>2. \A i \in Arbiter!Input :
          (ireqs[i].valid /\ \A j \in Arbiter!Input : ireqs[j].valid => i <= j) => i = 1
    BY <1>2, <1>5
  <2>3. Arbiter!select(ireqs) = 1
    BY <2>1, <2>2 DEF Arbiter!select
  <2> QED BY <1>1, <1>2, <1>3, <1>5, <2>3
<1>6. CASE ~D!creq.valid /\ ~I!creq.valid
  <2>1. ~\E i \in Arbiter!Input : ireqs[i].valid
    BY <1>2, <1>6
  <2>2. Arbiter!select(ireqs) = 0
    BY <2>1 DEF Arbiter!select
  <2> QED BY <1>1, <1>2, <1>3, <1>6, <2>2
<1> QED BY <1>4, <1>5, <1>6

\* Whoever has the bus next asks for the same before and after.
LEMMA BusNext ==
  ASSUME SocAssumption, Inv, Tick
  PROVE  /\ ~reset /\ ~reset' /\ index' \in {0, 1} /\ busy' \in BOOLEAN
         /\ busy => index' = index /\ busy' = ~cresp.last
         /\ busy' => /\ ireqs[index'].valid /\ ireqs'[index'].valid
                     /\ oreq'.addr = ireqs[index'].addr
                     /\ oreq'.is_write = ireqs[index'].is_write
                     /\ oreq'.len = ireqs[index'].len
<1>1. ~reset /\ ~reset'
  BY DEF Tick, reset
<1>2. index \in {0, 1} /\ ireqs[0] = D!creq /\ ireqs[1] = I!creq
  BY BusRequest DEF Inv, Granted
<1>3. busy' => oreq' = ireqs'[index'] /\ ireqs'[0] = D!creq' /\ ireqs'[1] = I!creq'
  BY DEF oreq, Arbiter!oreq, ireqs
<1>4. CASE ~busy
  <2>1. /\ busy' = (D!creq.valid \/ I!creq.valid)
        /\ index' = IF ~D!creq.valid /\ I!creq.valid THEN 1 ELSE 0
        /\ ~dcresp.last /\ ~icresp.last
    BY <1>4, Grants
  <2>2. index' \in {0, 1} /\ busy' \in BOOLEAN
    BY <2>1
  <2>3. CASE D!creq.valid
    BY <1>1, <1>2, <1>3, <1>4, <2>1, <2>2, <2>3, DHeld
  <2>4. CASE ~D!creq.valid
    BY <1>1, <1>2, <1>3, <1>4, <2>1, <2>2, <2>4, IHeld
  <2> QED BY <2>3, <2>4
<1>5. CASE busy
  <2>1. index' = index /\ busy' = ~cresp.last
    BY <1>5 DEF Tick, Arbiter!ArbiterCycle, Arbiter!Grant, Arbiter!Release
  <2>2. busy' \in BOOLEAN
    BY <2>1
  <2>3. ireqs[index].valid
    BY <1>1, <1>5 DEF Inv, Granted
  <2>4. CASE index = 0
    BY <1>1, <1>2, <1>3, <1>5, <2>1, <2>2, <2>3, <2>4, DHeld, Answers
  <2>5. CASE index = 1
    BY <1>1, <1>2, <1>3, <1>5, <2>1, <2>2, <2>3, <2>5, IHeld, Answers
  <2> QED BY <1>2, <2>4, <2>5
<1> QED BY <1>4, <1>5

\* Without a request for it the wrapper and the RAM stay quiet.
LEMMA QuietWrapper ==
  ASSUME SocAssumption, Inv, BramWrapper, ~busy \/ Uncached(oreq.addr)
  PROVE  /\ mem' = mem /\ douta' = douta /\ counter' = 0 /\ real_valid' = FALSE
         /\ burst_counter' = 0 /\ ready_read' = FALSE /\ last_read' = FALSE
<1>1. ~real_valid /\ real_valid = FALSE
  BY DEF Inv, Wrapper
<1>2. ~ram_valid
  BY BusRequest DEF ram_valid
<1>3. mem' = mem /\ douta' = douta
  BY <1>1 DEF BramWrapper, Bram
<1>4. counter' = 0 /\ real_valid' = FALSE
  BY <1>2 DEF BramWrapper
<1>5. burst_counter' = 0 /\ ready_read' = FALSE /\ last_read' = FALSE
  BY <1>1 DEF BramWrapper, last_write
<1> QED BY <1>3, <1>4, <1>5

\* The cycle of a burst.
LEMMA BurstCycle ==
  ASSUME SocAssumption, Inv, Tick, busy, ~Uncached(oreq.addr)
  PROVE  /\ counter' = IF cresp.last THEN 0
                       ELSE IF counter # BRAM_DELAY THEN counter + 1 ELSE counter
         /\ real_valid' = (counter = BRAM_DELAY /\ ~cresp.last)
         /\ burst_counter' = IF real_valid THEN burst_counter + 1 ELSE 0
         /\ ready_read' = real_valid /\ last_read' \in BOOLEAN
         /\ last_read' <=> real_valid /\ burst_counter = WordsPerLine - 1
         /\ mem' = IF real_valid /\ oreq.is_write
                   THEN [mem EXCEPT ![[oreq.addr EXCEPT !.offset = burst_counter]] =
                           Merge(@, Lane, oreq.data)]
                   ELSE mem
         /\ real_valid /\ burst_counter < WordsPerLine =>
              douta' = mem[[oreq.addr EXCEPT !.offset = burst_counter]]
         /\ douta' \in Word
<1>1. ~reset /\ BramWrapper
  BY DEF Tick
<1>2. /\ oreq.addr \in Addr /\ oreq.is_write \in BOOLEAN /\ oreq.len = WordsPerLine
      /\ oreq.addr.offset = 0 /\ oreq.valid
  BY BusRequest
<1>3. /\ is_incr /\ wstrobe = IF oreq.is_write THEN Lane ELSE {}
      /\ cresp.last = ram_last /\ ram_valid
  BY <1>2, CachedAnswer DEF ram_valid
<1>4. /\ burst_counter \in Nat /\ real_valid \in BOOLEAN /\ douta \in Word
      /\ WordsPerLine \in Nat \ {0} /\ mem \in [Addr -> Word]
  BY SizeAssumption DEF Inv, Wrapper
<1>5. /\ counter' = IF cresp.last THEN 0
                    ELSE IF counter # BRAM_DELAY THEN counter + 1 ELSE counter
      /\ burst_counter' = IF real_valid THEN burst_counter + 1 ELSE 0
      /\ ready_read' = real_valid /\ last_read' = last_write
  BY <1>1, <1>3 DEF BramWrapper
<1>6. real_valid' = (counter = BRAM_DELAY /\ ~cresp.last)
  BY <1>1, <1>3 DEF BramWrapper
<1>7. (last_write <=> real_valid /\ burst_counter = WordsPerLine - 1) /\ last_write \in BOOLEAN
  BY <1>2, <1>3 DEF last_write
<1>8. InLine <=> burst_counter < WordsPerLine
  BY <1>2, <1>4 DEF InLine
<1>9. burst_addr = [oreq.addr EXCEPT !.offset = burst_counter]
  <2>1. 0 + burst_counter = burst_counter
    BY <1>4
  <2> QED BY <1>2, <2>1 DEF burst_addr, Addr
<1>10. real_valid /\ oreq.is_write => burst_counter < WordsPerLine
  BY DEF Inv, Wrapper
<1>11. Bram
  BY <1>1 DEF BramWrapper
<1>12. /\ mem' = IF real_valid /\ oreq.is_write
                 THEN [mem EXCEPT ![[oreq.addr EXCEPT !.offset = burst_counter]] =
                         Merge(@, Lane, oreq.data)]
                 ELSE mem
       /\ real_valid /\ burst_counter < WordsPerLine =>
            douta' = mem[[oreq.addr EXCEPT !.offset = burst_counter]]
       /\ douta' \in Word
  <2>1. CASE ~real_valid
    BY <1>4, <1>11, <2>1 DEF Bram
  <2>2. CASE real_valid /\ ~InLine
    BY <1>8, <1>10, <1>11, <2>2 DEF Bram
  <2>3. CASE real_valid /\ InLine
    <3>1. burst_addr \in Addr
      BY <1>2, <1>4, <1>8, <1>9, <2>3 DEF Addr, Offset
    <3>2. /\ douta' = mem[burst_addr]
          /\ mem' = [mem EXCEPT ![burst_addr] = Merge(@, wstrobe, oreq.data)]
      BY <1>11, <2>3 DEF Bram
    <3>3. mem[burst_addr] \in Word
      BY <1>4, <3>1
    <3>4. CASE oreq.is_write
      BY <1>3, <1>9, <2>3, <3>2, <3>3, <3>4
    <3>5. CASE ~oreq.is_write
      <4>1. Merge(mem[burst_addr], {}, oreq.data) = mem[burst_addr]
        BY <3>3 DEF Merge, Word
      <4>2. mem' = mem
        BY <1>3, <1>4, <3>1, <3>2, <3>5, <4>1
      <4> QED BY <1>9, <3>2, <3>3, <3>5, <4>2
    <3> QED BY <3>4, <3>5
  <2> QED BY <2>1, <2>2, <2>3
<1> QED BY <1>5, <1>6, <1>7, <1>12

\* A wrapper that is not asked for anything stays as it is.
LEMMA QuietStays ==
  ASSUME SocAssumption, Inv, BramWrapper, Device, ~busy \/ Uncached(oreq.addr)
  PROVE  Wrapper'
<1>1. /\ device_ready' \in BOOLEAN /\ WordsPerLine \in Nat \ {0} /\ BRAM_DELAY \in Nat
      /\ mem' = mem /\ douta' = douta /\ counter' = 0 /\ real_valid' = FALSE
      /\ burst_counter' = 0 /\ ready_read' = FALSE /\ last_read' = FALSE
  BY QuietWrapper, SizeAssumption DEF Device, SocAssumption
<1>2. douta' \in Word
  BY <1>1 DEF Inv, Wrapper
<1>3. /\ ~real_valid' /\ ~ready_read' /\ ~last_read'
      /\ real_valid' \in BOOLEAN /\ ready_read' \in BOOLEAN /\ last_read' \in BOOLEAN
  BY <1>1, Zenon
<1>4. counter' \in 0 .. BRAM_DELAY /\ counter' = 0 /\ burst_counter' = 0
  BY <1>1
<1>5. device_ready' \in BOOLEAN
  BY <1>1
<1> QED BY <1>2, <1>3, <1>4, <1>5 DEF Wrapper

\* The wrapper's counters are kept as they should be.
LEMMA TickWrapper ==
  ASSUME SocAssumption, Inv, Tick
  PROVE  Wrapper'
<1>1. device_ready' \in BOOLEAN /\ WordsPerLine \in Nat \ {0} /\ BRAM_DELAY \in Nat
  BY SizeAssumption DEF Tick, Device, SocAssumption
<1>2. CASE ~busy \/ Uncached(oreq.addr)
  BY <1>2, QuietStays DEF Tick
<1>3. CASE busy /\ ~Uncached(oreq.addr)
  <2>1. /\ burst_counter \in Nat /\ counter \in 0 .. BRAM_DELAY
        /\ real_valid \in BOOLEAN /\ ready_read \in BOOLEAN
        /\ ~real_valid => burst_counter = 0 /\ ~ready_read /\ ~last_read
        /\ real_valid => counter = BRAM_DELAY
        /\ real_valid /\ oreq.is_write => burst_counter < WordsPerLine
        /\ real_valid /\ ~oreq.is_write =>
            /\ burst_counter <= WordsPerLine
            /\ ready_read <=> burst_counter > 0
            /\ last_read <=> burst_counter = WordsPerLine
    BY <1>3 DEF Inv, Wrapper
  <2>2. /\ running = IF oreq.is_write THEN real_valid ELSE ready_read
        /\ cresp.last <=> running /\ BusTx.n = WordsPerLine
        /\ BusTx.n = IF oreq.is_write THEN burst_counter + 1 ELSE burst_counter
    BY <1>3, CachedAnswer DEF BusTx
  <2>3. /\ counter' = IF cresp.last THEN 0
                      ELSE IF counter # BRAM_DELAY THEN counter + 1 ELSE counter
        /\ real_valid' = (counter = BRAM_DELAY /\ ~cresp.last)
        /\ burst_counter' = IF real_valid THEN burst_counter + 1 ELSE 0
        /\ ready_read' = real_valid /\ last_read' \in BOOLEAN
        /\ last_read' <=> real_valid /\ burst_counter = WordsPerLine - 1
        /\ douta' \in Word
    BY <1>3, BurstCycle
  <2>4. /\ counter' \in 0 .. BRAM_DELAY /\ burst_counter' \in Nat
    BY <1>1, <2>1, <2>3
  <2>5. real_valid' \in BOOLEAN /\ ready_read' \in BOOLEAN
    BY <2>1, <2>3
  <2>6. /\ oreq.addr \in Addr /\ oreq.is_write \in BOOLEAN
        /\ oreq.addr.offset = 0
    BY <1>3, BusRequest
  <2>7. ASSUME busy'
        PROVE  /\ ~cresp.last /\ oreq'.addr = oreq.addr /\ oreq'.is_write = oreq.is_write
    BY <1>3, <2>7, BusNext, BusRequest
  <2>8. ~busy' => ~real_valid' /\ counter' = 0
    BY <1>3, <2>3, BusNext
  <2>9. busy' => ~Uncached(oreq'.addr)
    BY <1>3, <2>7
  <2>10. ASSUME busy'
         PROVE  /\ ~real_valid' => burst_counter' = 0 /\ ~ready_read' /\ ~last_read'
                /\ real_valid' => counter' = BRAM_DELAY
    BY <2>1, <2>3, <2>7, <2>10
  <2>11. ASSUME busy', real_valid', oreq.is_write
         PROVE  burst_counter' < WordsPerLine
    BY <1>1, <2>1, <2>2, <2>3, <2>7, <2>11
  <2>12. ASSUME busy', real_valid', ~oreq.is_write
         PROVE  /\ burst_counter' <= WordsPerLine
                /\ ready_read' <=> burst_counter' > 0
                /\ last_read' <=> burst_counter' = WordsPerLine
    <3>1. real_valid => burst_counter < WordsPerLine
      BY <1>1, <2>1, <2>2, <2>7, <2>12
    <3> QED BY <1>1, <2>1, <2>3, <3>1
  <2>13. ASSUME busy', real_valid', ~oreq.is_write, burst_counter' > 0
         PROVE  douta' = mem'[[oreq'.addr EXCEPT !.offset = burst_counter' - 1]]
    <3>1. real_valid /\ burst_counter' = burst_counter + 1
      BY <2>3, <2>13
    <3>2. burst_counter < WordsPerLine
      BY <1>1, <2>1, <2>2, <2>7, <2>13, <3>1
    <3>3. douta' = mem[[oreq.addr EXCEPT !.offset = burst_counter]] /\ mem' = mem
      BY <1>3, <2>13, <3>1, <3>2, BurstCycle
    <3>4. burst_counter' - 1 = burst_counter
      BY <2>1, <3>1
    <3> QED BY <2>7, <2>13, <3>3, <3>4
  <2> QED
    BY <1>1, <2>3, <2>4, <2>5, <2>7, <2>8, <2>9, <2>10, <2>11, <2>12, <2>13 DEF Wrapper
<1> QED BY <1>2, <1>3

-----------------------------------------------------------------------------
(* A cycle of the bus is one of each cache's own memory                    *)

\* A granted bus starts with no word served, unless it is a device's.
LEMMA GrantNext ==
  ASSUME SocAssumption, Inv, Tick, ~busy, busy'
  PROVE  /\ oreq'.addr = ireqs[index'].addr
         /\ Uncached(oreq'.addr) => running' /\ BusTx'.n = 1
         /\ ~Uncached(oreq'.addr) => ~running'
<1>1. oreq'.addr = ireqs[index'].addr
  BY BusNext
<1>2. real_valid' = FALSE /\ ready_read' = FALSE
  BY QuietWrapper DEF Tick
<1>3. ~real_valid' /\ ~ready_read'
  BY <1>2
<1>4. Uncached(oreq'.addr) => running' /\ BusTx'.n = 1
  BY DEF running, BusTx
<1>5. ~Uncached(oreq'.addr) => ~running'
  BY <1>3 DEF running
<1> QED BY <1>1, <1>4, <1>5

\* A burst waits, is about to start, serves a word or serves its last one.
LEMMA BurstNext ==
  ASSUME SocAssumption, Inv, Tick, busy, ~Uncached(oreq.addr)
  PROVE  \/ ~running /\ ~starting /\ busy' /\ ~running'
         \/ ~running /\ starting /\ busy' /\ running' /\ BusTx'.n = 1
         \/ /\ running /\ BusTx.n # WordsPerLine
            /\ busy' /\ running' /\ BusTx'.n = BusTx.n + 1
         \/ running /\ BusTx.n = WordsPerLine /\ ~busy'
<1>1. /\ running = IF oreq.is_write THEN real_valid ELSE ready_read
      /\ running \in BOOLEAN
      /\ cresp.last <=> running /\ BusTx.n = WordsPerLine
      /\ BusTx.n = IF oreq.is_write THEN burst_counter + 1 ELSE burst_counter
  BY CachedAnswer DEF BusTx
<1>2. /\ burst_counter \in Nat
      /\ real_valid \in BOOLEAN /\ ready_read \in BOOLEAN
      /\ ~real_valid => burst_counter = 0 /\ ~ready_read
      /\ real_valid => counter = BRAM_DELAY
      /\ real_valid /\ ~oreq.is_write => (ready_read <=> burst_counter > 0)
  BY DEF Inv, Wrapper
<1>3. /\ real_valid' = (counter = BRAM_DELAY /\ ~cresp.last)
      /\ burst_counter' = IF real_valid THEN burst_counter + 1 ELSE 0
      /\ ready_read' = real_valid
  BY BurstCycle
<1>4. busy' = ~cresp.last /\ busy' \in BOOLEAN
  BY BusNext
<1>5. ASSUME busy'
      PROVE  /\ ~Uncached(oreq'.addr) /\ oreq'.is_write = oreq.is_write
             /\ running' <=> IF oreq.is_write THEN real_valid' ELSE ready_read'
             /\ BusTx'.n = IF oreq.is_write THEN burst_counter' + 1 ELSE burst_counter'
  <2>1. oreq'.addr = oreq.addr /\ oreq'.is_write = oreq.is_write
    BY <1>5, BusNext, BusRequest
  <2>2. ~Uncached(oreq'.addr)
    BY <2>1
  <2>3. BusTx'.n = IF oreq'.is_write THEN burst_counter' + 1 ELSE burst_counter'
    BY <2>2 DEF BusTx
  <2>4. running' <=> IF oreq'.is_write THEN real_valid' ELSE ready_read'
    BY <2>2 DEF running
  <2> QED BY <2>1, <2>2, <2>3, <2>4
<1>6. CASE cresp.last
  BY <1>1, <1>4, <1>6
<1>7. CASE ~cresp.last /\ oreq.is_write
  <2>1. busy' /\ (real_valid' <=> counter = BRAM_DELAY) /\ (running <=> real_valid)
    BY <1>1, <1>3, <1>4, <1>7
  <2>2. (starting <=> counter = BRAM_DELAY) /\ (running' <=> counter = BRAM_DELAY)
    BY <1>5, <1>7, <2>1 DEF starting
  <2>3. BusTx'.n = burst_counter' + 1 /\ BusTx.n = burst_counter + 1
    BY <1>1, <1>5, <1>7, <2>1
  <2>4. CASE real_valid
    BY <1>1, <1>2, <1>3, <1>7, <2>1, <2>2, <2>3, <2>4
  <2>5. CASE ~real_valid
    BY <1>2, <1>3, <2>1, <2>2, <2>3, <2>5
  <2> QED BY <2>4, <2>5
<1>8. CASE ~cresp.last /\ ~oreq.is_write
  <2>1. busy' /\ (ready_read' <=> real_valid) /\ (running <=> ready_read)
    BY <1>1, <1>3, <1>4, <1>8
  <2>2. (starting <=> real_valid) /\ (running' <=> real_valid)
    BY <1>5, <1>8, <2>1 DEF starting
  <2>3. BusTx'.n = burst_counter' /\ BusTx.n = burst_counter
    BY <1>1, <1>5, <1>8, <2>1
  <2>4. CASE ready_read
    BY <1>1, <1>2, <1>3, <1>8, <2>1, <2>2, <2>3, <2>4
  <2>5. CASE ~ready_read
    <3>1. real_valid => burst_counter = 0
      BY <1>2, <1>8, <2>5
    <3> QED BY <1>2, <1>3, <2>1, <2>2, <2>3, <2>5, <3>1
  <2> QED BY <2>4, <2>5
<1> QED BY <1>6, <1>7, <1>8

\* What a cycle does to the transaction of cache i: nothing, start it for the
\* request, or serve a word.
LEMMA TxStep ==
  ASSUME SocAssumption, Inv, Tick, NEW i \in {0, 1}
  PROVE  \/ ~EnableFor(i) /\ TxFor(i)' = TxFor(i)
         \/ /\ EnableFor(i) /\ TxFor(i) = NoTx /\ ireqs[i].valid
            /\ TxFor(i)' = [busy |-> TRUE,
                            is_write |-> ireqs[i].is_write /\ ~Uncached(ireqs[i].addr),
                            start |-> ireqs[i].addr, len |-> ireqs[i].len, n |-> 1]
         \/ /\ EnableFor(i) /\ TxFor(i).busy
            /\ TxFor(i)' = IF TxFor(i).n = TxFor(i).len THEN NoTx
                           ELSE [TxFor(i) EXCEPT !.n = TxFor(i).n + 1]
<1>1. /\ ~reset /\ busy' \in BOOLEAN /\ index' \in {0, 1} /\ index \in {0, 1}
      /\ busy => index' = index /\ busy' = ~cresp.last
      /\ busy' => /\ oreq'.addr = ireqs[index'].addr
                  /\ oreq'.is_write = ireqs[index'].is_write
                  /\ oreq'.len = ireqs[index'].len
                  /\ ireqs[index'].valid
  BY BusNext DEF Inv, Granted
<1>2. busy' /\ index' = i /\ running' => TxFor(i)' = BusTx'
  BY DEF TxFor
<1>3. ~(busy' /\ index' = i /\ running') => TxFor(i)' = NoTx
  BY DEF TxFor, NoTx
<1>4. ASSUME busy', index' = i
      PROVE  BusTx' = [busy |-> TRUE,
                       is_write |-> ireqs[i].is_write /\ ~Uncached(ireqs[i].addr),
                       start |-> ireqs[i].addr, len |-> ireqs[i].len, n |-> BusTx'.n]
  BY <1>1, <1>4 DEF BusTx
<1>5. busy /\ index = i => oreq = ireqs[i] /\ ireqs[i].valid
  BY BusRequest
<1>6. CASE busy /\ index # i
  BY <1>1, <1>3, <1>6 DEF EnableFor, TxFor, NoTx
<1>7. CASE ~busy
  <2>1. TxFor(i) = NoTx
    BY <1>7 DEF TxFor
  <2>2. EnableFor(i) <=> ireqs[i].valid /\ Uncached(ireqs[i].addr)
    BY <1>7 DEF EnableFor
  <2>3. CASE ireqs[i].valid /\ Uncached(ireqs[i].addr)
    <3>1. i = 0
      BY <1>1, <2>3, BusRequest, IRequest
    <3>2. busy' /\ index' = i
      BY <1>7, <2>3, <3>1, Grants, BusRequest
    <3>3. running' /\ BusTx'.n = 1
      BY <1>1, <1>7, <2>3, <3>2, GrantNext
    <3> QED BY <1>2, <1>4, <2>1, <2>2, <2>3, <3>2, <3>3
  <2>4. CASE ~(ireqs[i].valid /\ Uncached(ireqs[i].addr))
    <3>1. busy' /\ index' = i => ~running'
      BY <1>1, <1>7, <2>4, GrantNext
    <3> QED BY <1>3, <2>1, <2>2, <2>4, <3>1
  <2> QED BY <2>3, <2>4
<1>8. CASE busy /\ index = i /\ Uncached(oreq.addr)
  <2>1. TxFor(i) = BusTx /\ (EnableFor(i) <=> device_ready) /\ running
    BY <1>8 DEF TxFor, EnableFor, running
  <2>2. BusTx.busy /\ BusTx.n = 1 /\ BusTx.len = 1
    BY <1>8, BusRequest DEF BusTx
  <2>3. busy' <=> ~device_ready
    BY <1>1, <1>8 DEF cresp
  <2>4. CASE device_ready
    BY <1>3, <2>1, <2>2, <2>3, <2>4
  <2>5. CASE ~device_ready
    <3>1. busy' /\ index' = i
      BY <1>1, <1>8, <2>3, <2>5
    <3>2. running' /\ BusTx'.n = 1
      BY <1>1, <1>5, <1>8, <3>1 DEF running, BusTx
    <3>3. BusTx = [busy |-> TRUE,
                   is_write |-> ireqs[i].is_write /\ ~Uncached(ireqs[i].addr),
                   start |-> ireqs[i].addr, len |-> ireqs[i].len, n |-> 1]
      BY <1>5, <1>8 DEF BusTx
    <3> QED BY <1>2, <1>4, <2>1, <2>5, <3>1, <3>2, <3>3
  <2> QED BY <2>4, <2>5
<1>9. CASE busy /\ index = i /\ ~Uncached(oreq.addr)
  <2>1. EnableFor(i) <=> running \/ starting
    BY <1>9 DEF EnableFor
  <2>2. BusTx = [busy |-> TRUE,
                 is_write |-> ireqs[i].is_write /\ ~Uncached(ireqs[i].addr),
                 start |-> ireqs[i].addr, len |-> ireqs[i].len, n |-> BusTx.n]
    BY <1>5, <1>9 DEF BusTx
  <2>3. ireqs[i].len = WordsPerLine /\ index' = i
    BY <1>1, <1>5, <1>9, BusRequest
  <2>4. CASE ~running /\ ~starting /\ busy' /\ ~running'
    <3>1. TxFor(i) = NoTx
      BY <2>4 DEF TxFor
    <3> QED BY <1>3, <2>1, <2>4, <3>1
  <2>5. CASE ~running /\ starting /\ busy' /\ running' /\ BusTx'.n = 1
    <3>1. TxFor(i) = NoTx
      BY <2>5 DEF TxFor
    <3> QED BY <1>2, <1>4, <1>5, <1>9, <2>1, <2>3, <2>5, <3>1
  <2>6. CASE /\ running /\ BusTx.n # WordsPerLine
             /\ busy' /\ running' /\ BusTx'.n = BusTx.n + 1
    <3>1. TxFor(i) = BusTx
      BY <1>9, <2>6 DEF TxFor
    <3>2. TxFor(i)' = [BusTx EXCEPT !.n = BusTx.n + 1]
      <4> DEFINE b == TRUE
                 w == ireqs[i].is_write /\ ~Uncached(ireqs[i].addr)
                 n == BusTx.n
      <4>1. BusTx = [busy |-> b, is_write |-> w, start |-> ireqs[i].addr,
                     len |-> ireqs[i].len, n |-> n]
        BY <2>2
      <4>2. BusTx' = [busy |-> b, is_write |-> w, start |-> ireqs[i].addr,
                      len |-> ireqs[i].len, n |-> n + 1]
        BY <1>4, <2>3, <2>6
      <4>3. TxFor(i)' = BusTx' /\ BusTx.n = n
        BY <1>2, <2>3, <2>6
      <4> HIDE DEF b, w, n
      <4>4. [BusTx EXCEPT !.n = n + 1]
              = [busy |-> b, is_write |-> w, start |-> ireqs[i].addr,
                 len |-> ireqs[i].len, n |-> n + 1]
        BY <4>1
      <4> QED BY <4>2, <4>3, <4>4
    <3>3. BusTx.busy /\ BusTx.len = WordsPerLine
      BY <2>2, <2>3
    <3> QED BY <2>1, <2>6, <3>1, <3>2, <3>3
  <2>7. CASE running /\ BusTx.n = WordsPerLine /\ ~busy'
    <3>1. TxFor(i) = BusTx
      BY <1>9, <2>7 DEF TxFor
    <3>2. BusTx.busy /\ BusTx.len = WordsPerLine
      BY <2>2, <2>3
    <3> QED BY <1>3, <2>1, <2>7, <3>1, <3>2
  <2> QED BY <1>9, <2>4, <2>5, <2>6, <2>7, BurstNext
<1> QED BY <1>1, <1>6, <1>7, <1>8, <1>9

\* Whether the memory of cache i takes part is a Boolean.
LEMMA EnableType ==
  ASSUME SocAssumption, Inv, Tick, NEW i \in {0, 1}
  PROVE  EnableFor(i)' \in BOOLEAN
<1>1. device_ready' \in BOOLEAN
  BY DEF Tick, Device
<1>2. CASE busy' /\ index' = i
  <2>1. EnableFor(i)' = IF Uncached(oreq'.addr) THEN device_ready' ELSE (running' \/ starting')
    BY <1>2 DEF EnableFor
  <2>2. CASE Uncached(oreq'.addr)
    BY <1>1, <2>1, <2>2
  <2>3. CASE ~Uncached(oreq'.addr)
    BY <2>1, <2>3
  <2> QED BY <2>2, <2>3
<1>3. CASE ~(busy' /\ index' = i)
  BY <1>3 DEF EnableFor
<1> QED BY <1>2, <1>3

\* A word written is the running one of the data cache's transaction.
LEMMA MemStep ==
  ASSUME SocAssumption, Inv, Tick
  PROVE  mem' = IF EnableFor(0) /\ TxFor(0).busy /\ TxFor(0).is_write
                THEN [mem EXCEPT ![DC!txAddr] = Merge(@, D!creq.strobe, D!creq.data)]
                ELSE mem
<1>1. CASE ~busy \/ Uncached(oreq.addr)
  <2>1. ~(TxFor(0).busy /\ TxFor(0).is_write)
    BY <1>1 DEF TxFor, NoTx, BusTx
  <2> QED BY <1>1, <2>1, QuietWrapper DEF Tick
<1>2. CASE busy /\ ~Uncached(oreq.addr)
  <2>1. mem' = IF real_valid /\ oreq.is_write
               THEN [mem EXCEPT ![[oreq.addr EXCEPT !.offset = burst_counter]] =
                       Merge(@, Lane, oreq.data)]
               ELSE mem
    BY <1>2, BurstCycle
  <2>2. /\ running = IF oreq.is_write THEN real_valid ELSE ready_read
        /\ oreq.is_write \in BOOLEAN /\ real_valid \in BOOLEAN
    BY <1>2, CachedAnswer, BusRequest DEF Inv, Wrapper
  <2>3. CASE real_valid /\ oreq.is_write
    <3>1. index = 0 /\ oreq = D!creq /\ D!creq.strobe = Lane /\ oreq.addr.offset = 0
          /\ oreq.addr \in Addr
      BY <1>2, <2>3, BusRequest
    <3>2. TxFor(0) = BusTx /\ EnableFor(0)
      BY <1>2, <2>2, <2>3, <3>1 DEF TxFor, EnableFor
    <3>3. /\ BusTx.busy /\ BusTx.is_write /\ BusTx.start = oreq.addr
          /\ BusTx.n = burst_counter + 1
      BY <1>2, <2>3 DEF BusTx
    <3>4. (0 + (burst_counter + 1) - 1) % WordsPerLine = burst_counter
      <4>1. burst_counter \in Nat /\ burst_counter < WordsPerLine /\ WordsPerLine \in Nat
        BY <1>2, <2>3, SizeAssumption DEF Inv, Wrapper
      <4> QED BY <4>1
    <3>5. DC!txAddr = [oreq.addr EXCEPT !.offset = burst_counter]
      BY <3>1, <3>2, <3>3, <3>4 DEF DC!txAddr
    <3> QED BY <2>1, <2>3, <3>1, <3>2, <3>3, <3>5
  <2>4. CASE ~(real_valid /\ oreq.is_write)
    <3>1. ~(TxFor(0).busy /\ TxFor(0).is_write)
      <4>1. CASE oreq.is_write
        BY <2>2, <2>4, <4>1 DEF TxFor, NoTx
      <4>2. CASE ~oreq.is_write
        BY <4>2 DEF TxFor, NoTx, BusTx
      <4> QED BY <4>1, <4>2
    <3> QED BY <2>1, <2>4, <3>1
  <2> QED BY <2>3, <2>4
<1> QED BY <1>1, <1>2

\* Seen from the memory, the device is only read.
LEMMA DWrites ==
  ASSUME SocAssumption, Inv, ~reset, D!creq.valid
  PROVE  /\ DC!creq.is_write = (D!creq.is_write /\ ~Uncached(D!creq.addr))
         /\ ~Uncached(D!creq.addr) => DC!creq.strobe = D!creq.strobe
<1>1. CASE dstate = "SKIP"
  <2>1. Uncached(D!creq.addr) /\ Uncached(dreq.addr)
    BY <1>1, DRequest
  <2>2. Stripped(dreq).strobe = {}
    BY <2>1 DEF Stripped
  <2>3. DC!creq.is_write = FALSE
    BY <1>1, <2>2 DEF DC!creq
  <2> QED BY <2>1, <2>3
<1>2. CASE dstate # "SKIP"
  <2>1. ~Uncached(D!creq.addr)
    BY <1>2, DRequest
  <2>2. D!creq.strobe = DC!creq.strobe /\ D!creq.is_write = DC!creq.is_write
    BY <1>2, SameDBus
  <2>3. D!creq.is_write \in BOOLEAN
    BY DEF D!creq
  <2> QED BY <2>1, <2>2, <2>3
<1> QED BY <1>1, <1>2

\* A cycle is one of the data cache on its own bus and memory.
LEMMA DCycle ==
  ASSUME SocAssumption, Inv, Tick
  PROVE  DC!Cycle /\ UNCHANGED <<reset, left>>
<1>1. ~reset /\ UNCHANGED <<reset, left>>
  BY DEF Tick, reset
<1>2. \E r \in DC!CResp : DC!Sees(r) /\ DC!CacheCycle(r)
  <2>1. DC!CacheCycle(dcresp)
    BY DCacheCycle DEF Tick
  <2> QED BY <1>1, <2>1, DSees, AnswerTypes, SameData
<1>3. DC!Master
  <2>1. DC!answer.data_ok = dresp.data_ok
    BY <1>1, DAnswered
  <2>2. Stripped(dreq).valid = dreq.valid
    BY DEF Stripped
  <2>3. CASE dreq.valid /\ ~dresp.data_ok
    <3>1. dreq' = dreq
      BY <2>3 DEF Tick, Masters
    <3>2. Stripped(dreq)' = Stripped(dreq)
      BY <3>1 DEF Stripped
    <3> QED BY <2>1, <2>2, <2>3, <3>2 DEF DC!Master
  <2>4. CASE ~(dreq.valid /\ ~dresp.data_ok)
    <3>1. dreq' \in Requests \cup {DReq0}
      BY <2>4, SameData DEF Tick, Masters
    <3>2. Stripped(dreq)' \in {Stripped(r) : r \in Requests} \cup {DReq0}
      <4>1. Stripped(dreq)' = Stripped(dreq')
        BY DEF Stripped
      <4> QED BY <3>1, <4>1, Zeros
    <3> QED BY <2>1, <2>2, <2>4, <3>2 DEF DC!Master, DC!NextReq
  <2> QED BY <2>3, <2>4
<1>4. DC!DeviceCycle(DC!creq)
  <2>1. EnableFor(0)' \in BOOLEAN
    BY EnableType
  <2>2. /\ ireqs[0] = D!creq /\ DC!creq.valid = D!creq.valid
        /\ DC!creq.addr = D!creq.addr /\ DC!creq.len = D!creq.len
        /\ DC!creq.data = D!creq.data
    BY BusRequest, SameDBus
  <2>3. CASE ~EnableFor(0) /\ TxFor(0)' = TxFor(0)
    <3>1. mem' = mem
      BY <2>3, MemStep
    <3> QED BY <2>1, <2>3, <3>1 DEF DC!DeviceCycle, DC!DeviceIdle
  <2>4. CASE /\ EnableFor(0) /\ TxFor(0) = NoTx /\ ireqs[0].valid
             /\ TxFor(0)' = [busy |-> TRUE,
                             is_write |-> ireqs[0].is_write /\ ~Uncached(ireqs[0].addr),
                             start |-> ireqs[0].addr, len |-> ireqs[0].len, n |-> 1]
    <3>1. ~TxFor(0).busy
      BY <2>4 DEF NoTx
    <3>2. mem' = mem
      BY <3>1, MemStep
    <3>3. TxFor(0)' = DC!TxOf(DC!creq)
      BY <1>1, <2>2, <2>4, DWrites DEF DC!TxOf
    <3> QED BY <2>1, <2>2, <2>4, <3>1, <3>2, <3>3 DEF DC!DeviceCycle, DC!DeviceStart
  <2>5. CASE /\ EnableFor(0) /\ TxFor(0).busy
             /\ TxFor(0)' = IF TxFor(0).n = TxFor(0).len THEN NoTx
                            ELSE [TxFor(0) EXCEPT !.n = TxFor(0).n + 1]
    <3>1. ASSUME TxFor(0).is_write
          PROVE  DC!creq.strobe = D!creq.strobe
      <4>1. busy /\ index = 0 /\ ~Uncached(oreq.addr)
        BY <2>5, <3>1 DEF TxFor, NoTx, BusTx
      <4> QED BY <1>1, <4>1, BusRequest, DWrites
    <3>2. mem' = IF TxFor(0).is_write
                 THEN [mem EXCEPT ![DC!txAddr] =
                         DC!Merge(@, DC!creq.strobe, DC!creq.data)]
                 ELSE mem
      BY <2>2, <2>5, <3>1, MemStep DEF Merge, DC!Merge
    <3>3. TxFor(0)' = IF DC!txLast THEN DC!Tx0 ELSE [TxFor(0) EXCEPT !.n = @ + 1]
      BY <2>5, SameData DEF DC!txLast
    <3> QED BY <2>1, <2>5, <3>2, <3>3 DEF DC!DeviceCycle, DC!DeviceBeat
  <2> QED BY <2>3, <2>4, <2>5, TxStep
<1> QED BY <1>1, <1>2, <1>3, <1>4 DEF DC!Cycle

\* And one of the instruction cache on a memory that stays as it was.
LEMMA ICycle ==
  ASSUME SocAssumption, Inv, Tick
  PROVE  IC!Cycle /\ UNCHANGED <<reset, left>>
<1>1. ~reset /\ UNCHANGED <<reset, left>>
  BY DEF Tick, reset
<1>2. \E r \in IC!CResp : IC!Sees(r) /\ IC!CacheCycle(r)
  <2>1. IC!CacheCycle(icresp)
    BY SameICache DEF Tick
  <2> QED BY <1>1, <2>1, ISees, AnswerTypes, SameData
<1>3. IC!Master
  <2>1. IC!answer.data_ok = iresp.data_ok
    <3>1. icresp.last = IC!cresp.last
      BY <1>1, ISees DEF IC!Sees
    <3>2. iresp = IC!dresp(icresp)
      BY SameICache DEF iresp
    <3> QED BY <3>1, <3>2 DEF IC!answer, IC!dresp
  <2>2. FetchReq(ireq).valid = ireq.valid
    BY DEF FetchReq
  <2>3. CASE ireq.valid /\ ~iresp.data_ok
    <3>1. ireq' = ireq
      BY <2>3 DEF Tick, Masters
    <3>2. FetchReq(ireq)' = FetchReq(ireq)
      BY <3>1 DEF FetchReq
    <3> QED BY <2>1, <2>2, <2>3, <3>2 DEF IC!Master
  <2>4. CASE ~(ireq.valid /\ ~iresp.data_ok)
    <3>1. ireq' \in [valid : {TRUE}, addr : Fetches]
      BY <2>4 DEF Tick, Masters
    <3>2. FetchReq(ireq)' \in Fetch
      BY <3>1 DEF Fetch, FetchReq
    <3> QED BY <2>1, <2>2, <2>4, <3>2 DEF IC!Master, IC!NextReq
  <2> QED BY <2>3, <2>4
<1>4. IC!DeviceCycle(IC!creq)
  <2>1. EnableFor(1)' \in BOOLEAN
    BY EnableType
  <2>2. ireqs[1] = IC!creq /\ I!creq = IC!creq
    BY BusRequest, SameICache
  <2>3. CASE ~EnableFor(1) /\ TxFor(1)' = TxFor(1)
    BY <2>1, <2>3 DEF IC!DeviceCycle, IC!DeviceIdle
  <2>4. CASE /\ EnableFor(1) /\ TxFor(1) = NoTx /\ ireqs[1].valid
             /\ TxFor(1)' = [busy |-> TRUE,
                             is_write |-> ireqs[1].is_write /\ ~Uncached(ireqs[1].addr),
                             start |-> ireqs[1].addr, len |-> ireqs[1].len, n |-> 1]
    <3>1. ~TxFor(1).busy
      BY <2>4 DEF NoTx
    <3>2. ~IC!creq.is_write /\ IC!creq.is_write \in BOOLEAN
      <4>1. ~IC!creq.is_write
        BY <1>1, <2>2, <2>4, IRequest
      <4>2. IC!creq.is_write \in BOOLEAN
        BY DEF IC!creq
      <4> QED BY <4>1, <4>2
    <3>3. IC!creq.is_write = FALSE
      BY <3>2
    <3>4. TxFor(1)' = IC!TxOf(IC!creq)
      BY <2>2, <2>4, <3>3 DEF IC!TxOf
    <3> QED BY <2>1, <2>2, <2>4, <3>1, <3>4 DEF IC!DeviceCycle, IC!DeviceStart
  <2>5. CASE /\ EnableFor(1) /\ TxFor(1).busy
             /\ TxFor(1)' = IF TxFor(1).n = TxFor(1).len THEN NoTx
                            ELSE [TxFor(1) EXCEPT !.n = TxFor(1).n + 1]
    <3>1. ~TxFor(1).is_write
      <4>1. busy /\ index = 1 /\ TxFor(1) = BusTx
        BY <2>5 DEF TxFor, NoTx
      <4>2. ~oreq.is_write
        BY <4>1, BusRequest
      <4>3. BusTx.is_write = (oreq.is_write /\ ~Uncached(oreq.addr))
        BY DEF BusTx
      <4> QED BY <4>1, <4>2, <4>3
    <3>2. TxFor(1)' = IF IC!txLast THEN IC!Tx0 ELSE [TxFor(1) EXCEPT !.n = @ + 1]
      BY <2>5, SameData DEF IC!txLast
    <3> QED BY <2>1, <2>5, <3>1, <3>2 DEF IC!DeviceCycle, IC!DeviceBeat
  <2> QED BY <2>3, <2>4, <2>5, TxStep
<1> QED BY <1>1, <1>2, <1>3, <1>4 DEF IC!Cycle

-----------------------------------------------------------------------------
(* The invariant is kept                                                   *)

\* Each cache keeps its own invariant.
LEMMA TickCaches ==
  ASSUME SocAssumption, Inv, Tick
  PROVE  /\ DC!RunningStep /\ DC!ControlCore' /\ DC!LinesInv'
         /\ IC!RunningStep /\ IC!ControlCore' /\ IC!LinesInv'
<1>1. DC!LinesInv /\ IC!LinesInv
  BY DEF Inv, Tick
<1>2. DC!RunningStep /\ DC!ControlCore'
  BY DAssumptions, DCycle, DC!CycleControl, DC!CycleRuns DEF Inv
<1>3. DC!LinesInv'
  BY <1>1, <1>2, DAssumptions, DC!CycleLines
<1>4. IC!RunningStep /\ IC!ControlCore'
  BY IAssumptions, ICycle, IC!CycleControl, IC!CycleRuns DEF Inv
<1>5. IC!LinesInv'
  BY <1>1, <1>4, IAssumptions, IC!CycleLines
<1> QED BY <1>2, <1>3, <1>4, <1>5

\* Only a line of a store gets dirty.
LEMMA DirtyStored ==
  ASSUME SocAssumption, Inv, NEW r, DC!Rams(r), NEW i \in Index, NEW w \in D!Way,
         dmeta_ram'[i][w].dirty
  PROVE  StoredTo(dmeta_ram'[i][w].tag, i)
<1>1. DC!CacheTypeOK
  BY DEF Inv, DC!ControlCore, DC!Types
<1>2. DC!index \in Index /\ DC!position \in D!Way /\ DC!meta_addr \in Index
  BY <1>1, DAssumptions, DC!LookupTypes, SameData
<1>3. dmeta_ram \in [Index -> [D!Way -> DC!Meta]]
  BY <1>1, SameData DEF DC!CacheTypeOK
<1>4. dmeta_ram[i][w].dirty => StoredTo(dmeta_ram[i][w].tag, i)
  BY DEF Inv, Untouched
<1>5. CASE DC!ClearSet
  BY <1>2, <1>3, <1>4, <1>5, SameData DEF DC!ClearSet, DC!Meta0
<1>6. CASE DC!WriteWord
  <2>1. dmeta_ram'[i][w].tag = dmeta_ram[i][w].tag
    BY <1>1, <1>6, DAssumptions, DC!TagsKept, SameData
  <2>2. CASE i = DC!index /\ w = DC!position
    <3>1. dreq.strobe # {} /\ ~Uncached(dreq.addr)
      BY <1>6 DEF DC!WriteWord, DC!StoreHit, Stripped
    <3>2. dreq \in Requests
      BY <3>1, Requested
    <3>3. DC!hit /\ DC!ram_rmeta = dmeta_ram[DC!index]
      BY <1>6 DEF DC!WriteWord, DC!StoreHit, DC!ram_rmeta, DC!meta_addr
    <3>4. dmeta_ram[i][w].tag = DC!tag
      BY <1>1, <2>2, <3>3, DAssumptions, DC!HitFacts
    <3>5. DC!tag = dreq.addr.tag /\ DC!index = dreq.addr.index
      BY DEF DC!tag, DC!index, Stripped
    <3> QED BY <2>1, <2>2, <3>1, <3>2, <3>4, <3>5 DEF StoredTo
  <2>3. CASE ~(i = DC!index /\ w = DC!position)
    <3>1. dmeta_ram'[i][w] = dmeta_ram[i][w]
      BY <1>2, <1>3, <1>6, <2>3 DEF DC!WriteWord
    <3> QED BY <1>4, <3>1
  <2> QED BY <2>2, <2>3
<1>7. CASE DC!FillWord(r)
  BY <1>1, <1>4, <1>7, DAssumptions, DC!TagsFilled, SameData
<1>8. CASE DC!KeepRams
  BY <1>4, <1>8 DEF DC!KeepRams
<1> QED BY <1>5, <1>6, <1>7, <1>8 DEF DC!Rams

\* The instruction cache has no dirty line.
LEMMA NothingDirty ==
  ASSUME SocAssumption, Inv, NEW r, IC!Rams(r), NEW i \in Index, NEW w \in D!Way
  PROVE  ~imeta_ram'[i][w].dirty
<1>1. IC!CacheTypeOK
  BY DEF Inv, IC!ControlCore, IC!Types
<1>2. IC!meta_addr \in Index
  BY <1>1, IAssumptions, IC!LookupTypes, SameData
<1>3. imeta_ram \in [Index -> [D!Way -> IC!Meta]]
  BY <1>1, SameData DEF IC!CacheTypeOK
<1>4. ~imeta_ram[i][w].dirty
  BY DEF Inv, Untouched
<1>5. CASE IC!ClearSet
  BY <1>2, <1>3, <1>4, <1>5, SameData DEF IC!ClearSet, IC!Meta0
<1>6. ~IC!WriteWord
  BY DEF IC!WriteWord, IC!StoreHit, FetchReq
<1>7. CASE IC!FillWord(r)
  BY <1>1, <1>4, <1>7, IAssumptions, IC!TagsFilled, SameData
<1>8. CASE IC!KeepRams
  BY <1>4, <1>8 DEF IC!KeepRams
<1> QED BY <1>5, <1>6, <1>7, <1>8 DEF IC!Rams

\* A word written to memory is one of a line that is stored to.
LEMMA WrittenStored ==
  ASSUME SocAssumption, Inv, Tick, NEW a \in Addr, ~StoredTo(a.tag, a.index)
  PROVE  mem'[a] = mem[a]
<1>1. CASE ~(EnableFor(0) /\ TxFor(0).busy /\ TxFor(0).is_write)
  BY <1>1, MemStep
<1>2. CASE EnableFor(0) /\ TxFor(0).busy /\ TxFor(0).is_write
  <2>1. /\ busy /\ index = 0 /\ ~Uncached(oreq.addr) /\ oreq.is_write
        /\ TxFor(0) = BusTx /\ ~reset
    BY <1>2, BusNext DEF TxFor, NoTx, BusTx
  <2>2. oreq = D!creq /\ D!creq.valid
    BY <2>1, BusRequest
  <2>3. dstate = "WRITE_BACK"
    BY <2>1, <2>2, DRequest
  <2>4. D!index \in Index /\ D!position \in D!Way
    BY <2>1, DAssumptions, DC!LookupTypes, Facts, SameDLookup, SameData
  <2>5. dmeta_ram[D!index][D!position].dirty
    BY <2>1, <2>3, Facts, SameDLookup DEF DC!Victim, DC!ram_rmeta, DC!meta_addr
  <2>6. /\ oreq.addr.tag = dmeta_ram[D!index][D!position].tag
        /\ oreq.addr.index = D!index
    BY <2>2, <2>3 DEF D!creq, D!creq_addr, D!ram_rmeta, D!meta_addr
  <2>7. StoredTo(oreq.addr.tag, oreq.addr.index)
    BY <2>4, <2>5, <2>6 DEF Inv, Untouched
  <2>8. DC!txAddr.tag = oreq.addr.tag /\ DC!txAddr.index = oreq.addr.index
    <3>1. oreq.addr \in Addr
      BY <2>1, BusRequest
    <3>2. TxFor(0).start = oreq.addr
      BY <2>1 DEF BusTx
    <3> QED BY <3>1, <3>2 DEF DC!txAddr, Addr
  <2>9. a # DC!txAddr
    BY <2>7, <2>8
  <2> QED BY <1>2, <2>9, MemStep DEF Inv
<1> QED BY <1>1, <1>2

\* A cycle writes back no line that nobody stores to.
LEMMA TickUntouched ==
  ASSUME SocAssumption, Inv, Tick
  PROVE  Untouched'
<1>1. (\E r : DC!Rams(r)) /\ (\E r : IC!Rams(r))
  BY DCycle, ICycle
     DEF DC!Cycle, DC!CacheCycle, DC!Flush, DC!Idle, DC!StartSkip, DC!StartMiss,
         DC!Allocate, DC!WriteBack, DC!Skip,
         IC!Cycle, IC!CacheCycle, IC!Flush, IC!Idle, IC!StartSkip, IC!StartMiss,
         IC!Allocate, IC!WriteBack, IC!Skip
<1>2. ASSUME NEW a \in Addr, ~StoredTo(a.tag, a.index) PROVE mem'[a] = InitMem[a]
  BY <1>2, WrittenStored DEF Inv, Untouched
<1>3. \A i \in Index : \A w \in D!Way :
        /\ ~imeta_ram'[i][w].dirty
        /\ dmeta_ram'[i][w].dirty => StoredTo(dmeta_ram'[i][w].tag, i)
  BY <1>1, DirtyStored, NothingDirty
<1> QED BY <1>2, <1>3 DEF Untouched, StoredTo, D!Way

\* A master asks what it may ask.
LEMMA TickAsked ==
  ASSUME SocAssumption, Inv, Tick
  PROVE  Asked'
<1>1. dreq' \in Requests \cup {DReq0}
  BY SameData DEF Tick, Masters, Inv, Asked
<1>2. ireq' \in [valid : {TRUE}, addr : Fetches] \cup {IReq0}
  <2>1. ireq' = ireq \/ ireq' \in [valid : {TRUE}, addr : Fetches]
    BY DEF Tick, Masters
  <2> QED BY <2>1 DEF Inv, Asked
<1> QED BY <1>1, <1>2 DEF Asked

\* A cycle keeps the invariant,
LEMMA TickInv ==
  ASSUME SocAssumption, Inv, Tick
  PROVE  Inv'
<1>1. mem' \in [Addr -> Word]
  BY TickCaches, SameData DEF DC!ControlCore, DC!Types, DC!DeviceTypeOK
<1>2. Granted'
  BY BusNext DEF Granted
<1> QED
  BY <1>1, <1>2, TickCaches, TickAsked, TickWrapper, TickUntouched DEF Inv

\* and so do a cycle of the reset
LEMMA ResetInv ==
  ASSUME SocAssumption, Inv, ResetTick
  PROVE  Inv'
<1>1. reset /\ ~busy /\ dreq = DReq0
  BY DEF ResetTick, Inv, Granted
<1>2. /\ left' = left - 1 /\ reset' \in BOOLEAN /\ (reset' <=> left' > 0)
      /\ ~busy' /\ busy' \in BOOLEAN /\ index' \in {0, 1}
      /\ dreq' = DReq0 /\ ireq' = ireq
  <2>1. busy' = FALSE /\ index' = 0
    BY DEF ResetTick, Arbiter!ArbiterReset
  <2>2. ~busy' /\ busy' \in BOOLEAN
    BY <2>1, Zenon
  <2>3. reset' \in BOOLEAN /\ (reset' <=> left' > 0)
    BY DEF reset
  <2> QED BY <1>1, <2>1, <2>2, <2>3 DEF ResetTick
<1>3. mem' = mem /\ Wrapper'
  BY <1>1, QuietWrapper, QuietStays DEF ResetTick
<1>4. /\ TxFor(0)' = NoTx /\ TxFor(1)' = NoTx
      /\ EnableFor(0)' \in BOOLEAN /\ EnableFor(1)' \in BOOLEAN
  BY <1>2 DEF TxFor, EnableFor, NoTx
<1>5. NoTx \in DC!Tx
  BY SameData, Zeros DEF NoTx, DC!Tx
<1>6. DC!ControlCore' /\ (~reset' => DC!LinesInv')
  <2>1. DC!ControlCore /\ DC!ResetCycle(dcresp) /\ dcresp \in DC!CResp
    BY DCacheCycle, AnswerTypes, SameData DEF Inv, ResetTick
  <2>2. DC!DeviceTypeOK'
    BY <1>3, <1>4, <1>5, SameData DEF DC!DeviceTypeOK, Inv
  <2>3. Stripped(dreq)' \in DC!DReq
    <3>1. Stripped(dreq)' = Stripped(DReq0)
      BY <1>2 DEF Stripped
    <3> QED BY <3>1, Zeros, SameData
  <2>4. DC!ControlCore'
    BY <1>2, <1>4, <2>1, <2>2, <2>3, DAssumptions, DC!ResetControl, SameData
  <2>5. ~reset' => DC!LinesInv'
    BY <1>2, <2>1, DAssumptions, DC!ResetLines
  <2> QED BY <2>4, <2>5
<1>7. IC!ControlCore' /\ (~reset' => IC!LinesInv')
  <2>1. IC!ControlCore /\ IC!ResetCycle(icresp) /\ icresp \in IC!CResp
    BY SameICache, AnswerTypes, SameData DEF Inv, ResetTick
  <2>2. IC!DeviceTypeOK'
    BY <1>4, <1>5, SameData DEF IC!DeviceTypeOK, SocAssumption
  <2>3. FetchReq(ireq)' \in IC!DReq
    <3>1. FetchReq(ireq)' = FetchReq(ireq)
      BY <1>2 DEF FetchReq
    <3>2. FetchReq(ireq) \in IC!DReq
      BY <2>1 DEF IC!ControlCore, IC!Types, IC!CacheTypeOK
    <3> QED BY <3>1, <3>2
  <2>4. IC!ControlCore'
    BY <1>2, <1>4, <2>1, <2>2, <2>3, IAssumptions, IC!ResetControl, SameData
  <2>5. ~reset' => IC!LinesInv'
    BY <1>2, <2>1, IAssumptions, IC!ResetLines
  <2> QED BY <2>4, <2>5
<1>8. Untouched'
  <2>1. DC!Rams(dcresp) /\ IC!Rams(icresp)
    BY DCacheCycle, SameICache DEF ResetTick, DC!ResetCycle, IC!ResetCycle
  <2>2. \A i \in Index : \A w \in D!Way :
          /\ ~imeta_ram'[i][w].dirty
          /\ dmeta_ram'[i][w].dirty => StoredTo(dmeta_ram'[i][w].tag, i)
    BY <2>1, DirtyStored, NothingDirty
  <2> QED BY <1>3, <2>2 DEF Untouched, StoredTo, D!Way, Inv
<1>9. Asked' /\ Granted'
  BY <1>2 DEF Asked, Granted, Inv
<1> QED
  BY <1>3, <1>6, <1>7, <1>8, <1>9 DEF Inv

\* What is a function of the registers stays as they do.
LEMMA SameBus ==
  ASSUME UNCHANGED vars
  PROVE  /\ D!creq' = D!creq /\ I!creq' = I!creq /\ oreq' = oreq
         /\ ireqs'[0] = ireqs[0] /\ ireqs'[1] = ireqs[1]
         /\ TxFor(0)' = TxFor(0) /\ TxFor(1)' = TxFor(1)
         /\ EnableFor(0)' = EnableFor(0) /\ EnableFor(1)' = EnableFor(1)
<1> USE DEF vars, icacheVars, dcacheVars, arbiterVars, bramVars, deviceVars
<1>1. D!creq' = D!creq
  BY DEF D!creq, D!creq_addr, D!ram_rdata, D!tag, D!index, D!offset, D!ram_rmeta,
         D!ram_rage, D!meta_addr, D!position, D!hit, D!hitWays, D!victims, D!LastOf,
         D!Way, D!Addr0
<1>2. I!creq' = I!creq
  BY DEF I!creq, I!creq_addr, I!ram_rdata, I!tag, I!index, I!offset, I!ram_rmeta,
         I!ram_rage, I!meta_addr, I!position, I!hit, I!hitWays, I!victims, I!LastOf,
         I!Way, I!Addr0
<1>3. ireqs'[0] = ireqs[0] /\ ireqs'[1] = ireqs[1] /\ ireqs' = ireqs
  BY <1>1, <1>2 DEF ireqs
<1>4. oreq' = oreq
  BY <1>3 DEF oreq, Arbiter!oreq, Arbiter!CReq0, Arbiter!Addr0, Arbiter!Word0
<1>5. BusTx' = BusTx
  BY <1>4 DEF BusTx
<1>6. (running' <=> running) /\ (starting' <=> starting)
  BY <1>4 DEF running, starting
<1>7. TxFor(0)' = TxFor(0) /\ TxFor(1)' = TxFor(1)
  BY <1>5, <1>6 DEF TxFor, NoTx
<1>8. EnableFor(0)' = EnableFor(0) /\ EnableFor(1)' = EnableFor(1)
  BY <1>3, <1>4, <1>6 DEF EnableFor
<1> QED BY <1>1, <1>2, <1>3, <1>4, <1>7, <1>8

\* and a step of nothing.
LEMMA SameInv ==
  ASSUME SocAssumption, Inv, UNCHANGED vars
  PROVE  Inv'
<1> USE DEF vars, icacheVars, dcacheVars, arbiterVars, bramVars, deviceVars
<1>1. DC!ControlCore' /\ (~reset' => DC!LinesInv')
  <2>1. UNCHANGED <<Stripped(dreq), reset, DC!cacheVars, DC!deviceVars, left>>
    BY SameBus DEF DC!cacheVars, DC!cacheRams, DC!deviceVars, Stripped, reset
  <2> QED
    BY <2>1, DAssumptions, DC!SameControl, DC!SameLines DEF Inv, DC!deviceVars
<1>2. IC!ControlCore' /\ (~reset' => IC!LinesInv')
  <2>1. UNCHANGED <<FetchReq(ireq), reset, IC!cacheVars, IC!deviceVars, left>>
    BY SameBus DEF IC!cacheVars, IC!cacheRams, IC!deviceVars, FetchReq, reset
  <2> QED
    BY <2>1, IAssumptions, IC!SameControl, IC!SameLines DEF Inv, IC!deviceVars
<1>3. Asked'
  BY DEF Inv, Asked
<1>4. Granted'
  <2>1. ireqs'[index'] = ireqs[index] /\ (reset' <=> reset)
    BY SameBus DEF Inv, Granted, reset
  <2> QED BY <2>1 DEF Inv, Granted
<1>5. Wrapper'
  BY SameBus DEF Inv, Wrapper
<1>6. Untouched'
  BY DEF Inv, Untouched, StoredTo, D!Way
<1> QED
  BY <1>1, <1>2, <1>3, <1>4, <1>5, <1>6 DEF Inv

\* It holds when the power comes on.
LEMMA InitInv == ASSUME SocAssumption, Init PROVE Inv
<1>1. /\ left = ResetTicks /\ ResetTicks \in 0 .. ResetTicks /\ ResetTicks > 0 /\ reset
      /\ ireq = IReq0 /\ dreq = DReq0 /\ index = 0 /\ mem = InitMem
  BY SameData, SizeAssumption
     DEF Init, Arbiter!ArbiterInit, IReq0, SocAssumption, reset
<1>2. ~busy /\ busy \in BOOLEAN
  <2>1. busy = FALSE
    BY DEF Init, Arbiter!ArbiterInit
  <2> QED BY <2>1, Zenon
<1>3. TxFor(0) = NoTx /\ TxFor(1) = NoTx /\ EnableFor(0) \in BOOLEAN /\ EnableFor(1) \in BOOLEAN
  BY <1>2 DEF TxFor, EnableFor
<1>4. NoTx \in DC!Tx /\ mem \in [Addr -> Word]
  BY <1>1, SameData, Zeros DEF NoTx, DC!Tx, SocAssumption
<1>5. DC!ControlCore
  <2>1. DC!CacheTypeOK
    BY <1>1, SameData, Zeros, TagAssumption
       DEF Init, D!CacheInit, DC!CacheTypeOK, DC!States, DC!Meta, D!Meta0, D!Way,
           D!Index, D!Offset, Index, Offset, D!Word0, Word0, reset
  <2>2. DC!DeviceTypeOK
    BY <1>3, <1>4, SameData DEF DC!DeviceTypeOK
  <2>3. DC!AgesOld
    BY SameData DEF Init, D!CacheInit, DC!AgesOld, D!Way
  <2> QED BY <1>1, <2>1, <2>2, <2>3 DEF DC!ControlCore, DC!Types, DC!ResetInv
<1>6. IC!ControlCore
  <2>1. IC!CacheTypeOK
    BY <1>1, SameData, Zeros, TagAssumption
       DEF Init, I!CacheInit, IC!CacheTypeOK, IC!States, IC!Meta, I!Meta0, I!Way, D!Way,
           I!Index, I!Offset, Index, Offset, I!Word0, Word0, FetchReq, IReq0, DReq0, reset
  <2>2. IC!DeviceTypeOK
    BY <1>3, <1>4, SameData DEF IC!DeviceTypeOK, SocAssumption
  <2>3. IC!AgesOld
    BY SameData DEF Init, I!CacheInit, IC!AgesOld, I!Way, D!Way, I!Index, Index
  <2> QED BY <1>1, <2>1, <2>2, <2>3 DEF IC!ControlCore, IC!Types, IC!ResetInv
<1>7. Untouched
  BY <1>1 DEF Init, Untouched, I!CacheInit, D!CacheInit, I!Meta0, D!Meta0, I!Way, D!Way,
     I!Index, D!Index, Index
<1>8. Asked /\ Granted
  <2>1. Asked
    BY <1>1 DEF Asked
  <2>2. Granted
    BY <1>1, <1>2 DEF Granted
  <2> QED BY <2>1, <2>2
<1>9. Wrapper
  <2>1. /\ counter = 0 /\ burst_counter = 0 /\ douta \in Word
        /\ BRAM_DELAY \in Nat
    BY Zeros DEF Init, SocAssumption
  <2>2. /\ ~real_valid /\ real_valid \in BOOLEAN /\ ~ready_read /\ ready_read \in BOOLEAN
        /\ ~last_read /\ last_read \in BOOLEAN /\ device_ready \in BOOLEAN
    BY Zenon DEF Init
  <2> QED BY <1>2, <2>1, <2>2 DEF Wrapper
<1> QED
  BY <1>1, <1>4, <1>5, <1>6, <1>7, <1>8, <1>9 DEF Inv

LEMMA NextInv == ASSUME SocAssumption PROVE Inv /\ [Next]_vars => Inv'
  BY TickInv, ResetInv, SameInv DEF Next

\* The invariant holds in every state.
THEOREM InvCorrect == ASSUME SocAssumption PROVE Spec => []Inv
<1>1. Init => Inv
  BY InitInv
<1>2. Inv /\ [Next]_vars => Inv'
  BY NextInv
<1> QED BY <1>1, <1>2, PTL DEF Spec

-----------------------------------------------------------------------------
(* What follows                                                            *)

\* What the data cache's master should see is what the master of the test
\* bench sees.
LEMMA SameViews ==
  /\ ~reset => View = DC!View
  /\ ~reset' => View' = DC!View'
<1>1. Stripped(dreq).addr = dreq.addr /\ Stripped(dreq)'.addr = dreq'.addr
  BY DEF Stripped
<1>2. \A a \in Addr :
        {w \in D!Way : /\ dmeta_ram[a.index][w].valid
                       /\ dmeta_ram[a.index][w].tag = a.tag
                       /\ dstate = "ALLOCATE" =>
                            <<a.tag, a.index>> # <<D!tag, D!index>>}
          = {w \in DC!Way : DC!Holds(a, w)}
  BY <1>1 DEF DC!Holds, D!Way, DC!Way, D!tag, DC!tag, D!index, DC!index
<1>3. \A a \in Addr :
        {w \in D!Way : /\ dmeta_ram'[a.index][w].valid
                       /\ dmeta_ram'[a.index][w].tag = a.tag
                       /\ dstate' = "ALLOCATE" =>
                            <<a.tag, a.index>> # <<D!tag', D!index'>>}
          = {w \in DC!Way : DC!Holds(a, w)'}
  BY <1>1 DEF DC!Holds, D!Way, DC!Way, D!tag, DC!tag, D!index, DC!index
<1>4. ASSUME ~reset PROVE View = DC!View
  BY <1>2, <1>4, SameData DEF View, DC!View, D!LastOf, DC!LastOf
<1>5. ASSUME ~reset' PROVE View' = DC!View'
  BY <1>3, <1>5, SameData DEF View, DC!View, D!LastOf, DC!LastOf
<1> QED BY <1>4, <1>5

\* A fetch that is answered gets the word of the program.
LEMMA FetchRight ==
  ASSUME SocAssumption, Inv, ~reset, ireq.valid, iresp.data_ok
  PROVE  iresp.data = InitMem[ireq.addr]
<1>1. istate # "SKIP"
  BY IRequest DEF I!creq
<1>2. /\ istate = "IDLE" /\ IC!hit
      /\ iresp.data = idata_ram[IC!index][IC!position][IC!offset]
  <2>1. iresp = IC!dresp(icresp)
    BY SameICache DEF iresp
  <2> QED BY <1>1, <2>1 DEF IC!dresp, IC!ram_rdata
<1>3. /\ IC!index \in Index /\ IC!position \in D!Way /\ IC!offset \in Offset
  BY IAssumptions, IC!LookupTypes, Facts, SameData
<1>4. IC!ram_rmeta = imeta_ram[IC!index]
  BY <1>2 DEF IC!ram_rmeta, IC!meta_addr
<1>5. /\ imeta_ram[IC!index][IC!position].valid
      /\ imeta_ram[IC!index][IC!position].tag = IC!tag
      /\ ~imeta_ram[IC!index][IC!position].dirty
  BY <1>2, <1>3, <1>4, IAssumptions, IC!HitFacts, Facts DEF Inv, Untouched
<1>6. IC!LineInMemory(IC!index, IC!position)
  BY <1>2, <1>3, <1>5, SameData DEF Inv, IC!LinesInv, IC!CleanLineInMemory
<1>7. ireq.addr = [tag |-> IC!tag, index |-> IC!index, offset |-> IC!offset]
  BY Requested DEF Addr, IC!tag, IC!index, IC!offset, FetchReq
<1> QED BY <1>2, <1>3, <1>5, <1>6, <1>7, SameData DEF IC!LineInMemory

\* The device takes the word of a store in the cycle the store is answered.
LEMMA DeviceWrite ==
  ASSUME SocAssumption, Inv, ~reset
  PROVE  /\ device_valid /\ wstrobe # {} /\ device_ready <=>
              /\ dreq.valid /\ dresp.data_ok /\ dreq.strobe # {} /\ Uncached(dreq.addr)
         /\ device_valid => oreq.data = dreq.data
<1>1. ASSUME device_valid
      PROVE  /\ busy /\ index = 0 /\ oreq = D!creq /\ dstate = "SKIP"
             /\ dreq.valid /\ Uncached(dreq.addr) /\ oreq.data = dreq.data
             /\ (wstrobe # {} <=> dreq.strobe # {})
             /\ (dresp.data_ok <=> device_ready)
  <2>1. busy /\ Uncached(oreq.addr)
    BY <1>1, BusRequest DEF device_valid
  <2>2. index = 0 /\ oreq = D!creq /\ D!creq.valid
    BY <2>1, BusRequest
  <2>3. /\ dstate = "SKIP" /\ dreq.valid /\ Uncached(dreq.addr)
        /\ oreq.strobe = dreq.strobe /\ oreq.data = dreq.data
        /\ oreq.is_write = (dreq.strobe # {})
    BY <2>1, <2>2, DRequest
  <2>4. wstrobe # {} <=> dreq.strobe # {}
    BY <2>3 DEF wstrobe
  <2>5. dresp.data_ok <=> device_ready
    <3>1. dcresp = cresp /\ cresp.last = device_ready
      BY <2>1, <2>2, Answers DEF cresp
    <3> QED BY <2>3, <3>1 DEF dresp, D!dresp
  <2> QED BY <2>1, <2>2, <2>3, <2>4, <2>5
<1>2. ASSUME dreq.valid, dresp.data_ok, Uncached(dreq.addr)
      PROVE  device_valid
  <2>1. dstate = "SKIP" /\ dcresp.last
    <3>1. dstate = "IDLE" => ~D!hit
      BY <1>2, DMisses
    <3> QED BY <1>2, <3>1 DEF dresp, D!dresp
  <2>2. busy /\ index = 0
    BY <2>1, Answers DEF CResp0
  <2>3. oreq = D!creq /\ oreq.valid
    BY <2>2, BusRequest
  <2>4. Uncached(oreq.addr)
    BY <2>1, <2>3, DRequest
  <2> QED BY <2>3, <2>4 DEF device_valid
<1> QED BY <1>1, <1>2

\* A load gets its word, and a store changes the word it is for.
LEMMA DataRight ==
  ASSUME SocAssumption, Inv, Tick
  PROVE  LET done  == dreq.valid /\ dresp.data_ok
             store == done /\ dreq.strobe # {}
         IN  /\ done /\ ~store => dresp.data = View[dreq.addr]
             /\ View' = IF store /\ ~Uncached(dreq.addr)
                        THEN [View EXCEPT ![dreq.addr] = Merge(@, dreq.strobe, dreq.data)]
                        ELSE View
<1>1. ~reset /\ ~reset' /\ DC!RunningStep /\ DC!LinesInv
  BY BusNext, TickCaches DEF Inv
<1>2. /\ Stripped(dreq).valid = dreq.valid /\ Stripped(dreq).addr = dreq.addr
      /\ Stripped(dreq).data = dreq.data
      /\ Stripped(dreq).strobe = IF Uncached(dreq.addr) THEN {} ELSE dreq.strobe
  BY DEF Stripped
<1>3. DC!IdleStoreDone
  <2>1. ~dreq.valid => dreq.strobe = {}
    BY Zeros DEF Inv, Asked, SocAssumption
  <2> QED BY <1>2, <2>1 DEF DC!IdleStoreDone
<1>4. IF Stripped(dreq).valid /\ DC!answer.data_ok
      THEN /\ DC!View' = DC!Stored
           /\ Stripped(dreq).strobe = {} => DC!answer.data = DC!View[Stripped(dreq).addr]
      ELSE DC!View' = DC!View
  BY <1>1, <1>3, DAssumptions, DC!CycleView
<1>5. View = DC!View /\ View' = DC!View'
  BY <1>1, SameViews
<1>6. DC!answer.data_ok = dresp.data_ok
  BY <1>1, DAnswered
<1>7. CASE ~(dreq.valid /\ dresp.data_ok)
  BY <1>2, <1>4, <1>5, <1>6, <1>7
<1>8. CASE dreq.valid /\ dresp.data_ok /\ Stripped(dreq).strobe = {}
  <2>1. DC!Stored = DC!View
    BY <1>1, <1>8, DAssumptions, DC!StoredNone
  <2>2. DC!answer.data = dresp.data
    BY <1>1, <1>2, <1>8, DAnswered
  <2> QED BY <1>2, <1>4, <1>5, <1>6, <1>8, <2>1, <2>2
<1>9. CASE dreq.valid /\ dresp.data_ok /\ Stripped(dreq).strobe # {}
  <2>1. DC!Stored = [View EXCEPT ![dreq.addr] = Merge(@, dreq.strobe, dreq.data)]
    BY <1>2, <1>5, <1>9 DEF DC!Stored, Merge, DC!Merge
  <2> QED BY <1>2, <1>4, <1>5, <1>6, <1>9, <2>1
<1> QED BY <1>7, <1>8, <1>9

\* What MemoryRight says of a cycle.
Right ==
  /\ ireq.valid /\ iresp.data_ok => iresp.data = InitMem[ireq.addr]
  /\ LET done  == dreq.valid /\ dresp.data_ok
         store == done /\ dreq.strobe # {}
     IN  /\ done /\ ~store => dresp.data = View[dreq.addr]
         /\ View' = IF store /\ ~Uncached(dreq.addr)
                    THEN [View EXCEPT ![dreq.addr] = Merge(@, dreq.strobe, dreq.data)]
                    ELSE View
         /\ out' = IF store /\ Uncached(dreq.addr) THEN dreq.data ELSE out

LEMMA RightStep == ASSUME SocAssumption, Inv, Next, ~reset PROVE Right
<1>1. Tick
  BY DEF Next, ResetTick
<1>2. out' = IF device_valid /\ wstrobe # {} /\ device_ready THEN oreq.data ELSE out
  BY <1>1 DEF Tick, Device
<1> QED BY <1>1, <1>2, FetchRight, DataRight, DeviceWrite DEF Right

\* Through the caches, the arbiter, the crossbar and the RAM's wrapper every
\* fetch and every load gets its word, a store changes its word or reaches the
\* device, and nothing else does, whatever the delay.
THEOREM MemoryRightHolds == ASSUME SocAssumption PROVE Spec => MemoryRight
<1>1. Inv /\ [Next]_vars => [~reset => Right]_vars
  BY RightStep
<1> QED BY <1>1, InvCorrect, PTL DEF Spec, MemoryRight, Right
=============================================================================
