--------------------------- MODULE VCacheTopProofs ---------------------------
(***************************************************************************)
(* Theorems about VCacheTop, for every value of the constants.             *)
(***************************************************************************)
EXTENDS VCacheTopInv, TLAPS

-----------------------------------------------------------------------------
(* Arithmetic of the burst counter                                         *)

\* A remainder is below the divisor.
LEMMA ModRange ==
  ASSUME NEW a \in Int, NEW b \in Nat \ {0}
  PROVE  a % b \in 0 .. b - 1
  OBVIOUS

\* The remainder is the only one of its form.
LEMMA ModUnique ==
  ASSUME NEW q \in Nat, NEW b \in Nat \ {0}, NEW r \in 0 .. b - 1
  PROVE  (q * b + r) % b = r
  OBVIOUS

\* A quotient and a remainder make up the number.
LEMMA DivMod ==
  ASSUME NEW a \in Nat, NEW b \in Nat \ {0}
  PROVE  a \div b \in Nat /\ a = (a \div b) * b + (a % b)
  OBVIOUS

\* The next number has the next remainder.
LEMMA ModStep ==
  ASSUME NEW a \in Nat, NEW b \in Nat \ {0}
  PROVE  (a + 1) % b = IF a % b = b - 1 THEN 0 ELSE (a % b) + 1
<1> DEFINE q == a \div b
           r == a % b
<1>1. q \in Nat /\ a = q * b + r /\ r \in 0 .. b - 1
  <2>1. a \in Int
    OBVIOUS
  <2> QED BY <2>1, DivMod, ModRange
<1> HIDE DEF q, r
<1>2. CASE r = b - 1
  <2>1. a + 1 = (q + 1) * b + 0
    BY <1>1, <1>2
  <2>2. (a + 1) % b = 0
    <3>1. q + 1 \in Nat /\ 0 \in 0 .. b - 1
      BY <1>1
    <3>2. ((q + 1) * b + 0) % b = 0
      BY <3>1, ModUnique
    <3> QED BY <2>1, <3>2
  <2> QED BY <1>2, <2>2 DEF r
<1>3. CASE r # b - 1
  <2>1. a + 1 = q * b + (r + 1) /\ r + 1 \in 0 .. b - 1
    BY <1>1, <1>3
  <2>2. (q * b + (r + 1)) % b = r + 1
    BY <2>1, <1>1, ModUnique
  <2> QED BY <1>3, <2>1, <2>2 DEF r
<1> QED BY <1>2, <1>3

\* The low bits of the counter walk over the sets one by one, because a line
\* has a multiple of SET_NUM words.
LEMMA CounterWalk ==
  ASSUME NEW o \in Offset
  PROVE  ((o + 1) % WordsPerLine) % SetNum
           = IF o % SetNum = SetNum - 1 THEN 0 ELSE (o % SetNum) + 1
<1>1. /\ SetNum \in Nat \ {0} /\ WordsPerLine \in Nat \ {0}
      /\ WordsPerLine % SetNum = 0
      /\ o \in Nat /\ o \in 0 .. WordsPerLine - 1
  BY SizeAssumption DEF Offset
<1>2. (o + 1) % SetNum = IF o % SetNum = SetNum - 1 THEN 0 ELSE (o % SetNum) + 1
  BY <1>1, ModStep
<1>3. CASE o = WordsPerLine - 1
  <2>1. (o + 1) % WordsPerLine = 0
    BY <1>1, <1>3
  <2>2. 0 % SetNum = 0
    BY <1>1
  <2>3. (o + 1) % SetNum = 0
    BY <1>1, <1>3
  <2> QED BY <1>2, <2>1, <2>2, <2>3
<1>4. CASE o # WordsPerLine - 1
  <2>1. (o + 1) % WordsPerLine = o + 1
    BY <1>1, <1>4
  <2> QED BY <1>2, <2>1
<1> QED BY <1>3, <1>4

-----------------------------------------------------------------------------
(* Types                                                                   *)

\* The sizes are usable, and the zeros of the types belong to them.
LEMMA Sizes ==
  /\ SetNum \in Nat \ {0} /\ WordsPerLine \in Nat \ {0}
  /\ 0 \in Index /\ 0 \in Offset
  /\ Addr0 \in Addr /\ Word0 \in Word
  /\ DReq0 \in DReq /\ CResp0 \in CResp /\ Tx0 \in Tx
<1>1. SetNum \in Nat \ {0} /\ WordsPerLine \in Nat \ {0}
  BY SizeAssumption
<1>2. 0 \in Index /\ 0 \in Offset
  BY <1>1 DEF Index, Offset
<1>3. Addr0 \in Addr /\ Word0 \in Word
  BY <1>2, TagAssumption, ByteAssumption DEF Addr0, Addr, Word0, Word
<1> QED
  BY <1>1, <1>2, <1>3
     DEF DReq0, DReq, Strobe, CResp0, CResp, Tx0, Tx

\* A merged word is a word.
LEMMA MergeType ==
  ASSUME NEW old \in Word, NEW s, NEW d \in Word
  PROVE  Merge(old, s, d) \in Word
  BY DEF Merge, Word

\* What the cache computes from its inputs and RAMs is in range.
LEMMA LookupTypes ==
  ASSUME CacheTypeOK
  PROVE  /\ tag \in Tag /\ index \in Index /\ offset \in Offset
         /\ meta_addr \in Index
         /\ ram_rmeta \in [Way -> Meta] /\ ram_rage \in [Way -> 0 .. 1]
         /\ position \in Way
         /\ wage \in [Way -> 0 .. 1]
         /\ cnt_nxt \in Offset
<1>1. tag \in Tag /\ index \in Index /\ offset \in Offset
  BY DEF CacheTypeOK, DReq, Addr, tag, index, offset
<1>2. offset_cnt % SetNum \in Index /\ cnt_nxt \in Offset
  BY Sizes, ModRange DEF CacheTypeOK, Index, Offset, cnt_nxt
<1>3. meta_addr \in Index
  BY <1>1, <1>2 DEF meta_addr
<1>4. ram_rmeta \in [Way -> Meta] /\ ram_rage \in [Way -> 0 .. 1]
  BY <1>3 DEF CacheTypeOK, ram_rmeta, ram_rage
<1>5. position \in Way
  BY DEF position, LastOf, Way
<1>6. wage \in [Way -> 0 .. 1]
  <2>1. \A n \in 0 .. 1 : (n + 1) % 2 \in 0 .. 1
    OBVIOUS
  <2> QED BY <1>4, <2>1 DEF wage
<1> QED BY <1>1, <1>2, <1>3, <1>4, <1>5, <1>6

\* What the cache drives on its buses has the buses' types.
LEMMA OutputTypes ==
  ASSUME CacheTypeOK
  PROVE  /\ ram_rdata \in Word
         /\ creq \in CReq
         /\ \A r \in CResp : dresp(r) \in DResp
<1>1. ram_rdata \in Word
  <2>1. data_ram[index][position][offset_cnt] \in Word
    BY LookupTypes DEF CacheTypeOK
  <2>2. data_ram[index][position][offset] \in Word
    BY LookupTypes DEF CacheTypeOK
  <2> QED BY <2>1, <2>2 DEF ram_rdata
<1>2. creq_addr \in Addr
  <2>1. [tag |-> tag, index |-> index, offset |-> 0] \in Addr
    BY LookupTypes, Sizes DEF Addr
  <2>2. [tag |-> ram_rmeta[position].tag, index |-> index, offset |-> 0] \in Addr
    BY LookupTypes, Sizes DEF Addr, Meta
  <2>3. dreq.addr \in Addr
    BY DEF CacheTypeOK, DReq
  <2> QED BY <2>1, <2>2, <2>3, Sizes DEF creq_addr
<1>3. creq \in CReq
  <2>1. dreq.strobe \in Strobe /\ Lane \in Strobe /\ dreq.data \in Word
    BY DEF CacheTypeOK, DReq, Strobe
  <2> QED BY <1>1, <1>2, <2>1 DEF creq, CReq
<1>4. \A r \in CResp : dresp(r) \in DResp
  BY <1>1 DEF dresp, DResp, CResp
<1> QED BY <1>1, <1>3, <1>4

\* What the device answers has the bus's type.
LEMMA RespType ==
  ASSUME DeviceTypeOK
  PROVE  txAddr \in Addr /\ cresp \in CResp
<1>1. txAddr \in Addr
  <2>1. tx.start \in Addr /\ tx.start.offset + tx.n - 1 \in Int
    BY Sizes DEF DeviceTypeOK, Tx, Addr, Offset
  <2>2. (tx.start.offset + tx.n - 1) % WordsPerLine \in Offset
    BY <2>1, Sizes, ModRange DEF Offset
  <2> QED BY <2>1, <2>2 DEF txAddr, Addr
<1>2. cresp \in CResp
  BY <1>1, Sizes DEF DeviceTypeOK, cresp, CResp, Tx, txLast
<1> QED BY <1>1, <1>2

\* A cycle writes well-typed words, tags and ages into the RAMs.
LEMMA RamTypes ==
  ASSUME CacheTypeOK, NEW r \in CResp, Rams(r)
  PROVE  /\ data_ram' \in [Index -> [Way -> [Offset -> Word]]]
         /\ meta_ram' \in [Index -> [Way -> Meta]]
         /\ age_ram' \in [Index -> [Way -> 0 .. 1]]
<1> USE LookupTypes
<1>1. age_ram' \in [Index -> [Way -> 0 .. 1]]
  BY DEF Rams, TouchAges, CacheTypeOK
<1>2. CASE ClearSet
  BY <1>1, <1>2, TagAssumption DEF ClearSet, CacheTypeOK, Meta, Meta0
<1>3. CASE WriteWord
  <2>1. Merge(data_ram[index][position][offset], dreq.strobe, dreq.data) \in Word
    BY MergeType DEF CacheTypeOK, DReq
  <2>2. data_ram' \in [Index -> [Way -> [Offset -> Word]]]
    BY <1>3, <2>1 DEF WriteWord, CacheTypeOK
  <2>3. meta_ram' \in [Index -> [Way -> Meta]]
    <3> DEFINE dirtied == [meta_ram[index][position] EXCEPT !.dirty = TRUE]
    <3>1. dirtied \in Meta
      <4>1. meta_ram[index][position] \in Meta
        BY DEF CacheTypeOK
      <4> QED BY <4>1 DEF Meta
    <3>2. meta_ram' = [meta_ram EXCEPT ![index] = [@ EXCEPT ![position] = dirtied]]
      BY <1>3 DEF WriteWord, CacheTypeOK
    <3> HIDE DEF dirtied
    <3> QED BY <3>1, <3>2 DEF CacheTypeOK
  <2> QED BY <1>1, <2>2, <2>3
<1>4. CASE FillWord(r)
  <2>1. r.data \in Word /\ offset_cnt \in Offset
    BY DEF CResp, CacheTypeOK
  <2>2. data_ram' \in [Index -> [Way -> [Offset -> Word]]]
    BY <1>4, <2>1 DEF FillWord, CacheTypeOK
  <2>3. meta_ram' \in [Index -> [Way -> Meta]]
    BY <1>4 DEF FillWord, CacheTypeOK, Meta
  <2> QED BY <1>1, <2>2, <2>3
<1>5. CASE KeepRams
  BY <1>1, <1>5 DEF KeepRams, CacheTypeOK
<1> QED BY <1>2, <1>3, <1>4, <1>5 DEF Rams

\* A cycle of the FSM keeps the types of the cache's registers.
LEMMA CycleTypes ==
  ASSUME CacheTypeOK, NEW r \in CResp, CacheCycle(r) \/ ResetCycle(r),
         dreq' \in DReq, reset' \in BOOLEAN
  PROVE  CacheTypeOK'
<1>1. Rams(r)
  BY DEF CacheCycle, ResetCycle, Flush, Idle, StartSkip, StartMiss, Allocate,
         WriteBack, Skip
<1>2. state' \in States /\ offset_cnt' \in Offset
  BY LookupTypes, Sizes
     DEF CacheTypeOK, States, CacheCycle, ResetCycle, Flush, Idle, StartSkip,
         StartMiss, Allocate, WriteBack, Skip
<1> QED BY <1>1, <1>2, RamTypes DEF CacheTypeOK

\* A cycle of the device keeps the types of its registers.
LEMMA DeviceTypes ==
  ASSUME DeviceTypeOK, NEW r \in CReq, DeviceCycle(r)
  PROVE  DeviceTypeOK'
<1>1. CASE DeviceIdle(r)
  BY <1>1 DEF DeviceIdle, DeviceTypeOK
<1>2. CASE DeviceStart(r)
  BY <1>2, Sizes DEF DeviceStart, DeviceTypeOK, TxOf, Tx, CReq
<1>3. CASE DeviceBeat(r)
  <2>1. tx' \in Tx
    BY <1>3, Sizes DEF DeviceBeat, DeviceTypeOK, Tx
  <2>2. Merge(mem[txAddr], r.strobe, r.data) \in Word
    BY RespType, MergeType DEF DeviceTypeOK, CReq
  <2>3. mem' \in [Addr -> Word]
    BY <1>3, <2>2, RespType DEF DeviceBeat, DeviceTypeOK
  <2> QED BY <1>3, <2>1, <2>3 DEF DeviceBeat, DeviceTypeOK
<1> QED BY <1>1, <1>2, <1>3 DEF DeviceCycle

\* The requests a master may drive next are requests.
LEMMA NextReqType ==
  ASSUME CacheTypeOK PROVE NextReq \subseteq DReq
  BY RequestAssumption DEF NextReq, CacheTypeOK, DReq

LEMMA InitTypes == Init => Types
<1> SUFFICES ASSUME Init PROVE Types
  OBVIOUS
<1>1. CacheTypeOK
  BY Sizes, TagAssumption
     DEF Init, CacheInit, CacheTypeOK, States, Meta, Meta0, Way
<1>2. DeviceTypeOK
  BY Sizes, InitMemAssumption DEF Init, DeviceInit, DeviceTypeOK
<1> QED
  BY <1>1, <1>2, Sizes, ResetAssumption DEF Init, Types

\* A cycle of reset counts down, whatever is on the bus.
LEMMA ResetTypes ==
  ASSUME Types, NEW r \in CResp, ResetCycle(r), left' = left - 1,
         reset' \in BOOLEAN, (reset' <=> left' > 0), dreq' \in DReq, DeviceTypeOK'
  PROVE  Types'
<1>1. left' \in 0 .. ResetTicks /\ reset' \in BOOLEAN
  BY ResetAssumption DEF Types, ResetCycle
<1>2. CacheTypeOK'
  BY <1>1, CycleTypes DEF Types
<1> QED
  BY <1>1, <1>2 DEF Types

\* A running cycle keeps the types.
LEMMA CycleKeepsTypes ==
  ASSUME Types, Cycle, UNCHANGED <<reset, left>>
  PROVE  Types'
<1>1. cresp \in CResp /\ creq \in CReq
  BY RespType, OutputTypes DEF Types
<1>2. dreq' \in DReq
  BY NextReqType DEF Cycle, Master, Types, CacheTypeOK
<1>3. CacheTypeOK'
  BY <1>2, CycleTypes DEF Cycle, Types, CacheTypeOK
<1>4. DeviceTypeOK'
  BY <1>1, DeviceTypes DEF Cycle, Types
<1> QED
  BY <1>3, <1>4 DEF Types

\* What the bench's own steps are made of.
LEMMA TickCycle ==
  ASSUME Types, Tick
  PROVE  Cycle /\ UNCHANGED <<reset, left>>
<1>1. cresp \in CResp /\ Sees(cresp)
  BY RespType DEF Types, Sees
<1>2. CacheCycle(cresp) /\ DeviceCycle(creq) /\ UNCHANGED <<reset, left>>
  BY DEF Tick
<1>3. Master
  BY DEF Tick, Await, Accept, NoRequest, Master
<1> QED BY <1>1, <1>2, <1>3 DEF Cycle

LEMMA ResetTickFacts ==
  ASSUME Types, ResetTick
  PROVE  /\ ResetCycle(CResp0) /\ left' = left - 1
         /\ reset' \in BOOLEAN /\ (reset' <=> left' > 0)
         /\ dreq' \in DReq /\ DeviceTypeOK'
         /\ ~reset' => tx' = Tx0
<1>1. /\ reset /\ left \in 1 .. ResetTicks /\ ResetTicks \in Nat
      /\ left' = left - 1 /\ ResetCycle(CResp0) /\ dreq' = dreq
  BY ResetAssumption DEF ResetTick, ResetCycle, Types
<1>2. CASE left' = 0
  <2>1. ~reset' /\ reset' \in BOOLEAN /\ mem' = InitMem /\ tx' = Tx0 /\ enable' = enable
    BY <1>2 DEF ResetTick, DeviceReset
  <2> QED
    BY <1>1, <1>2, <2>1, Sizes, InitMemAssumption DEF DeviceTypeOK, Types, CacheTypeOK
<1>3. CASE left' # 0
  <2>1. reset' = reset /\ UNCHANGED deviceVars
    BY <1>3 DEF ResetTick
  <2> QED
    BY <1>1, <1>3, <2>1 DEF DeviceTypeOK, Types, CacheTypeOK, deviceVars
<1> QED BY <1>2, <1>3

LEMMA NextTypes == Types /\ [Next]_vars => Types'
<1> SUFFICES ASSUME Types, [Next]_vars PROVE Types'
  OBVIOUS
<1>1. CASE Restart
  BY <1>1, Sizes, ResetAssumption
     DEF Restart, Types, CacheTypeOK, DeviceTypeOK, cacheVars, cacheRams, deviceVars
<1>2. CASE ResetTick
  BY <1>2, ResetTickFacts, ResetTypes, Sizes
<1>3. CASE Tick
  BY <1>3, TickCycle, CycleKeepsTypes
<1>4. CASE UNCHANGED vars
  BY <1>4 DEF vars, Types, CacheTypeOK, DeviceTypeOK, cacheVars, cacheRams, deviceVars
<1> QED BY <1>1, <1>2, <1>3, <1>4 DEF Next

\* Every register, RAM and wire of the bench keeps its type, and so does the
\* answer the master takes.
THEOREM TypeCorrect == Spec => []TypeOK
<1>1. Init => TypeOK
  BY InitTypes, Sizes DEF Init, TypeOK, Types
<1>2. TypeOK /\ [Next]_vars => TypeOK'
  <2> SUFFICES ASSUME TypeOK, [Next]_vars PROVE TypeOK'
    OBVIOUS
  <2>1. Types /\ Types'
    BY NextTypes DEF TypeOK, Types
  <2>2. answer \in DResp
    BY <2>1, RespType, OutputTypes DEF answer, Types
  <2>3. rdata' = rdata \/ rdata' = answer.data
    BY DEF Next, vars, Restart, ResetTick, Tick, Await, Accept, NoRequest
  <2>4. rdata' \in Word
    BY <2>2, <2>3 DEF DResp, TypeOK
  <2> QED BY <2>1, <2>4 DEF TypeOK, Types
<1> QED BY <1>1, <1>2, PTL DEF Spec

-----------------------------------------------------------------------------
(* The lookup                                                              *)

\* A hit finds a valid way with the tag; a miss means that there is none.
LEMMA HitFacts ==
  ASSUME CacheTypeOK
  PROVE  /\ position \in Way
         /\ hit => ram_rmeta[position].valid /\ ram_rmeta[position].tag = tag
         /\ \A w \in Way : ram_rmeta[w].valid /\ ram_rmeta[w].tag = tag => hit
  BY DEF position, hit, hitWays, LastOf, Way

\* The position of a miss is invalid or old, unless no way is.
LEMMA MissFacts ==
  ASSUME CacheTypeOK, ~hit
  PROVE  \/ ~ram_rmeta[position].valid
         \/ ram_rage[position] = 1
         \/ \A w \in Way : ram_rage[w] # 1
  BY DEF position, victims, LastOf, Way

\* Outside of FLUSH the RAMs are read at the set of the request.
LEMMA ReadSet ==
  ASSUME state # "FLUSH"
  PROVE  meta_addr = index /\ ram_rmeta = meta_ram[index] /\ ram_rage = age_ram[index]
  BY DEF meta_addr, ram_rmeta, ram_rage

\* A store or an idle cycle changes no tag and no valid bit.
LEMMA TagsKept ==
  ASSUME CacheTypeOK, WriteWord \/ KeepRams, NEW i \in Index, NEW w \in Way
  PROVE  /\ meta_ram'[i][w].valid = meta_ram[i][w].valid
         /\ meta_ram'[i][w].tag = meta_ram[i][w].tag
<1>1. CASE WriteWord
  <2>1. meta_ram[index][position] \in Meta /\ index \in Index /\ position \in Way
    BY LookupTypes DEF CacheTypeOK
  <2> QED BY <1>1, <2>1, LookupTypes DEF WriteWord, CacheTypeOK, Meta
<1>2. CASE KeepRams
  BY <1>2 DEF KeepRams
<1> QED BY <1>1, <1>2

\* A fill cycle changes one way of one set.
LEMMA TagsFilled ==
  ASSUME CacheTypeOK, NEW r, FillWord(r), NEW i \in Index, NEW w \in Way
  PROVE  meta_ram'[i][w] = IF i = index /\ w = position
                           THEN [valid |-> TRUE, dirty |-> FALSE, tag |-> tag]
                           ELSE meta_ram[i][w]
  BY LookupTypes DEF FillWord, CacheTypeOK

\* A hit makes its way young and the other one old, if they differed.
LEMMA AgesTouched ==
  ASSUME CacheTypeOK, AgesOld, TouchAges, ~reset, NEW i \in Index
  PROVE  /\ age_ram'[i][0] = 0 \/ age_ram'[i][1] = 0
         /\ i = meta_addr /\ hit => /\ age_ram'[i][position] = 0
                                    /\ age_ram'[i][1 - position] = 1
         /\ i # meta_addr \/ ~hit => age_ram'[i] = age_ram[i]
<1>1. CASE hit
  <2>1. age_ram' = [age_ram EXCEPT ![meta_addr] = wage]
    BY <1>1 DEF TouchAges
  <2>2. wage[position] = 0 /\ wage[1 - position] = 1
    <3>1. /\ position \in 0 .. 1
          /\ ram_rage[0] \in 0 .. 1 /\ ram_rage[1] \in 0 .. 1
          /\ ram_rage[0] = 0 \/ ram_rage[1] = 0
      BY LookupTypes DEF Way, AgesOld, ram_rage
    <3>2. (0 + 1) % 2 = 1
      OBVIOUS
    <3> QED BY <3>1, <3>2 DEF wage, Way
  <2> QED BY <1>1, <2>1, <2>2, LookupTypes DEF CacheTypeOK, Way, AgesOld
<1>2. CASE ~hit
  BY <1>2 DEF TouchAges, AgesOld
<1> QED BY <1>1, <1>2

-----------------------------------------------------------------------------
(* The reset                                                               *)

\* In a reset cycle every other set gets one cycle further from the counter;
\* the set the counter is at is last seen one cycle ago.
LEMMA SinceStep ==
  ASSUME offset_cnt \in Offset, offset_cnt' = cnt_nxt, NEW i \in Index
  PROVE  /\ Since(i) \in 1 .. SetNum /\ Since(i)' \in 1 .. SetNum
         /\ i = offset_cnt % SetNum => Since(i)' = 1
         /\ i # offset_cnt % SetNum => Since(i)' = Since(i) + 1
<1> DEFINE c == offset_cnt % SetNum
           d == cnt_nxt % SetNum
<1>1. c \in 0 .. SetNum - 1
  BY Sizes, ModRange DEF Offset
<1>2. d = IF c = SetNum - 1 THEN 0 ELSE c + 1
  BY CounterWalk DEF cnt_nxt
<1>3. /\ Since(i)  = IF i < c THEN c - i ELSE c - i + SetNum
      /\ Since(i)' = IF i < d THEN d - i ELSE d - i + SetNum
  BY DEF Since
<1> HIDE DEF c, d
<1>4. i \in 0 .. SetNum - 1 /\ SetNum \in Nat \ {0}
  BY Sizes DEF Index
<1>5. Since(i) \in 1 .. SetNum /\ Since(i)' \in 1 .. SetNum
  BY <1>1, <1>2, <1>3, <1>4
<1>6. i = c => Since(i)' = 1
  BY <1>1, <1>2, <1>3, <1>4
<1>7. i # c => Since(i)' = Since(i) + 1
  BY <1>1, <1>2, <1>3, <1>4
<1> QED BY <1>5, <1>6, <1>7 DEF c

\* A reset cycle in FLUSH empties one set and fills none.
LEMMA FlushEmpties ==
  ASSUME CacheTypeOK, NEW r, Rams(r), state = "FLUSH", NEW i \in Index
  PROVE  /\ i = offset_cnt % SetNum => Empty(i)'
         /\ Empty(i) => Empty(i)'
<1>1. ClearSet
  BY DEF Rams, ClearSet, WriteWord, StoreHit, FillWord, KeepRams
<1>2. meta_addr = offset_cnt % SetNum
  BY DEF meta_addr
<1>3. meta_ram' = [meta_ram EXCEPT ![meta_addr] = [w \in Way |-> Meta0]]
  BY <1>1 DEF ClearSet
<1>4. CASE i = meta_addr
  <2>1. \A w \in Way : meta_ram'[i][w] = Meta0
    BY <1>3, <1>4 DEF CacheTypeOK
  <2>2. Empty(i)'
    BY <2>1 DEF Empty, Meta0
  <2> QED BY <2>2
<1>5. CASE i # meta_addr
  <2>1. meta_ram'[i] = meta_ram[i]
    BY <1>3, <1>5 DEF CacheTypeOK
  <2> QED BY <2>1, <1>2, <1>5 DEF Empty
<1> QED BY <1>4, <1>5, <1>2

\* The reset keeps emptying sets, and has emptied all of them when it ends.
LEMMA ResetStep ==
  ASSUME Types, ResetInv, NEW r, ResetCycle(r), left' = left - 1,
         reset' \in BOOLEAN, (reset' <=> left' > 0)
  PROVE  ResetInv' /\ (~reset' => state' = "FLUSH" /\ \A i \in Index : Empty(i)')
<1>1. /\ reset /\ state' = "FLUSH" /\ offset_cnt' = cnt_nxt /\ Rams(r)
      /\ left' = left - 1 /\ reset' \in BOOLEAN /\ (reset' <=> left' > 0)
  BY DEF ResetCycle
<1>2. /\ CacheTypeOK /\ offset_cnt \in Offset /\ left \in 1 .. ResetTicks
      /\ ResetTicks \in Nat /\ ResetTicks > SetNum /\ SetNum \in Nat
  BY <1>1, ResetAssumption, Sizes DEF Types, CacheTypeOK
<1>3. ASSUME NEW i \in Index, Since(i)' < ResetTicks - left'
      PROVE  Empty(i)'
  <2>1. left # ResetTicks
    <3>1. Since(i)' \in Nat /\ Since(i)' >= 1
      BY <1>1, <1>2, SinceStep
    <3> QED BY <3>1, <1>1, <1>2, <1>3
  <2>2. state = "FLUSH" /\ \A j \in Index : Since(j) < ResetTicks - left => Empty(j)
    BY <1>1, <2>1 DEF ResetInv
  <2>3. CASE i = offset_cnt % SetNum
    BY <1>1, <1>2, <2>2, <2>3, FlushEmpties
  <2>4. CASE i # offset_cnt % SetNum
    <3>1. Since(i)' = Since(i) + 1 /\ Since(i) \in Nat
      BY <1>1, <1>2, <2>4, SinceStep
    <3>2. Since(i) < ResetTicks - left
      BY <3>1, <1>1, <1>2, <1>3
    <3> QED BY <1>1, <1>2, <2>2, <3>2, FlushEmpties
  <2> QED BY <2>3, <2>4
<1>4. ResetInv'
  BY <1>1, <1>3 DEF ResetInv
<1>5. ASSUME ~reset' PROVE \A i \in Index : Empty(i)'
  <2>1. left' = 0
    BY <1>1, <1>2, <1>5
  <2> TAKE i \in Index
  <2>2. Since(i)' \in Nat /\ Since(i)' <= SetNum
    BY <1>1, <1>2, SinceStep
  <2>3. Since(i)' < ResetTicks - left'
    BY <2>1, <2>2, <1>2
  <2> QED BY <1>3, <2>3
<1> QED BY <1>1, <1>4, <1>5

-----------------------------------------------------------------------------
(* The control of a running cache                                          *)

\* What the device answers in the three kinds of cycle.
LEMMA DeviceAnswers ==
  /\ DeviceIdle(creq) => cresp = CResp0
  /\ DeviceStart(creq) => cresp = CResp0
  /\ DeviceBeat(creq) => cresp.ready /\ (cresp.last <=> tx.n = tx.len)
<1>1. DeviceIdle(creq) => cresp = CResp0
  BY DEF DeviceIdle, cresp
<1>2. DeviceStart(creq) => cresp = CResp0
  BY DEF DeviceStart, cresp
<1>3. DeviceBeat(creq) => cresp.ready /\ (cresp.last <=> tx.n = tx.len)
  BY DEF DeviceBeat, cresp, txLast
<1> QED BY <1>1, <1>2, <1>3

\* A lookup of the same request in the same RAMs finds the same.
LEMMA SameLookup ==
  ASSUME dreq' = dreq, meta_ram' = meta_ram, age_ram' = age_ram,
         state # "FLUSH", state' # "FLUSH"
  PROVE  /\ tag' = tag /\ index' = index /\ offset' = offset
         /\ ram_rmeta' = ram_rmeta
         /\ hit' <=> hit
         /\ position' = position
<1>1. tag' = tag /\ index' = index /\ offset' = offset
  BY DEF tag, index, offset
<1>2. ram_rmeta' = ram_rmeta /\ ram_rage' = ram_rage
  BY <1>1 DEF ram_rmeta, ram_rage, meta_addr
<1>3. hitWays' = hitWays /\ victims' = victims
  BY <1>1, <1>2 DEF hitWays, victims
<1> QED BY <1>1, <1>2, <1>3 DEF hit, position

\* The way a fill writes is a hit in the next cycle, and the only one.
LEMMA FillLookup ==
  ASSUME CacheTypeOK, CacheTypeOK', UniqueTags, ~reset, NEW r, FillWord(r),
         dreq' = dreq, state' # "FLUSH"
  PROVE  /\ tag' = tag /\ index' = index
         /\ hit' /\ position' = position
         /\ ram_rmeta'[position] = [valid |-> TRUE, dirty |-> FALSE, tag |-> tag]
<1>1. tag' = tag /\ index' = index /\ state # "FLUSH"
  BY DEF tag, index, FillWord
<1>2. /\ ram_rmeta = meta_ram[index] /\ ram_rmeta' = meta_ram'[index]
      /\ index \in Index /\ position \in Way
  BY <1>1, LookupTypes DEF ram_rmeta, meta_addr
<1>3. ram_rmeta'[position] = [valid |-> TRUE, dirty |-> FALSE, tag |-> tag]
  BY <1>2, TagsFilled
<1>4. ASSUME NEW w \in Way, w # position
      PROVE  ~(ram_rmeta'[w].valid /\ ram_rmeta'[w].tag = tag)
  <2>1. ram_rmeta'[w] = ram_rmeta[w]
    BY <1>2, <1>4, TagsFilled
  <2> QED BY <1>2, <1>4, <2>1, HitFacts DEF UniqueTags
<1>5. hitWays' = {position}
  BY <1>1, <1>2, <1>3, <1>4 DEF hitWays
<1>6. hit' /\ position' = position
  BY <1>2, <1>5 DEF hit, position, LastOf, Way
<1> QED BY <1>1, <1>3, <1>6

\* Out of IDLE and SKIP, and on a miss, the master waits.
LEMMA MasterWaits ==
  ASSUME Cycle, dreq.valid, ~hit \/ state \in {"ALLOCATE", "WRITE_BACK"},
         state # "SKIP"
  PROVE  dreq' = dreq
  BY DEF Cycle, Master, answer, dresp

\* A cycle without a request on the bus and without a transaction leaves the
\* device alone.
LEMMA BusQuiet ==
  ASSUME Cycle, Bus, ~creq.valid
  PROVE  ~tx.busy /\ tx' = tx /\ mem' = mem
  BY DEF Cycle, Bus, DeviceCycle, DeviceIdle, DeviceStart, DeviceBeat

LEMMA FlushControl ==
  ASSUME Types, Types', AgesOld, ControlInv, ~reset, Cycle,
         NEW r \in CResp, Sees(r), Flush(r)
  PROVE  ControlInv'
<1>1. state = "FLUSH" /\ state' = "IDLE" /\ CacheTypeOK /\ Rams(r)
  BY DEF Flush, Types
<1>2. ~tx'.busy
  BY <1>1, BusQuiet DEF creq, ControlInv
<1>3. \A i \in Index : Empty(i)'
  BY <1>1, FlushEmpties DEF ControlInv, EmptyAfterReset, Empty
<1> QED
  BY <1>1, <1>2, <1>3, 0 \in Way, 1 \in Way
     DEF ControlInv, Waiting, EmptyAfterReset, UniqueTags, DevicesNotCached,
         Victim, Bus, BeatsAgree, AgesRun, Empty, Way

LEMMA IdleControl ==
  ASSUME Types, Types', AgesOld, ControlInv, ~reset, Cycle,
         NEW r \in CResp, Sees(r), Idle(r)
  PROVE  ControlInv'
<1>1. /\ state = "IDLE" /\ state' = "IDLE" /\ CacheTypeOK /\ TouchAges
      /\ WriteWord \/ KeepRams
  BY DEF Idle, Types, Rams, ClearSet, FillWord
<1>2. ~tx'.busy
  BY <1>1, BusQuiet DEF creq, ControlInv
<1>3. \A i \in Index : \A w \in Way :
        /\ meta_ram'[i][w].valid = meta_ram[i][w].valid
        /\ meta_ram'[i][w].tag = meta_ram[i][w].tag
  BY <1>1, TagsKept
<1>4. AgesRun'
  <2> SUFFICES ASSUME NEW i \in Index, age_ram'[i][0] = age_ram'[i][1]
               PROVE  ~meta_ram'[i][0].valid /\ ~meta_ram'[i][1].valid
    BY DEF AgesRun
  <2>1. i # meta_addr \/ ~hit
    BY <1>1, AgesTouched, LookupTypes DEF Way
  <2>2. age_ram[i][0] = age_ram[i][1]
    BY <1>1, <2>1, AgesTouched
  <2> QED BY <1>1, <1>3, <2>2 DEF ControlInv, AgesRun, Way
<1>5. UniqueTags' /\ DevicesNotCached'
  BY <1>3 DEF ControlInv, UniqueTags, DevicesNotCached
<1> QED
  BY <1>1, <1>2, <1>4, <1>5
     DEF ControlInv, Waiting, EmptyAfterReset, Victim, Bus, BeatsAgree

\* A miss that fills nothing leaves the RAMs alone.
LEMMA MissKeepsRams ==
  ASSUME ~reset, ~hit, NEW r, Rams(r), state \notin {"FLUSH", "ALLOCATE"}
  PROVE  data_ram' = data_ram /\ meta_ram' = meta_ram /\ age_ram' = age_ram
  BY DEF Rams, TouchAges, ClearSet, WriteWord, StoreHit, FillWord, KeepRams

\* A device address misses.
LEMMA DeviceMisses ==
  ASSUME CacheTypeOK, ~reset, DevicesNotCached, Uncached(dreq.addr),
         state # "FLUSH"
  PROVE  ~hit
  BY HitFacts, LookupTypes, ReadSet DEF DevicesNotCached, Uncached, tag

\* With the RAMs as they were, what was said of them still holds.
LEMMA SameRamsControl ==
  ASSUME ~reset, ~reset', ControlInv, meta_ram' = meta_ram, age_ram' = age_ram,
         state # "ALLOCATE"
  PROVE  UniqueTags' /\ DevicesNotCached' /\ AgesRun'
<1>1. UniqueTags' /\ DevicesNotCached'
  BY DEF ControlInv, UniqueTags, DevicesNotCached
<1>2. AgesRun'
  BY DEF ControlInv, AgesRun
<1> QED BY <1>1, <1>2

LEMMA StartSkipControl ==
  ASSUME Types, Types', AgesOld, ControlInv, ~reset, ~reset', Cycle,
         NEW r \in CResp, Sees(r), StartSkip(r)
  PROVE  ControlInv'
<1>1. /\ state = "IDLE" /\ state' = "SKIP" /\ CacheTypeOK /\ Rams(r)
      /\ dreq.valid /\ Uncached(dreq.addr)
  BY DEF StartSkip, Types
<1>2. ~hit
  BY <1>1, DeviceMisses DEF ControlInv
<1>3. dreq' = dreq /\ meta_ram' = meta_ram /\ age_ram' = age_ram
  BY <1>1, <1>2, MasterWaits, MissKeepsRams
<1>4. ~tx'.busy
  BY <1>1, BusQuiet DEF creq, ControlInv
<1>5. UniqueTags' /\ DevicesNotCached' /\ AgesRun'
  BY <1>1, <1>3, SameRamsControl
<1> QED
  BY <1>1, <1>3, <1>4, <1>5
     DEF ControlInv, Waiting, EmptyAfterReset, Victim, Bus, BeatsAgree, Uncached

LEMMA StartMissControl ==
  ASSUME Types, Types', AgesOld, ControlInv, ~reset, ~reset', Cycle,
         NEW r \in CResp, Sees(r), StartMiss(r)
  PROVE  ControlInv'
<1>1. /\ state = "IDLE" /\ CacheTypeOK /\ Rams(r)
      /\ state' = IF ram_rmeta[position].valid /\ ram_rmeta[position].dirty
                  THEN "WRITE_BACK" ELSE "ALLOCATE"
      /\ dreq.valid /\ ~Uncached(dreq.addr) /\ ~hit /\ offset_cnt' = 0
  BY DEF StartMiss, Types
<1>2. dreq' = dreq /\ meta_ram' = meta_ram /\ age_ram' = age_ram
  BY <1>1, MasterWaits, MissKeepsRams
<1>3. ~tx'.busy
  BY <1>1, BusQuiet DEF creq, ControlInv
<1>4. UniqueTags' /\ DevicesNotCached' /\ AgesRun'
  BY <1>1, <1>2, SameRamsControl
<1>5. Victim'
  <2>1. ram_rmeta' = ram_rmeta /\ (hit' <=> hit) /\ position' = position
    BY <1>1, <1>2, SameLookup
  <2> QED BY <1>1, <1>3, <2>1 DEF Victim
<1> QED
  BY <1>1, <1>2, <1>3, <1>4, <1>5
     DEF ControlInv, Waiting, EmptyAfterReset, Bus, BeatsAgree, Uncached

\* How a burst and its counter move: the device waits, starts or ends a beat.
LEMMA BurstStep ==
  ASSUME Types, Bus, BeatsAgree, ~reset, state \in {"ALLOCATE", "WRITE_BACK"},
         DeviceCycle(creq),
         offset_cnt' = IF cresp.ready THEN cnt_nxt ELSE offset_cnt
  PROVE  \/ /\ ~cresp.ready /\ offset_cnt' = offset_cnt
            /\ tx' = tx /\ mem' = mem
         \/ /\ ~cresp.ready /\ offset_cnt' = 0 /\ offset_cnt = 0
            /\ ~tx.busy /\ tx' = TxOf(creq) /\ mem' = mem
         \/ /\ cresp.ready /\ ~cresp.last /\ offset_cnt' = offset_cnt + 1
            /\ tx.busy /\ tx' = [tx EXCEPT !.n = tx.n + 1]
            /\ tx.n = offset_cnt + 1 /\ tx.n + 1 <= tx.len
         \/ /\ cresp.ready /\ cresp.last /\ offset_cnt' = 0 /\ tx' = Tx0
            /\ tx.busy /\ offset_cnt = WordsPerLine - 1 /\ tx.n = WordsPerLine
<1>1. CASE DeviceIdle(creq)
  BY <1>1, DeviceAnswers DEF DeviceIdle, CResp0
<1>2. CASE DeviceStart(creq)
  BY <1>2, DeviceAnswers DEF DeviceStart, CResp0, BeatsAgree
<1>3. CASE DeviceBeat(creq)
  <2>1. /\ tx.busy /\ tx.n \in 1 .. tx.len /\ tx.len = WordsPerLine
        /\ offset_cnt = tx.n - 1
    BY <1>3 DEF DeviceBeat, Bus, BeatsAgree, creq
  <2>2. cresp.ready /\ (cresp.last <=> tx.n = tx.len)
    BY <1>3, DeviceAnswers
  <2>3. CASE tx.n = tx.len
    <3>1. (offset_cnt + 1) % WordsPerLine = 0
      BY <2>1, <2>3, Sizes
    <3> QED BY <1>3, <2>1, <2>2, <2>3, <3>1 DEF DeviceBeat, txLast, cnt_nxt
  <2>4. CASE tx.n # tx.len
    <3>1. (offset_cnt + 1) % WordsPerLine = offset_cnt + 1
      <4>1. offset_cnt \in Nat /\ offset_cnt + 1 < WordsPerLine
        BY <2>1, <2>4, Sizes
      <4> QED BY <4>1, Sizes
    <3>2. tx.n + 1 <= tx.len /\ tx.n = offset_cnt + 1
      BY <2>1, <2>4, Sizes
    <3> QED BY <1>3, <2>1, <2>2, <2>4, <3>1, <3>2 DEF DeviceBeat, txLast, cnt_nxt
  <2> QED BY <2>3, <2>4
<1> QED BY <1>1, <1>2, <1>3 DEF DeviceCycle

\* While the cache's request and its lookup stay, so do the bus and the beats.
LEMMA BusStep ==
  ASSUME Types, Types', Bus, BeatsAgree, ~reset, ~reset',
         state \in {"ALLOCATE", "WRITE_BACK"}, Cycle,
         offset_cnt' = IF cresp.ready THEN cnt_nxt ELSE offset_cnt,
         (cresp.ready /\ cresp.last) \/ (state' = state /\ creq_addr' = creq_addr)
  PROVE  Bus' /\ BeatsAgree'
<1>1. DeviceCycle(creq)
  BY DEF Cycle
<1>2. CASE cresp.ready /\ cresp.last
  BY <1>1, <1>2, BurstStep DEF Bus, BeatsAgree, Tx0
<1>3. CASE ~(cresp.ready /\ cresp.last)
  <2>1. /\ creq.valid /\ creq'.valid /\ creq'.is_write = creq.is_write
        /\ creq'.addr = creq.addr /\ creq'.len = creq.len
        /\ creq.len = WordsPerLine /\ state' = state
    BY <1>3 DEF creq
  <2>2. CASE tx' = tx /\ offset_cnt' = offset_cnt
    BY <2>1, <2>2 DEF Bus, BeatsAgree
  <2>3. CASE tx' = TxOf(creq) /\ offset_cnt' = 0
    BY <2>1, <2>3, Sizes DEF Bus, BeatsAgree, TxOf
  <2>4. CASE /\ tx.busy /\ tx' = [tx EXCEPT !.n = tx.n + 1]
             /\ offset_cnt' = offset_cnt + 1
             /\ tx.n = offset_cnt + 1 /\ tx.n + 1 <= tx.len
    <3>1. /\ tx'.busy /\ tx'.is_write = tx.is_write /\ tx'.start = tx.start
          /\ tx'.len = tx.len /\ tx'.n = tx.n + 1
      BY <2>4 DEF Types, DeviceTypeOK, Tx
    <3>2. tx.n + 1 \in 1 .. tx.len /\ offset_cnt' = (tx.n + 1) - 1
      BY <2>4 DEF Types, DeviceTypeOK, Tx
    <3> QED BY <2>1, <2>4, <3>1, <3>2 DEF Bus, BeatsAgree
  <2> QED BY <1>1, <1>3, <2>2, <2>3, <2>4, BurstStep
<1> QED BY <1>2, <1>3

LEMMA WriteBackControl ==
  ASSUME Types, Types', AgesOld, ControlInv, ~reset, ~reset', Cycle,
         NEW r \in CResp, Sees(r), WriteBack(r)
  PROVE  ControlInv'
<1>1. /\ state = "WRITE_BACK" /\ CacheTypeOK /\ Rams(r)
      /\ state' = IF cresp.ready /\ cresp.last THEN "ALLOCATE" ELSE "WRITE_BACK"
      /\ offset_cnt' = IF cresp.ready THEN cnt_nxt ELSE offset_cnt
      /\ dreq.valid /\ ~Uncached(dreq.addr)
      /\ ~hit /\ ram_rmeta[position].valid /\ ram_rmeta[position].dirty
  BY DEF WriteBack, Sees, Types, ControlInv, Waiting, Victim
<1>2. dreq' = dreq /\ meta_ram' = meta_ram /\ age_ram' = age_ram
  BY <1>1, MasterWaits, MissKeepsRams
<1>3. ram_rmeta' = ram_rmeta /\ (hit' <=> hit) /\ position' = position
      /\ index' = index
  BY <1>1, <1>2, SameLookup
<1>4. UniqueTags' /\ DevicesNotCached' /\ AgesRun'
  BY <1>1, <1>2, SameRamsControl
<1>5. Bus' /\ BeatsAgree'
  <2>1. state' = state => creq_addr' = creq_addr
    BY <1>1, <1>3 DEF creq_addr
  <2> QED BY <1>1, <2>1, BusStep DEF ControlInv
<1>6. Victim'
  <2>1. cresp.ready /\ cresp.last => ~tx'.busy
    BY <1>1, BurstStep DEF Tx0, Cycle, ControlInv
  <2> QED BY <1>1, <1>3, <2>1 DEF Victim
<1> QED
  BY <1>1, <1>2, <1>4, <1>5, <1>6
     DEF ControlInv, Waiting, EmptyAfterReset, Uncached

LEMMA SkipControl ==
  ASSUME Types, Types', AgesOld, ControlInv, ~reset, ~reset', Cycle,
         NEW r \in CResp, Sees(r), Skip(r)
  PROVE  ControlInv'
<1>1. /\ state = "SKIP" /\ CacheTypeOK /\ Rams(r)
      /\ state' = IF cresp.last THEN "IDLE" ELSE "SKIP"
      /\ dreq.valid /\ Uncached(dreq.addr)
  BY DEF Skip, Sees, Types, ControlInv, Waiting
<1>2. ~hit
  BY <1>1, DeviceMisses DEF ControlInv
<1>3. meta_ram' = meta_ram /\ age_ram' = age_ram
  BY <1>1, <1>2, MissKeepsRams
<1>4. UniqueTags' /\ DevicesNotCached' /\ AgesRun'
  BY <1>1, <1>3, SameRamsControl
<1>5. /\ creq.valid /\ creq.addr = dreq.addr /\ creq.len = 1
      /\ creq.is_write = (dreq.strobe # {})
  BY <1>1 DEF creq, creq_addr
<1>6. CASE cresp.last
  <2>1. DeviceBeat(creq) /\ txLast
    <3>1. DeviceBeat(creq)
      BY <1>6, DeviceAnswers DEF Cycle, DeviceCycle, CResp0
    <3>2. tx.n = tx.len
      BY <1>6, <3>1, DeviceAnswers
    <3> QED BY <3>1, <3>2 DEF txLast
  <2>2. ~tx'.busy
    BY <2>1 DEF DeviceBeat, Tx0
  <2> QED
    BY <1>1, <1>4, <1>6, <2>2
       DEF ControlInv, Waiting, EmptyAfterReset, Victim, Bus, BeatsAgree
<1>7. CASE ~cresp.last
  <2>1. state' = "SKIP" /\ dreq' = dreq
    BY <1>1, <1>7 DEF Cycle, Master, answer, dresp
  <2>2. creq'.valid /\ creq'.addr = creq.addr /\ creq'.len = creq.len
        /\ creq'.is_write = creq.is_write
    BY <1>1, <1>5, <2>1 DEF creq, creq_addr
  <2>3. Bus'
    <3>1. CASE DeviceIdle(creq)
      BY <2>2, <3>1 DEF DeviceIdle, ControlInv, Bus
    <3>2. CASE DeviceStart(creq)
      BY <1>5, <2>2, <3>2 DEF DeviceStart, TxOf, Bus
    <3>3. CASE DeviceBeat(creq)
      <4>1. tx.n \in 1 .. tx.len /\ tx.len = 1
        BY <1>5, <3>3 DEF DeviceBeat, ControlInv, Bus
      <4> QED BY <1>7, <3>3, <4>1, DeviceAnswers
    <3> QED BY <3>1, <3>2, <3>3 DEF Cycle, DeviceCycle
  <2> QED
    BY <1>1, <1>4, <2>1, <2>3
       DEF ControlInv, Waiting, EmptyAfterReset, Victim, BeatsAgree, Uncached
<1> QED BY <1>6, <1>7

LEMMA AllocateControl ==
  ASSUME Types, Types', AgesOld, ControlInv, ~reset, ~reset', Cycle,
         NEW r \in CResp, Sees(r), Allocate(r)
  PROVE  ControlInv'
<1>1. /\ state = "ALLOCATE" /\ CacheTypeOK /\ CacheTypeOK'
      /\ TouchAges /\ FillWord(r)
      /\ state' = IF cresp.ready /\ cresp.last THEN "IDLE" ELSE "ALLOCATE"
      /\ offset_cnt' = IF cresp.ready THEN cnt_nxt ELSE offset_cnt
      /\ dreq.valid /\ ~Uncached(dreq.addr)
      /\ meta_addr = index /\ ram_rmeta = meta_ram[index]
      /\ index \in Index /\ position \in Way /\ UniqueTags
  BY LookupTypes, ReadSet
     DEF Allocate, Sees, Types, ControlInv, Waiting, Rams, ClearSet, WriteWord,
         StoreHit, KeepRams
<1>2. dreq' = dreq
  BY <1>1, MasterWaits
<1>3. /\ tag' = tag /\ index' = index /\ hit' /\ position' = position
      /\ ram_rmeta'[position] = [valid |-> TRUE, dirty |-> FALSE, tag |-> tag]
  BY <1>1, <1>2, FillLookup
<1>4. \A i \in Index : \A w \in Way :
        meta_ram'[i][w] = IF i = index /\ w = position
                          THEN [valid |-> TRUE, dirty |-> FALSE, tag |-> tag]
                          ELSE meta_ram[i][w]
  BY <1>1, TagsFilled
<1>5. ~hit => ~(cresp.ready)
  <2>1. ~hit => ~tx.busy
    BY <1>1 DEF ControlInv, Victim
  <2> QED BY <2>1 DEF cresp, CResp0
<1>6. UniqueTags'
  <2>1. \A w \in Way : w # position =>
          ~(meta_ram[index][w].valid /\ meta_ram[index][w].tag = tag)
    BY <1>1, HitFacts DEF UniqueTags
  <2> SUFFICES ASSUME NEW i \in Index, NEW v \in Way, NEW w \in Way, v # w,
                      meta_ram'[i][v].valid, meta_ram'[i][w].valid,
                      meta_ram'[i][v].tag = meta_ram'[i][w].tag
               PROVE  FALSE
    BY DEF UniqueTags
  <2>2. CASE i # index
    BY <1>1, <1>4, <2>2 DEF UniqueTags
  <2>3. CASE i = index /\ v = position
    BY <1>4, <2>1, <2>3
  <2>4. CASE i = index /\ w = position
    BY <1>4, <2>1, <2>4
  <2>5. CASE i = index /\ v # position /\ w # position
    BY <1>1, <1>4, <2>5 DEF UniqueTags
  <2> QED BY <2>2, <2>3, <2>4, <2>5
<1>7. DevicesNotCached'
  BY <1>1, <1>4 DEF ControlInv, DevicesNotCached, Uncached, tag
<1>8. AgesRun'
  <2> SUFFICES ASSUME NEW i \in Index, age_ram'[i][0] = age_ram'[i][1]
               PROVE  /\ ~meta_ram'[i][0].valid
                      /\ meta_ram'[i][1].valid =>
                           state' = "ALLOCATE" /\ i = index' /\ hit'
    BY DEF AgesRun
  <2>1. i # index \/ ~hit
    BY <1>1, AgesTouched, LookupTypes DEF Way
  <2>2. age_ram'[i] = age_ram[i]
    BY <1>1, <2>1, AgesTouched
  <2>3. /\ ~meta_ram[i][0].valid
        /\ meta_ram[i][1].valid => i = index /\ hit
    BY <2>2 DEF ControlInv, AgesRun
  <2>4. CASE i # index
    BY <1>4, <2>3, <2>4 DEF Way
  <2>5. CASE i = index
    <3>1. ~hit /\ ~meta_ram[i][1].valid /\ state' = "ALLOCATE"
      BY <1>1, <1>5, <2>1, <2>3, <2>5
    <3>2. position = 1
      BY <1>1, <2>5, <3>1 DEF position, victims, LastOf, Way
    <3> QED BY <1>3, <1>4, <2>3, <2>5, <3>1, <3>2 DEF Way
  <2> QED BY <2>4, <2>5
<1>9. Bus' /\ BeatsAgree'
  <2>1. state' = state => creq_addr' = creq_addr
    BY <1>1, <1>3 DEF creq_addr
  <2> QED BY <1>1, <2>1, BusStep DEF ControlInv
<1> QED
  BY <1>1, <1>2, <1>3, <1>6, <1>7, <1>8, <1>9
     DEF ControlInv, Waiting, EmptyAfterReset, Victim, Uncached

LEMMA InitControl == Init => ControlCore
<1> SUFFICES ASSUME Init PROVE ControlCore
  OBVIOUS
<1>1. Types
  BY InitTypes
<1>2. reset /\ left = ResetTicks
  BY DEF Init
<1>3. AgesOld
  BY DEF Init, CacheInit, AgesOld, Way
<1> QED BY <1>1, <1>2, <1>3 DEF ControlCore, ResetInv

\* A cycle of reset, whatever is on the bus, keeps the control part, if it
\* leaves the bus without a transaction.
LEMMA ResetControl ==
  ASSUME ControlCore, NEW r \in CResp, ResetCycle(r), left' = left - 1,
         reset' \in BOOLEAN, (reset' <=> left' > 0), dreq' \in DReq,
         DeviceTypeOK', ~reset' => tx' = Tx0
  PROVE  ControlCore'
<1>1. Types /\ Types' /\ ResetInv /\ AgesOld
  BY ResetTypes DEF ControlCore
<1>2. AgesOld'
  <2>1. /\ age_ram' = [age_ram EXCEPT ![meta_addr] = [w \in Way |-> 0]]
        /\ CacheTypeOK
    BY <1>1 DEF ResetCycle, Rams, TouchAges, Types
  <2> QED BY <1>1, <2>1 DEF AgesOld, CacheTypeOK, Way
<1>3. ResetInv' /\ (~reset' => state' = "FLUSH" /\ \A i \in Index : Empty(i)')
  BY <1>1, ResetStep
<1>4. ~reset' => ControlInv'
  BY <1>3
     DEF ControlInv, Waiting, EmptyAfterReset, UniqueTags, DevicesNotCached,
         Victim, Bus, BeatsAgree, AgesRun, Empty, Way, Tx0
<1> QED BY <1>1, <1>2, <1>3, <1>4 DEF ControlCore

\* A running cycle keeps it.
LEMMA CycleControl ==
  ASSUME ControlCore, Cycle, UNCHANGED <<reset, left>>
  PROVE  ~reset /\ ControlCore'
<1> PICK r \in CResp : Sees(r) /\ CacheCycle(r)
  BY DEF Cycle
<1>1. ~reset /\ ~reset' /\ TouchAges
  BY DEF CacheCycle, Flush, Idle, StartSkip, StartMiss, Allocate,
         WriteBack, Skip, Rams
<1>2. Types /\ Types' /\ AgesOld /\ ControlInv
  BY <1>1, CycleKeepsTypes DEF ControlCore
<1>3. AgesOld'
  BY <1>1, <1>2, AgesTouched DEF AgesOld, Types
<1>4. ControlInv'
  BY <1>1, <1>2, FlushControl, IdleControl, StartSkipControl,
     StartMissControl, AllocateControl, WriteBackControl, SkipControl
     DEF CacheCycle
<1> QED BY <1>1, <1>2, <1>3, <1>4 DEF ControlCore, ResetInv

\* With the registers of cache and bus as they were, it still holds.
LEMMA SameControl ==
  ASSUME ControlCore, UNCHANGED <<dreq, reset, cacheVars, deviceVars, left>>
  PROVE  ControlCore'
<1>1. /\ UNCHANGED <<dreq, reset, state, offset_cnt, meta_ram, age_ram, data_ram>>
      /\ UNCHANGED <<tx, mem, enable, left>>
  BY DEF cacheVars, cacheRams, deviceVars
<1>2. Types' /\ AgesOld' /\ ResetInv'
  BY <1>1
     DEF ControlCore, Types, CacheTypeOK, DeviceTypeOK, AgesOld, ResetInv, Since, Empty
<1>3. ~reset => ControlInv'
  <2>1. tag' = tag /\ index' = index /\ ram_rmeta' = ram_rmeta
        /\ (hit' <=> hit) /\ position' = position
    BY <1>1
       DEF tag, index, ram_rmeta, meta_addr, hit, hitWays, position, victims,
           ram_rage
  <2>2. creq'.valid = creq.valid /\ creq'.is_write = creq.is_write
        /\ creq'.addr = creq.addr /\ creq'.len = creq.len
    BY <1>1, <2>1 DEF creq, creq_addr
  <2> QED
    BY <1>1, <2>1, <2>2
       DEF ControlCore, ControlInv, Waiting, EmptyAfterReset, UniqueTags,
           DevicesNotCached, Victim, Bus, BeatsAgree, AgesRun
<1> QED BY <1>1, <1>2, <1>3 DEF ControlCore

\* The control part is inductive by itself.
LEMMA ControlStep == ControlCore /\ [Next]_vars => ControlCore'
<1> SUFFICES ASSUME ControlCore, [Next]_vars PROVE ControlCore'
  OBVIOUS
<1>1. CASE Restart
  <2>1. reset' /\ left' = ResetTicks /\ age_ram' = age_ram /\ Types'
    BY <1>1, NextTypes DEF Restart, cacheVars, cacheRams, ControlCore, Next
  <2> QED BY <2>1 DEF ControlCore, ResetInv, AgesOld
<1>2. CASE ResetTick
  BY <1>2, ResetTickFacts, ResetControl, Sizes DEF ControlCore
<1>3. CASE Tick
  BY <1>3, TickCycle, CycleControl DEF ControlCore
<1>4. CASE UNCHANGED vars
  BY <1>4, SameControl DEF vars
<1> QED BY <1>1, <1>2, <1>3, <1>4 DEF Next

\* The control part of the invariant holds in every reachable state.
THEOREM ControlCorrect == Spec => []ControlCore
<1>1. QED BY InitControl, ControlStep, PTL DEF Spec

\* No two ways of a set hold the same line.
THEOREM UniqueTagsHolds == Spec => []UniqueTags
<1>1. ControlCore => UniqueTags
  BY DEF ControlCore, ControlInv, UniqueTags
<1> QED BY <1>1, ControlCorrect, PTL

\* A device address never gets into the cache.
THEOREM DevicesNotCachedHolds == Spec => []DevicesNotCached
<1>1. ControlCore => DevicesNotCached
  BY DEF ControlCore, ControlInv, DevicesNotCached
<1> QED BY <1>1, ControlCorrect, PTL

\* A reset of more cycles than there are sets leaves no line in any set.
THEOREM EmptyAfterResetHolds == Spec => []EmptyAfterReset
<1>1. ControlCore => EmptyAfterReset
  BY DEF ControlCore, ControlInv, EmptyAfterReset
<1> QED BY <1>1, ControlCorrect, PTL

\* The request of a burst does not change until the burst ends.
THEOREM RequestStableHolds == Spec => []RequestStable
<1>1. ControlCore => RequestStable
  BY DEF ControlCore, ControlInv, Bus, RequestStable, RequestHeld
<1> QED BY <1>1, ControlCorrect, PTL

\* The cache and the device count the same beats.
THEOREM BeatsAgreeHolds == Spec => []BeatsAgree
<1>1. ControlCore => BeatsAgree
  BY DEF ControlCore, ControlInv, BeatsAgree
<1> QED BY <1>1, ControlCorrect, PTL

\* In a full set exactly one way is old.
THEOREM OneVictimHolds == Spec => []OneVictim
<1>1. ControlCore => OneVictim
  BY DEF ControlCore, ControlInv, AgesRun, OneVictim, Way
<1> QED BY <1>1, ControlCorrect, PTL

-----------------------------------------------------------------------------
(* The data in the cache and in memory: no written word is lost, and the   *)
(* bench implements one memory.                                            *)

\* What may be assumed of a step of the running bench.
RunningStep ==
  /\ ControlCore /\ ControlCore'
  /\ ~reset /\ ~reset'
  /\ Cycle

\* The parts of it that the proofs use.
LEMMA StepFacts ==
  ASSUME RunningStep
  PROVE  /\ Types /\ CacheTypeOK /\ DeviceTypeOK
         /\ CacheTypeOK' /\ DeviceTypeOK'
         /\ ControlInv /\ ControlInv'
         /\ UniqueTags /\ UniqueTags' /\ Bus /\ BeatsAgree /\ Waiting
         /\ DevicesNotCached /\ DevicesNotCached'
         /\ DeviceCycle(creq) /\ (Master)
         /\ index \in Index /\ position \in Way /\ tag \in Tag
  BY LookupTypes
     DEF RunningStep, ControlCore, ControlInv, Types, Cycle

\* In a burst the device serves the word the counter points at.
LEMMA BurstAddr ==
  ASSUME Types, Bus, BeatsAgree, ~reset, tx.busy,
         state \in {"ALLOCATE", "WRITE_BACK"}
  PROVE  txAddr = [tag |-> creq_addr.tag, index |-> index, offset |-> offset_cnt]
<1>1. /\ tx.start = [tag |-> creq_addr.tag, index |-> index, offset |-> 0]
      /\ offset_cnt = tx.n - 1 /\ offset_cnt \in 0 .. WordsPerLine - 1
  BY DEF Bus, BeatsAgree, creq, creq_addr, Types, CacheTypeOK, Offset
<1>2. (tx.start.offset + tx.n - 1) % WordsPerLine = offset_cnt
  <2>1. tx.start.offset + tx.n - 1 = offset_cnt
    BY <1>1 DEF Types, DeviceTypeOK, Tx
  <2> QED BY <2>1, <1>1, Sizes
<1>3. txAddr = [tx.start EXCEPT !.offset = offset_cnt]
  BY <1>2 DEF txAddr
<1> QED BY <1>1, <1>3

\* Memory changes only under a write, at the address of the beat.
LEMMA MemStep ==
  ASSUME RunningStep
  PROVE  \/ mem' = mem
         \/ /\ tx.busy /\ tx.is_write /\ cresp.ready
            /\ mem' = [mem EXCEPT ![txAddr] =
                         Merge(mem[txAddr], creq.strobe, creq.data)]
<1>1. CASE DeviceBeat(creq)
  BY <1>1, DeviceAnswers DEF DeviceBeat
<1>2. CASE ~DeviceBeat(creq)
  BY <1>2, StepFacts DEF DeviceCycle, DeviceIdle, DeviceStart
<1> QED BY <1>1, <1>2

\* A merge of all lanes is the new word.
LEMMA MergeAll ==
  ASSUME NEW old \in Word, NEW d \in Word
  PROVE  Merge(old, Lane, d) = d
  BY DEF Merge, Word

\* A line is as it was while neither its way nor its words of memory change.
LEMMA LineKept ==
  ASSUME NEW i \in Index, NEW w \in Way,
         data_ram'[i][w] = data_ram[i][w],
         meta_ram'[i][w].tag = meta_ram[i][w].tag,
         \A o \in Offset :
           LET a == [tag |-> meta_ram[i][w].tag, index |-> i, offset |-> o]
           IN  mem'[a] = mem[a],
         LineInMemory(i, w)
  PROVE  LineInMemory(i, w)'
  BY DEF LineInMemory

-----------------------------------------------------------------------------
(* The lines                                                               *)

LEMMA FlushLines ==
  ASSUME RunningStep, LinesInv, NEW r \in CResp, Sees(r), Flush(r)
  PROVE  LinesInv'
<1>1. state = "FLUSH" /\ state' = "IDLE" /\ Rams(r) /\ CacheTypeOK
  BY StepFacts DEF Flush
<1>2. \A i \in Index : Empty(i)'
  BY <1>1, FlushEmpties, StepFacts DEF ControlInv, EmptyAfterReset, Empty, RunningStep
<1> QED
  BY <1>1, <1>2
     DEF LinesInv, CleanLineInMemory, WrittenSoFar, VictimSafe, FilledSoFar, Empty

LEMMA IdleLines ==
  ASSUME RunningStep, LinesInv, NEW r \in CResp, Sees(r), Idle(r)
  PROVE  LinesInv'
<1>1. /\ state = "IDLE" /\ state' = "IDLE" /\ CacheTypeOK
      /\ WriteWord \/ KeepRams
  BY StepFacts DEF Idle, Rams, ClearSet, FillWord
<1>2. mem' = mem
  BY <1>1, StepFacts, BusQuiet DEF creq, RunningStep
<1>3. CleanLineInMemory'
  <2> SUFFICES ASSUME NEW i \in Index, NEW w \in Way,
                      meta_ram'[i][w].valid, ~meta_ram'[i][w].dirty
               PROVE  LineInMemory(i, w)'
    BY DEF CleanLineInMemory
  <2>1. data_ram'[i][w] = data_ram[i][w] /\ meta_ram'[i][w] = meta_ram[i][w]
    <3>1. CASE KeepRams
      BY <3>1 DEF KeepRams
    <3>2. CASE WriteWord
      <4>1. ~(i = index /\ w = position)
        <5>1. meta_ram[index][position] \in Meta
          BY StepFacts DEF CacheTypeOK
        <5>2. meta_ram'[index][position].dirty
          BY <3>2, <5>1, StepFacts DEF WriteWord, CacheTypeOK, Meta
        <5> QED BY <5>2
      <4> QED BY <3>2, <4>1, StepFacts DEF WriteWord, CacheTypeOK
    <3> QED BY <1>1, <3>1, <3>2
  <2>2. LineInMemory(i, w)
    BY <1>1, <2>1 DEF LinesInv, CleanLineInMemory, RunningStep
  <2> QED BY <1>2, <2>1, <2>2, LineKept
<1> QED
  BY <1>1, <1>3 DEF LinesInv, WrittenSoFar, VictimSafe, FilledSoFar

LEMMA StartSkipLines ==
  ASSUME RunningStep, LinesInv, NEW r \in CResp, Sees(r), StartSkip(r)
  PROVE  LinesInv'
<1>1. /\ state = "IDLE" /\ state' = "SKIP" /\ Rams(r) /\ Uncached(dreq.addr)
  BY DEF StartSkip
<1>2. /\ data_ram' = data_ram /\ meta_ram' = meta_ram /\ mem' = mem
  <2>1. ~hit /\ ~reset
    BY <1>1, StepFacts, DeviceMisses DEF RunningStep
  <2> QED BY <1>1, <2>1, MissKeepsRams, BusQuiet, StepFacts DEF creq, RunningStep
<1> QED
  BY <1>1, <1>2
     DEF LinesInv, CleanLineInMemory, LineInMemory, WrittenSoFar, VictimSafe,
         FilledSoFar, RunningStep

LEMMA StartMissLines ==
  ASSUME RunningStep, LinesInv, NEW r \in CResp, Sees(r), StartMiss(r)
  PROVE  LinesInv'
<1>1. /\ state = "IDLE" /\ Rams(r) /\ ~hit /\ dreq.valid /\ offset_cnt' = 0
      /\ state' = IF ram_rmeta[position].valid /\ ram_rmeta[position].dirty
                  THEN "WRITE_BACK" ELSE "ALLOCATE"
  BY DEF StartMiss
<1>2. /\ data_ram' = data_ram /\ meta_ram' = meta_ram /\ age_ram' = age_ram
      /\ mem' = mem /\ dreq' = dreq
  BY <1>1, MissKeepsRams, BusQuiet, MasterWaits, StepFacts DEF creq, RunningStep
<1>3. /\ ram_rmeta' = ram_rmeta /\ (hit' <=> hit) /\ position' = position
      /\ index' = index /\ ram_rmeta = meta_ram[index]
  BY <1>1, <1>2, SameLookup, ReadSet
<1>4. CleanLineInMemory'
  BY <1>1, <1>2 DEF LinesInv, CleanLineInMemory, LineInMemory, RunningStep
<1>5. WrittenSoFar'
  BY <1>1 DEF WrittenSoFar, Offset
<1>6. VictimSafe'
  <2>1. ram_rmeta[position].valid /\ ~ram_rmeta[position].dirty
          => LineInMemory(index, position)
    BY <1>1, <1>3, StepFacts DEF LinesInv, CleanLineInMemory, RunningStep
  <2> QED BY <1>1, <1>2, <1>3, <2>1 DEF VictimSafe, LineInMemory
<1>7. FilledSoFar'
  BY <1>1, <1>3 DEF FilledSoFar
<1> QED BY <1>4, <1>5, <1>6, <1>7 DEF LinesInv

LEMMA WriteBackLines ==
  ASSUME RunningStep, LinesInv, NEW r \in CResp, Sees(r), WriteBack(r)
  PROVE  LinesInv'
<1>1. /\ state = "WRITE_BACK" /\ Rams(r) /\ dreq.valid
      /\ state' = IF cresp.ready /\ cresp.last THEN "ALLOCATE" ELSE "WRITE_BACK"
      /\ offset_cnt' = IF cresp.ready THEN cnt_nxt ELSE offset_cnt
      /\ ~hit /\ ram_rmeta[position].valid /\ ram_rmeta[position].dirty
  BY StepFacts DEF WriteBack, Sees, ControlInv, Waiting, Victim
<1>2. data_ram' = data_ram /\ meta_ram' = meta_ram /\ age_ram' = age_ram
      /\ dreq' = dreq
  BY <1>1, MissKeepsRams, MasterWaits DEF RunningStep
<1>3. /\ ram_rmeta' = ram_rmeta /\ (hit' <=> hit) /\ position' = position
      /\ index' = index /\ ram_rmeta = meta_ram[index]
  BY <1>1, <1>2, SameLookup, ReadSet
<1> DEFINE VictimWord(o) ==
             [tag |-> ram_rmeta[position].tag, index |-> index, offset |-> o]
           Word_(o) == data_ram[index][position][o]
<1>4. /\ \A o \in Offset : VictimWord(o) \in Addr
      /\ offset_cnt \in Offset
  BY <1>3, StepFacts DEF Addr, Offset, CacheTypeOK, Meta
<1>5. ASSUME tx.busy
      PROVE  /\ txAddr = VictimWord(offset_cnt)
             /\ Merge(mem[txAddr], creq.strobe, creq.data) = Word_(offset_cnt)
  <2>1. creq_addr.tag = ram_rmeta[position].tag
    BY <1>1 DEF creq_addr
  <2>2. txAddr = VictimWord(offset_cnt)
    BY <1>1, <1>5, <2>1, BurstAddr, StepFacts DEF RunningStep
  <2>3. creq.strobe = Lane /\ creq.data = Word_(offset_cnt)
    BY <1>1 DEF creq, ram_rdata
  <2>4. mem[txAddr] \in Word /\ Word_(offset_cnt) \in Word
    BY <1>4, StepFacts, RespType DEF DeviceTypeOK, CacheTypeOK
  <2> QED BY <2>2, <2>3, <2>4, MergeAll
<1>6. /\ cresp.ready => mem'[VictimWord(offset_cnt)] = Word_(offset_cnt)
      /\ \A a \in Addr : a # VictimWord(offset_cnt) => mem'[a] = mem[a]
  <2>1. \A a \in Addr : a # VictimWord(offset_cnt) => mem'[a] = mem[a]
    BY <1>5, MemStep, StepFacts DEF DeviceTypeOK
  <2>2. ASSUME cresp.ready
        PROVE  mem'[VictimWord(offset_cnt)] = Word_(offset_cnt)
    <3>1. DeviceBeat(creq)
      BY <2>2, StepFacts, DeviceAnswers DEF DeviceCycle, CResp0
    <3>2. tx.busy /\ tx.is_write
      BY <1>1, <3>1, StepFacts DEF DeviceBeat, Bus, creq
    <3>3. mem' = [mem EXCEPT ![txAddr] = Merge(mem[txAddr], creq.strobe, creq.data)]
      BY <3>1, <3>2 DEF DeviceBeat
    <3> QED BY <1>4, <1>5, <3>2, <3>3, StepFacts DEF DeviceTypeOK
  <2> QED BY <2>1, <2>2
<1>7. ASSUME NEW o \in Offset, o < offset_cnt \/ (o = offset_cnt /\ cresp.ready)
      PROVE  mem'[VictimWord(o)] = Word_(o)
  <2>1. CASE o = offset_cnt /\ cresp.ready
    BY <1>6, <2>1
  <2>2. CASE o < offset_cnt
    <3>1. VictimWord(o) # VictimWord(offset_cnt)
      <4>1. o # offset_cnt
        BY <1>4, <2>2 DEF Offset
      <4> QED BY <4>1
    <3>2. mem[VictimWord(o)] = Word_(o)
      BY <1>1, <2>2 DEF LinesInv, WrittenSoFar
    <3> QED BY <1>4, <1>6, <3>1, <3>2
  <2> QED BY <1>7, <2>1, <2>2
<1>8. CleanLineInMemory'
  <2> SUFFICES ASSUME NEW i \in Index, NEW w \in Way,
                      meta_ram[i][w].valid, ~meta_ram[i][w].dirty
               PROVE  LineInMemory(i, w)'
    BY <1>2 DEF CleanLineInMemory
  <2>1. LineInMemory(i, w)
    BY <1>1 DEF LinesInv, CleanLineInMemory, RunningStep
  <2>2. ~(i = index /\ meta_ram[i][w].tag = ram_rmeta[position].tag)
    BY <1>1, <1>3, StepFacts DEF UniqueTags, RunningStep
  <2>3. \A o \in Offset :
          LET a == [tag |-> meta_ram[i][w].tag, index |-> i, offset |-> o]
          IN  a \in Addr /\ a # VictimWord(offset_cnt)
    BY <2>2, StepFacts DEF Addr, CacheTypeOK, Meta
  <2> QED BY <1>2, <1>6, <2>1, <2>3, LineKept
<1>9. ~cresp.ready \/ ~cresp.last => WrittenSoFar'
  <2> SUFFICES ASSUME ~cresp.ready \/ ~cresp.last,
                      NEW o \in Offset, o < offset_cnt'
               PROVE  Word_(o) = mem'[VictimWord(o)]
    BY <1>2, <1>3 DEF WrittenSoFar
  <2>1. offset_cnt' = IF cresp.ready THEN offset_cnt + 1 ELSE offset_cnt
    <3>1. CASE cresp.ready
      BY <1>1, <3>1, BurstStep, StepFacts DEF RunningStep
    <3> QED BY <1>1, <3>1
  <2> QED BY <1>4, <1>7, <2>1 DEF Offset
<1>10. cresp.ready /\ cresp.last => VictimSafe'
  <2> SUFFICES ASSUME cresp.ready, cresp.last, NEW o \in Offset
               PROVE  Word_(o) = mem'[VictimWord(o)]
    BY <1>2, <1>3 DEF VictimSafe, LineInMemory
  <2>1. offset_cnt = WordsPerLine - 1
    BY <1>1, BurstStep, StepFacts DEF RunningStep
  <2> QED BY <1>7, <2>1, Sizes DEF Offset
<1> QED
  BY <1>1, <1>3, <1>8, <1>9, <1>10
     DEF LinesInv, WrittenSoFar, VictimSafe, FilledSoFar

LEMMA SkipLines ==
  ASSUME RunningStep, LinesInv, NEW r \in CResp, Sees(r), Skip(r)
  PROVE  LinesInv'
<1>1. /\ state = "SKIP" /\ state' \in {"IDLE", "SKIP"} /\ Rams(r)
      /\ Uncached(dreq.addr)
  BY StepFacts DEF Skip, Waiting
<1>2. data_ram' = data_ram /\ meta_ram' = meta_ram
  <2>1. ~hit /\ ~reset
    BY <1>1, StepFacts, DeviceMisses DEF RunningStep
  <2> QED BY <1>1, <2>1, MissKeepsRams
<1>3. ASSUME NEW a \in Addr, ~Uncached(a) PROVE mem'[a] = mem[a]
  <2>1. CASE mem' = mem
    BY <2>1
  <2>2. CASE tx.busy /\ mem' = [mem EXCEPT ![txAddr] =
                                 Merge(mem[txAddr], creq.strobe, creq.data)]
    <3>1. tx.start = dreq.addr /\ tx.start \in Addr
      BY <1>1, <2>2, StepFacts DEF Bus, creq, creq_addr, DeviceTypeOK, Tx
    <3>2. txAddr.tag = tx.start.tag
      BY <3>1 DEF txAddr, Addr
    <3>3. a # txAddr
      BY <1>1, <1>3, <3>1, <3>2 DEF Uncached
    <3> QED BY <2>2, <3>3, StepFacts DEF DeviceTypeOK
  <2> QED BY <2>1, <2>2, MemStep
<1>4. CleanLineInMemory'
  <2> SUFFICES ASSUME NEW i \in Index, NEW w \in Way,
                      meta_ram[i][w].valid, ~meta_ram[i][w].dirty
               PROVE  LineInMemory(i, w)'
    BY <1>2 DEF CleanLineInMemory
  <2>1. LineInMemory(i, w)
    BY <1>1 DEF LinesInv, CleanLineInMemory, RunningStep
  <2>2. meta_ram[i][w].tag \in Tag /\ meta_ram[i][w].tag \notin IOTag
    BY StepFacts DEF CacheTypeOK, Meta, DevicesNotCached, RunningStep
  <2>3. \A o \in Offset :
          LET a == [tag |-> meta_ram[i][w].tag, index |-> i, offset |-> o]
          IN  a \in Addr /\ ~Uncached(a)
    BY <2>2 DEF Addr, Uncached
  <2> QED BY <1>2, <1>3, <2>1, <2>3, LineKept
<1> QED
  BY <1>1, <1>4 DEF LinesInv, WrittenSoFar, VictimSafe, FilledSoFar

\* What a cycle of a fill does, in terms of the line of the request.
LEMMA FillStep ==
  ASSUME RunningStep, NEW r \in CResp, Sees(r), Allocate(r)
  PROVE  /\ state = "ALLOCATE" /\ dreq' = dreq /\ mem' = mem
         /\ state' = IF cresp.ready /\ cresp.last THEN "IDLE" ELSE "ALLOCATE"
         /\ ~Uncached(dreq.addr)
         /\ tag' = tag /\ index' = index /\ hit' /\ position' = position
         /\ ram_rmeta = meta_ram[index] /\ ram_rmeta' = meta_ram'[index]
         /\ ram_rmeta'[position] = [valid |-> TRUE, dirty |-> FALSE, tag |-> tag]
         /\ ~hit => ~cresp.ready /\ offset_cnt' = 0
         /\ \A i \in Index : \A w \in Way : i # index \/ w # position =>
              /\ meta_ram'[i][w] = meta_ram[i][w]
              /\ data_ram'[i][w] = data_ram[i][w]
         /\ \A o \in Offset : o # offset_cnt =>
              data_ram'[index][position][o] = data_ram[index][position][o]
         /\ cresp.ready =>
              data_ram'[index][position][offset_cnt]
                = mem[[tag |-> tag, index |-> index, offset |-> offset_cnt]]
<1>1. /\ state = "ALLOCATE" /\ FillWord(r) /\ dreq.valid
      /\ state' = IF cresp.ready /\ cresp.last THEN "IDLE" ELSE "ALLOCATE"
      /\ offset_cnt' = IF cresp.ready THEN cnt_nxt ELSE offset_cnt
      /\ ~Uncached(dreq.addr)
  BY StepFacts
     DEF Allocate, Sees, Rams, ClearSet, WriteWord, StoreHit, KeepRams, Waiting
<1>2. dreq' = dreq
  BY <1>1, MasterWaits DEF RunningStep
<1>3. mem' = mem
  BY <1>1, MemStep, StepFacts DEF Bus, creq
<1>4. /\ tag' = tag /\ index' = index /\ hit' /\ position' = position
      /\ ram_rmeta'[position] = [valid |-> TRUE, dirty |-> FALSE, tag |-> tag]
  BY <1>1, <1>2, StepFacts, FillLookup DEF RunningStep
<1>5. ram_rmeta = meta_ram[index] /\ ram_rmeta' = meta_ram'[index]
  BY <1>1, <1>4, ReadSet DEF ram_rmeta, meta_addr
<1>6. ~hit => ~cresp.ready /\ offset_cnt' = 0
  <2>1. ~hit => ~tx.busy
    BY <1>1, StepFacts DEF ControlInv, Victim
  <2>2. ~tx.busy => ~cresp.ready
    BY DEF cresp, CResp0
  <2>3. ~tx.busy => offset_cnt = 0
    BY <1>1, StepFacts DEF BeatsAgree, RunningStep
  <2> QED BY <1>1, <2>1, <2>2, <2>3
<1>7. offset_cnt \in Offset /\ data_ram \in [Index -> [Way -> [Offset -> Word]]]
      /\ index \in Index /\ position \in Way
  BY StepFacts DEF CacheTypeOK
<1>8. \A i \in Index : \A w \in Way : i # index \/ w # position =>
        /\ meta_ram'[i][w] = meta_ram[i][w]
        /\ data_ram'[i][w] = data_ram[i][w]
  BY <1>1, <1>7, TagsFilled, StepFacts DEF FillWord
<1>9. /\ \A o \in Offset : o # offset_cnt =>
           data_ram'[index][position][o] = data_ram[index][position][o]
      /\ data_ram'[index][position][offset_cnt] = r.data
  BY <1>1, <1>7 DEF FillWord
<1>10. ASSUME cresp.ready
       PROVE  r.data = mem[[tag |-> tag, index |-> index, offset |-> offset_cnt]]
  <2>1. tx.busy /\ ~tx.is_write
    BY <1>1, <1>10, StepFacts DEF cresp, CResp0, Bus, creq
  <2>2. txAddr = [tag |-> tag, index |-> index, offset |-> offset_cnt]
    <3>1. creq_addr.tag = tag
      BY <1>1 DEF creq_addr
    <3> QED BY <1>1, <2>1, <3>1, BurstAddr, StepFacts DEF RunningStep
  <2>3. r.data = mem[txAddr]
    BY <1>10, <2>1 DEF Sees, cresp, CResp0
  <2> QED BY <2>2, <2>3
<1> QED
  BY <1>1, <1>2, <1>3, <1>4, <1>5, <1>6, <1>8, <1>9, <1>10

LEMMA AllocateLines ==
  ASSUME RunningStep, LinesInv, NEW r \in CResp, Sees(r), Allocate(r)
  PROVE  LinesInv'
<1> DEFINE LineWord(o) == [tag |-> tag, index |-> index, offset |-> o]
<1>1. state = "ALLOCATE" /\ mem' = mem /\ hit' /\ tag' = tag /\ index' = index
      /\ position' = position /\ state' \in {"ALLOCATE", "IDLE"}
  BY FillStep
<1>2. ASSUME hit, NEW o \in Offset, o < offset_cnt \/ (o = offset_cnt /\ cresp.ready)
      PROVE  data_ram'[index][position][o] = mem[LineWord(o)]
  <2>1. CASE o = offset_cnt /\ cresp.ready
    BY <2>1, FillStep
  <2>2. CASE o < offset_cnt
    <3>1. o # offset_cnt
      BY <2>2 DEF Offset
    <3>2. data_ram[index][position][o] = mem[LineWord(o)]
      BY <1>1, <1>2, <2>2 DEF LinesInv, FilledSoFar
    <3> QED BY <3>1, <3>2, FillStep
  <2> QED BY <1>2, <2>1, <2>2
<1>3. CleanLineInMemory'
  <2> SUFFICES ASSUME NEW i \in Index, NEW w \in Way,
                      meta_ram'[i][w].valid, ~meta_ram'[i][w].dirty,
                      ~(state' = "ALLOCATE" /\ i = index /\ w = position)
               PROVE  LineInMemory(i, w)'
    BY <1>1 DEF CleanLineInMemory
  <2>1. CASE i # index \/ w # position
    <3>1. /\ meta_ram'[i][w] = meta_ram[i][w]
          /\ data_ram'[i][w] = data_ram[i][w]
      BY <2>1, FillStep
    <3>2. LineInMemory(i, w)
      BY <2>1, <3>1 DEF LinesInv, CleanLineInMemory, RunningStep
    <3> QED BY <1>1, <3>1, <3>2, LineKept
  <2>2. CASE i = index /\ w = position
    <3>1. cresp.ready /\ cresp.last /\ hit
      BY <2>2, FillStep
    <3>2. offset_cnt = WordsPerLine - 1
      BY <1>1, <3>1, BurstStep, StepFacts DEF RunningStep, Allocate, Sees
    <3>3. ASSUME NEW o \in Offset
          PROVE  data_ram'[index][position][o] = mem[LineWord(o)]
      BY <1>2, <3>1, <3>2, Sizes DEF Offset
    <3>4. meta_ram'[i][w].tag = tag
      BY <2>2, FillStep
    <3> QED BY <1>1, <2>2, <3>3, <3>4 DEF LineInMemory
  <2> QED BY <2>1, <2>2
<1>4. ASSUME state' = "ALLOCATE" PROVE FilledSoFar'
  <2>1. ~ram_rmeta'[position].dirty
    BY FillStep
  <2> SUFFICES ASSUME NEW o \in Offset, o < offset_cnt'
               PROVE  data_ram'[index][position][o] = mem[LineWord(o)]
    BY <1>1, <2>1 DEF FilledSoFar
  <2>2. hit
    BY FillStep DEF Offset
  <2>3. offset_cnt' = IF cresp.ready THEN offset_cnt + 1 ELSE offset_cnt
    <3>1. CASE cresp.ready
      <4>1. ~cresp.last
        BY <1>4, <3>1, FillStep
      <4> QED BY <1>1, <3>1, <4>1, BurstStep, StepFacts DEF RunningStep, Allocate, Sees
    <3> QED BY <3>1 DEF Allocate, Sees
  <2> QED BY <1>2, <2>2, <2>3, StepFacts DEF CacheTypeOK, Offset
<1> QED
  BY <1>1, <1>3, <1>4 DEF LinesInv, WrittenSoFar, VictimSafe, FilledSoFar

\* A step that is not a Tick of the running bench starts, runs or ends a
\* reset, or changes nothing.
LEMMA NextCases ==
  ASSUME [Next]_vars
  PROVE  Restart \/ ResetTick \/ Tick \/ UNCHANGED vars
  BY DEF Next

LEMMA CycleRuns ==
  ASSUME ControlCore, Cycle, UNCHANGED <<reset, left>>
  PROVE  RunningStep
  BY CycleControl DEF RunningStep

LEMMA TickRuns ==
  ASSUME ControlCore, Tick
  PROVE  RunningStep
  BY TickCycle, CycleRuns DEF ControlCore

\* Every running cycle keeps the data part.
LEMMA CycleLines ==
  ASSUME RunningStep, LinesInv
  PROVE  LinesInv'
<1> PICK r \in CResp : Sees(r) /\ CacheCycle(r)
  BY DEF RunningStep, Cycle
<1> QED
  BY FlushLines, IdleLines, StartSkipLines, StartMissLines, AllocateLines,
     WriteBackLines, SkipLines DEF CacheCycle

\* After a reset there are no lines to speak of.
LEMMA ResetLines ==
  ASSUME ControlCore, NEW r, ResetCycle(r), left' = left - 1,
         reset' \in BOOLEAN, (reset' <=> left' > 0), ~reset'
  PROVE  LinesInv'
<1>1. state' = "FLUSH" /\ \A i \in Index : Empty(i)'
  BY ResetStep DEF ControlCore
<1> QED
  BY <1>1
     DEF LinesInv, CleanLineInMemory, WrittenSoFar, VictimSafe, FilledSoFar, Empty

\* With the registers and the memory as they were, it still holds.
LEMMA SameLines ==
  ASSUME ~reset, LinesInv, UNCHANGED <<dreq, reset, cacheVars, mem>>
  PROVE  LinesInv'
<1>1. UNCHANGED <<dreq, reset, state, offset_cnt, meta_ram, age_ram, data_ram, mem>>
  BY DEF cacheVars, cacheRams
<1>2. tag' = tag /\ index' = index /\ ram_rmeta' = ram_rmeta
      /\ (hit' <=> hit) /\ position' = position
  BY <1>1
     DEF tag, index, ram_rmeta, meta_addr, hit, hitWays, position, victims,
         ram_rage
<1> QED
  BY <1>1, <1>2
     DEF LinesInv, CleanLineInMemory, LineInMemory, WrittenSoFar, VictimSafe,
         FilledSoFar

LEMMA LinesStep == LinesCore /\ [Next]_vars => LinesCore'
<1> SUFFICES ASSUME LinesCore, [Next]_vars PROVE LinesCore'
  OBVIOUS
<1>1. ControlCore /\ ControlCore' /\ (~reset => LinesInv)
  BY ControlStep DEF LinesCore
<1>2. CASE Restart
  BY <1>1, <1>2 DEF Restart, LinesCore
<1>3. CASE ResetTick
  <2>1. ASSUME ~reset' PROVE LinesInv'
    BY <1>1, <1>3, <2>1, ResetTickFacts, ResetLines DEF ControlCore
  <2> QED BY <1>1, <2>1 DEF LinesCore
<1>4. CASE Tick
  BY <1>1, <1>4, TickRuns, CycleLines DEF LinesCore, RunningStep
<1>5. CASE UNCHANGED vars
  BY <1>1, <1>5, SameLines DEF vars, LinesCore, deviceVars
<1> QED BY <1>2, <1>3, <1>4, <1>5, NextCases

\* The control and the data part of the invariant hold in every reachable
\* state.
THEOREM LinesCorrect == Spec => []LinesCore
<1>1. Init => LinesCore
  BY InitControl DEF LinesCore, Init
<1> QED BY <1>1, LinesStep, PTL DEF Spec

\* A valid line without the dirty bit is the line in memory.
THEOREM CleanLineInMemoryHolds == Spec => []CleanLineInMemory
<1>1. LinesCore => CleanLineInMemory
  BY DEF LinesCore, LinesInv, CleanLineInMemory
<1> QED BY <1>1, LinesCorrect, PTL

\* Only the first cycle of a fill gives a valid way another tag.
LEMMA TagChanges ==
  ASSUME RunningStep, NEW i \in Index, NEW w \in Way, meta_ram[i][w].valid,
         meta_ram'[i][w].tag # meta_ram[i][w].tag
  PROVE  state = "ALLOCATE" /\ ~hit /\ i = index /\ w = position
<1>1. CASE state = "FLUSH"
  BY <1>1, StepFacts DEF ControlInv, EmptyAfterReset, RunningStep
<1>2. CASE state # "FLUSH"
  <2> PICK r \in CResp : Rams(r)
    BY
       DEF RunningStep, Cycle, CacheCycle, Flush, Idle, StartSkip, StartMiss,
           Allocate, WriteBack, Skip
  <2>1. CacheTypeOK
    BY StepFacts
  <2>2. FillWord(r)
    BY <1>2, <2>1, TagsKept DEF Rams, ClearSet
  <2>3. i = index /\ w = position
    BY <2>1, <2>2, TagsFilled
  <2>4. meta_ram[i][w].tag # tag
    BY <2>1, <2>2, <2>3, TagsFilled
  <2> QED BY <1>2, <2>1, <2>2, <2>3, <2>4, HitFacts, ReadSet DEF FillWord
<1> QED BY <1>1, <1>2

\* The cache, its burst and the memory are in step in every cycle of a miss.
THEOREM CacheSoundHolds == Spec => []CacheSound
<1>1. QED
  BY TypeCorrect, UniqueTagsHolds, OneVictimHolds, DevicesNotCachedHolds,
     RequestStableHolds, BeatsAgreeHolds, CleanLineInMemoryHolds, PTL
     DEF CacheSound

\* When a way is given to another line, what it held is in memory.
THEOREM NoDirtyLineLostHolds == Spec => NoDirtyLineLost
<1>1. ASSUME LinesCore, [Next]_vars, ~reset, ~reset',
             NEW i \in Index, NEW w \in Way, meta_ram[i][w].valid,
             meta_ram'[i][w].tag # meta_ram[i][w].tag
      PROVE  LineInMemory(i, w)
  <2>1. Tick
    <3>1. meta_ram' # meta_ram
      BY <1>1
    <3> QED
      BY <1>1, <3>1, NextCases
         DEF Restart, ResetTick, ResetCycle, vars, cacheVars, cacheRams
  <2>2. RunningStep
    BY <1>1, <2>1, TickRuns DEF LinesCore
  <2>3. state = "ALLOCATE" /\ ~hit /\ i = index /\ w = position
    BY <1>1, <2>2, TagChanges
  <2> QED BY <1>1, <2>3, ReadSet DEF LinesCore, LinesInv, VictimSafe
<1>2. LinesCore /\ [Next]_vars =>
        [\A i \in Index : \A w \in Way :
           /\ ~reset /\ ~reset' /\ meta_ram[i][w].valid
           /\ meta_ram'[i][w].tag # meta_ram[i][w].tag
           => LineInMemory(i, w)]_vars
  BY <1>1
<1> QED BY <1>2, LinesCorrect, PTL DEF Spec, NoDirtyLineLost

\* The way used last is young, and the line given up is the old one's.
THEOREM LeastRecentlyUsedHolds == Spec => LeastRecentlyUsed
<1>1. ASSUME LinesCore, [Next]_vars, ~reset, ~reset',
             NEW i \in Index, NEW w \in Way, \A v \in Way : meta_ram[i][v].valid,
             meta_ram'[i][w].tag # meta_ram[i][w].tag
      PROVE  age_ram[i][w] = 1 /\ age_ram[i][1 - w] = 0
  <2>1. Tick
    <3>1. meta_ram' # meta_ram
      BY <1>1
    <3> QED
      BY <1>1, <3>1, NextCases
         DEF Restart, ResetTick, ResetCycle, vars, cacheVars, cacheRams
  <2>2. RunningStep
    BY <1>1, <2>1, TickRuns DEF LinesCore
  <2>3. state = "ALLOCATE" /\ ~hit /\ i = index /\ w = position
    BY <1>1, <2>2, TagChanges
  <2>4. age_ram[i] \in [Way -> 0 .. 1] /\ (age_ram[i][0] = 0 \/ age_ram[i][1] = 0)
    BY <1>1, <2>2, StepFacts DEF CacheTypeOK, LinesCore, ControlCore, AgesOld
  <2>5. age_ram[i][0] # age_ram[i][1]
    BY <1>1, <2>2, StepFacts DEF ControlInv, AgesRun, Way
  <2>6. age_ram[i][w] = 1
    BY <1>1, <2>2, <2>3, <2>4, <2>5, StepFacts, MissFacts, ReadSet DEF Way
  <2> QED BY <2>4, <2>6 DEF Way
<1>2. ASSUME LinesCore, [Next]_vars, ~UNCHANGED vars, ~reset, ~reset',
             NEW i \in Index, \A w \in Way : meta_ram[i][w].valid
      PROVE  age_ram'[i] = IF i = index /\ hit
                           THEN [w \in Way |-> IF w = position THEN 0 ELSE 1]
                           ELSE age_ram[i]
  <2>1. Tick
    BY <1>2, NextCases DEF Restart, ResetTick, ResetCycle
  <2>2. RunningStep
    BY <1>2, <2>1, TickRuns DEF LinesCore
  <2>3. TouchAges /\ CacheTypeOK /\ CacheTypeOK' /\ AgesOld /\ state # "FLUSH"
    <3>1. state # "FLUSH"
      BY <1>2, <2>2, StepFacts DEF ControlInv, EmptyAfterReset, Way
    <3> QED
      BY <1>2, <2>1, <2>2, <3>1, StepFacts
         DEF Tick, CacheCycle, Flush, Idle, StartSkip, StartMiss, Allocate,
             WriteBack, Skip, Rams, LinesCore, ControlCore
  <2>4. meta_addr = index /\ position \in Way /\ age_ram'[i] \in [Way -> 0 .. 1]
    BY <2>2, <2>3, ReadSet, StepFacts DEF CacheTypeOK
  <2> QED BY <1>2, <2>3, <2>4, AgesTouched DEF Way
<1>3. LinesCore /\ [Next]_vars =>
        [\A i \in Index :
           ~reset /\ ~reset' /\ (\A w \in Way : meta_ram[i][w].valid) =>
             /\ \A w \in Way : meta_ram'[i][w].tag # meta_ram[i][w].tag =>
                  age_ram[i][w] = 1 /\ age_ram[i][1 - w] = 0
             /\ age_ram'[i] = IF i = index /\ hit
                             THEN [w \in Way |-> IF w = position THEN 0 ELSE 1]
                             ELSE age_ram[i]]_vars
  BY <1>1, <1>2
<1> QED BY <1>3, LinesCorrect, PTL DEF Spec, LeastRecentlyUsed

\* A device access is answered in the cycle the device performs it.
THEOREM DeviceAccessOnceHolds == Spec => DeviceAccessOnce
<1>1. ASSUME LinesCore, [Next]_vars, ~reset, ~reset', enable, tx.busy,
             Uncached(tx.start), ~UNCHANGED vars
      PROVE  Accept /\ dreq.addr = tx.start
  <2>1. Tick
    BY <1>1, NextCases DEF Restart, ResetTick, ResetCycle
  <2>2. RunningStep
    BY <1>1, <2>1, TickRuns DEF LinesCore
  <2>3. creq.valid /\ creq.addr = tx.start /\ creq.len = tx.len /\ tx.n \in 1 .. tx.len
    BY <1>1, <2>2, StepFacts DEF Bus
  <2>4. state = "SKIP"
    <3>1. state \in {"ALLOCATE", "WRITE_BACK", "SKIP"}
      BY <2>3 DEF creq
    <3>2. state # "ALLOCATE"
      BY <1>1, <2>2, <2>3, StepFacts DEF creq, creq_addr, Uncached, Waiting, tag
    <3>3. state # "WRITE_BACK"
      <4> SUFFICES ASSUME state = "WRITE_BACK" PROVE FALSE
        OBVIOUS
      <4>1. ram_rmeta[position].valid /\ ram_rmeta = meta_ram[index]
        BY <2>2, StepFacts, ReadSet DEF ControlInv, Victim
      <4>2. ram_rmeta[position].tag \notin IOTag
        BY <1>1, <2>2, <4>1, StepFacts DEF DevicesNotCached
      <4> QED BY <1>1, <2>3, <4>2 DEF creq, creq_addr, Uncached
    <3> QED BY <3>1, <3>2, <3>3
  <2>5. dreq.addr = tx.start /\ tx.n = 1 /\ tx.len = 1 /\ dreq.valid
    BY <2>2, <2>3, <2>4, StepFacts DEF creq, creq_addr, Waiting
  <2>6. cresp.last
    BY <1>1, <2>5 DEF cresp, txLast
  <2>7. answer.data_ok
    BY <2>4, <2>6 DEF answer, dresp
  <2> QED BY <2>1, <2>2, <2>5, <2>7, StepFacts DEF Tick, Await, NoRequest
<1>2. LinesCore /\ [Next]_vars =>
        [/\ ~reset /\ ~reset' /\ enable /\ tx.busy /\ Uncached(tx.start)
         => Accept /\ dreq.addr = tx.start]_vars
  BY <1>1
<1> QED BY <1>2, LinesCorrect, PTL DEF Spec, DeviceAccessOnce

\* A repeated request for cached memory is answered again in the next cycle:
\* the line that answered it is not given up in between.
THEOREM AnsweredAgainHolds == Spec => AnsweredAgain
<1>1. ASSUME LinesCore, [Next]_vars, ~reset, ~reset', dreq.valid,
             ~Uncached(dreq.addr), answer.data_ok, dreq' = dreq, ~UNCHANGED vars
      PROVE  answer'.data_ok
  <2>1. Tick
    BY <1>1, NextCases DEF Restart, ResetTick, ResetCycle
  <2>2. RunningStep
    BY <1>1, <2>1, TickRuns DEF LinesCore
  <2>3. state = "IDLE" /\ hit
    BY <1>1, <2>2, StepFacts DEF answer, dresp, Waiting
  <2>4. state' = "IDLE" /\ (WriteWord \/ KeepRams)
    <3>1. Idle(cresp)
      BY <1>1, <2>1, <2>3
         DEF Tick, CacheCycle, Flush, StartSkip, StartMiss, Allocate,
             WriteBack, Skip
    <3> QED BY <2>3, <3>1 DEF Idle, Rams, ClearSet, FillWord
  <2>5. PICK w \in Way : meta_ram[index][w].valid /\ meta_ram[index][w].tag = tag
    BY <2>2, <2>3, StepFacts, HitFacts, ReadSet
  <2>6. meta_ram'[index][w].valid /\ meta_ram'[index][w].tag = tag
    BY <2>2, <2>4, <2>5, StepFacts, TagsKept
  <2>7. tag' = tag /\ index' = index /\ ram_rmeta' = meta_ram'[index]
    BY <1>1, <2>4 DEF tag, index, ram_rmeta, meta_addr
  <2>8. hit'
    BY <2>6, <2>7 DEF hit, hitWays
  <2> QED BY <2>4, <2>8 DEF answer, dresp
<1>2. LinesCore /\ [Next]_vars =>
        [/\ ~reset /\ ~reset' /\ dreq.valid /\ ~Uncached(dreq.addr)
         /\ answer.data_ok /\ dreq' = dreq
         => answer'.data_ok]_vars
  BY <1>1
<1> QED BY <1>2, LinesCorrect, PTL DEF Spec, AnsweredAgain

-----------------------------------------------------------------------------
(* The memory the master sees                                              *)

\* The view before and after a step, of a running bench.
LEMMA ViewFacts ==
  ASSUME NEW a \in Addr, UniqueTags, ~reset
  PROVE  /\ \A w \in Way : Holds(a, w) => View[a] = data_ram[a.index][w][a.offset]
         /\ (\A w \in Way : ~Holds(a, w)) => View[a] = mem[a]
<1>1. ASSUME NEW w \in Way, Holds(a, w)
      PROVE  View[a] = data_ram[a.index][w][a.offset]
  <2>1. {v \in Way : Holds(a, v)} = {w}
    <3>1. a.index \in Index
      BY DEF Addr
    <3> QED BY <1>1, <3>1 DEF Holds, UniqueTags
  <2>2. LastOf({w}) = w
    BY DEF LastOf, Way
  <2> QED BY <1>1, <2>1, <2>2 DEF View
<1>2. ASSUME \A w \in Way : ~Holds(a, w)
      PROVE  View[a] = mem[a]
  BY <1>2 DEF View
<1> QED BY <1>1, <1>2

LEMMA ViewFactsNext ==
  ASSUME NEW a \in Addr, UniqueTags', ~reset'
  PROVE  /\ \A w \in Way : Holds(a, w)' =>
              View'[a] = data_ram'[a.index][w][a.offset]
         /\ (\A w \in Way : ~Holds(a, w)') => View'[a] = mem'[a]
<1>1. ASSUME NEW w \in Way, Holds(a, w)'
      PROVE  View'[a] = data_ram'[a.index][w][a.offset]
  <2>1. {v \in Way : Holds(a, v)'} = {w}
    <3>1. a.index \in Index
      BY DEF Addr
    <3> QED BY <1>1, <3>1 DEF Holds, UniqueTags
  <2>2. LastOf({w}) = w
    BY DEF LastOf, Way
  <2> QED BY <1>1, <2>1, <2>2 DEF View
<1>2. ASSUME \A w \in Way : ~Holds(a, w)'
      PROVE  View'[a] = mem'[a]
  BY <1>2 DEF View
<1> QED BY <1>1, <1>2

LEMMA ViewDomain ==
  /\ View = [a \in Addr |-> View[a]]
  /\ View' = [a \in Addr |-> View'[a]]
<1>1. View = [a \in Addr |-> View[a]]
  BY DEF View
<1>2. View' = [a \in Addr |-> View'[a]]
  BY DEF View
<1> QED BY <1>1, <1>2

\* The view is a memory.
LEMMA ViewType ==
  ASSUME Types, ~reset => UniqueTags
  PROVE  View \in [Addr -> Word]
<1> SUFFICES ASSUME NEW a \in Addr PROVE View[a] \in Word
  BY DEF View
<1>1. CASE reset
  BY <1>1, InitMemAssumption DEF View
<1>2. CASE ~reset /\ \E w \in Way : Holds(a, w)
  BY <1>2, ViewFacts DEF Types, CacheTypeOK, Addr
<1>3. CASE ~reset /\ \A w \in Way : ~Holds(a, w)
  BY <1>3, ViewFacts DEF Types, DeviceTypeOK
<1> QED BY <1>1, <1>2, <1>3

\* An address whose lines, held words and memory stay looks the same.
LEMMA SameView ==
  ASSUME RunningStep, NEW a \in Addr,
         \A w \in Way : Holds(a, w)' <=> Holds(a, w),
         \A w \in Way : Holds(a, w) =>
           data_ram'[a.index][w][a.offset] = data_ram[a.index][w][a.offset],
         (\A w \in Way : ~Holds(a, w)) => mem'[a] = mem[a]
  PROVE  View'[a] = View[a]
<1>1. UniqueTags /\ UniqueTags' /\ ~reset /\ ~reset'
  BY StepFacts DEF RunningStep
<1>2. CASE \E w \in Way : Holds(a, w)
  BY <1>1, <1>2, ViewFacts, ViewFactsNext
<1>3. CASE \A w \in Way : ~Holds(a, w)
  BY <1>1, <1>3, ViewFacts, ViewFactsNext
<1> QED BY <1>2, <1>3

\* A cycle that changes neither RAM nor memory, and starts no fill of a line
\* that is held, changes nothing the master sees.
LEMMA QuietView ==
  ASSUME RunningStep, state # "ALLOCATE", meta_ram' = meta_ram,
         data_ram' = data_ram, mem' = mem,
         state' # "ALLOCATE" \/ (~hit /\ dreq' = dreq /\ state # "FLUSH")
  PROVE  View' = View
<1>1. ASSUME NEW a \in Addr PROVE View'[a] = View[a]
  <2>1. ASSUME NEW w \in Way PROVE Holds(a, w)' <=> Holds(a, w)
    <3>1. ASSUME state' = "ALLOCATE", Holds(a, w)
          PROVE  ~(a.index = index /\ a.tag = tag)
      BY <3>1, StepFacts, HitFacts, ReadSet DEF Holds
    <3>2. state' = "ALLOCATE" => index' = index /\ tag' = tag
      BY DEF index, tag
    <3> QED BY <3>1, <3>2 DEF Holds
  <2> QED BY <2>1, SameView
<1> QED BY <1>1 DEF View

\* The request's own line, when it hits.
LEMMA HitHolds ==
  ASSUME RunningStep, state = "IDLE", hit
  PROVE  /\ dreq.addr \in Addr /\ dreq.addr.index = index
         /\ dreq.addr.offset = offset /\ dreq.addr.tag = tag
         /\ Holds(dreq.addr, position)
         /\ View[dreq.addr] = data_ram[index][position][offset]
<1>1. /\ dreq.addr \in Addr /\ dreq.addr.index = index
      /\ dreq.addr.offset = offset /\ dreq.addr.tag = tag
  BY StepFacts DEF CacheTypeOK, DReq, index, offset, tag
<1>2. Holds(dreq.addr, position)
  BY <1>1, StepFacts, HitFacts, ReadSet DEF Holds
<1> QED BY <1>1, <1>2, StepFacts, ViewFacts DEF RunningStep

\* The view after a store to the address of the request.
Stored == [View EXCEPT ![dreq.addr] =
             Merge(View[dreq.addr], dreq.strobe, dreq.data)]

\* A merge of no lane changes nothing.
LEMMA MergeNone ==
  ASSUME NEW old \in Word, NEW d
  PROVE  Merge(old, {}, d) = old
  BY DEF Merge, Word

LEMMA StoredNone ==
  ASSUME RunningStep, dreq.strobe = {}
  PROVE  Stored = View
<1>1. View \in [Addr -> Word] /\ dreq.addr \in Addr
  BY StepFacts, ViewType DEF CacheTypeOK, DReq
<1>2. Merge(View[dreq.addr], dreq.strobe, dreq.data) = View[dreq.addr]
  BY <1>1, MergeNone
<1> QED BY <1>1, <1>2 DEF Stored

\* The write of a hit is seen, whether or not there is a request.
LEMMA IdleView ==
  ASSUME RunningStep, NEW r \in CResp, Sees(r), Idle(r)
  PROVE  View' = IF StoreHit THEN Stored ELSE View
<1>1. /\ state = "IDLE" /\ state' = "IDLE" /\ CacheTypeOK
      /\ WriteWord \/ (KeepRams /\ ~StoreHit)
  BY StepFacts DEF Idle, Rams, ClearSet, FillWord, KeepRams
<1>2. mem' = mem
  BY <1>1, StepFacts, BusQuiet DEF creq, RunningStep
<1>3. CASE KeepRams /\ ~StoreHit
  BY <1>1, <1>2, <1>3, QuietView DEF KeepRams
<1>4. CASE WriteWord
  <2>1. StoreHit /\ hit
    BY <1>4 DEF WriteWord, StoreHit
  <2>2. ASSUME NEW a \in Addr, NEW w \in Way PROVE Holds(a, w)' <=> Holds(a, w)
    <3>1. a.index \in Index
      BY DEF Addr
    <3> QED BY <1>1, <1>4, <3>1, TagsKept DEF Holds
  <2>3. ASSUME NEW a \in Addr, a # dreq.addr PROVE View'[a] = View[a]
    <3>1. ASSUME NEW w \in Way, Holds(a, w)
          PROVE  data_ram'[a.index][w][a.offset] = data_ram[a.index][w][a.offset]
      <4>1. a.index # index \/ w # position \/ a.offset # offset
        <5> SUFFICES ASSUME a.index = index, w = position, a.offset = offset
                     PROVE  FALSE
          OBVIOUS
        <5>1. a.tag = tag
          BY <1>1, <2>1, <3>1, HitFacts, ReadSet DEF Holds
        <5> QED BY <1>1, <2>1, <2>3, <5>1, HitHolds DEF Addr
      <4>2. /\ data_ram' = [data_ram EXCEPT ![index][position][offset] =
                               Merge(@, dreq.strobe, dreq.data)]
            /\ data_ram \in [Index -> [Way -> [Offset -> Word]]]
            /\ a.index \in Index /\ a.offset \in Offset
        BY <1>4, <1>1 DEF WriteWord, CacheTypeOK, Addr
      <4> QED BY <4>1, <4>2, StepFacts
    <3> QED BY <1>2, <2>2, <3>1, SameView
  <2>4. View'[dreq.addr] = Merge(View[dreq.addr], dreq.strobe, dreq.data)
    <3> PICK a \in Addr, p \in Way : a = dreq.addr /\ p = position
      BY <1>1, <2>1, HitHolds, StepFacts
    <3>1. Holds(a, p)'
      BY <1>1, <2>1, <2>2, HitHolds
    <3>2. View'[dreq.addr] = data_ram'[index][position][offset]
      <4>1. View'[a] = data_ram'[a.index][p][a.offset]
        BY <3>1, ViewFactsNext, StepFacts DEF RunningStep
      <4> QED BY <1>1, <2>1, <4>1, HitHolds
    <3>3. data_ram'[index][position][offset]
            = Merge(data_ram[index][position][offset], dreq.strobe, dreq.data)
      BY <1>4, StepFacts, LookupTypes DEF WriteWord, CacheTypeOK
    <3> QED BY <1>1, <2>1, <3>2, <3>3, HitHolds
  <2>5. View' = Stored
    BY <2>3, <2>4, ViewDomain DEF Stored
  <2> QED BY <2>1, <2>5
<1> QED BY <1>1, <1>3, <1>4

LEMMA FlushView ==
  ASSUME RunningStep, NEW r \in CResp, Sees(r), Flush(r)
  PROVE  View' = View
<1>1. state = "FLUSH" /\ state' = "IDLE" /\ Rams(r) /\ CacheTypeOK
  BY StepFacts DEF Flush
<1>2. mem' = mem
  BY <1>1, StepFacts, BusQuiet DEF creq, RunningStep
<1>3. \A i \in Index : Empty(i) /\ Empty(i)'
  BY <1>1, FlushEmpties, StepFacts DEF ControlInv, EmptyAfterReset, Empty, RunningStep
<1>4. ASSUME NEW a \in Addr PROVE View'[a] = View[a]
  <2>1. \A w \in Way : ~Holds(a, w) /\ ~Holds(a, w)'
    BY <1>3 DEF Holds, Empty, Addr
  <2> QED BY <1>2, <2>1, SameView
<1> QED BY <1>4 DEF View

LEMMA StartView ==
  ASSUME RunningStep, NEW r \in CResp, Sees(r), StartSkip(r) \/ StartMiss(r)
  PROVE  View' = View
<1>1. /\ state = "IDLE" /\ Rams(r) /\ ~reset /\ dreq.valid
      /\ Uncached(dreq.addr) \/ ~hit
  BY DEF StartSkip, StartMiss
<1>2. ~hit
  BY <1>1, DeviceMisses, StepFacts
<1> QED
  BY <1>1, <1>2, MissKeepsRams, BusQuiet, MasterWaits, StepFacts, QuietView
     DEF creq, RunningStep

LEMMA WriteBackView ==
  ASSUME RunningStep, NEW r \in CResp, Sees(r), WriteBack(r)
  PROVE  View' = View
<1>1. /\ state = "WRITE_BACK" /\ Rams(r) /\ dreq.valid /\ ~reset
      /\ state' \in {"WRITE_BACK", "ALLOCATE"}
      /\ ~hit /\ ram_rmeta[position].valid /\ ram_rmeta = meta_ram[index]
  BY StepFacts, ReadSet DEF WriteBack, ControlInv, Waiting, Victim
<1>2. data_ram' = data_ram /\ meta_ram' = meta_ram /\ dreq' = dreq
  BY <1>1, MissKeepsRams, MasterWaits DEF RunningStep
<1>3. index' = index /\ tag' = tag
  BY <1>2 DEF index, tag
<1>4. ASSUME NEW a \in Addr PROVE View'[a] = View[a]
  <2>1. ASSUME NEW w \in Way PROVE Holds(a, w)' <=> Holds(a, w)
    <3>1. Holds(a, w) => ~(a.index = index /\ a.tag = tag)
      BY <1>1, StepFacts, HitFacts DEF Holds
    <3> QED BY <1>1, <1>2, <1>3, <3>1 DEF Holds
  <2>2. ASSUME \A w \in Way : ~Holds(a, w) PROVE mem'[a] = mem[a]
    <3>1. tx.busy => a # txAddr
      <4> SUFFICES ASSUME tx.busy, a = txAddr PROVE FALSE
        OBVIOUS
      <4>1. a.tag = ram_rmeta[position].tag /\ a.index = index
        <5>1. creq_addr.tag = ram_rmeta[position].tag
          BY <1>1 DEF creq_addr
        <5> QED BY <1>1, <5>1, BurstAddr, StepFacts
      <4>2. Holds(a, position)
        BY <1>1, <4>1 DEF Holds
      <4> QED BY <2>2, <4>2, StepFacts
    <3> QED BY <3>1, MemStep, StepFacts DEF DeviceTypeOK
  <2> QED BY <1>2, <2>1, <2>2, SameView
<1> QED BY <1>4 DEF View

LEMMA AllocateView ==
  ASSUME RunningStep, LinesInv, NEW r \in CResp, Sees(r), Allocate(r)
  PROVE  View' = View
<1>1. /\ state = "ALLOCATE" /\ state' \in {"ALLOCATE", "IDLE"} /\ mem' = mem
      /\ tag' = tag /\ index' = index /\ position' = position
      /\ ram_rmeta = meta_ram[index] /\ ram_rmeta' = meta_ram'[index]
      /\ ram_rmeta'[position] = [valid |-> TRUE, dirty |-> FALSE, tag |-> tag]
  BY FillStep
<1>2. UniqueTags /\ UniqueTags' /\ ~reset /\ ~reset' /\ LinesInv'
      /\ index \in Index /\ position \in Way
  BY StepFacts, AllocateLines DEF RunningStep
<1>3. ASSUME NEW a \in Addr, a.index = index, a.tag = tag
      PROVE  View'[a] = View[a]
  <2>1. View[a] = mem[a]
    BY <1>1, <1>2, <1>3, ViewFacts DEF Holds
  <2>2. CASE state' = "ALLOCATE"
    BY <1>1, <1>2, <1>3, <2>1, <2>2, ViewFactsNext DEF Holds
  <2>3. CASE state' = "IDLE"
    <3> PICK p \in Way : p = position
      BY <1>2
    <3>1. Holds(a, p)'
      BY <1>1, <1>3, <2>3 DEF Holds
    <3>2. View'[a] = data_ram'[a.index][position][a.offset]
      BY <1>2, <3>1, ViewFactsNext
    <3>3. LineInMemory(index, position)'
      BY <1>1, <1>2, <2>3 DEF LinesInv, CleanLineInMemory
    <3>4. /\ a = [tag |-> tag, index |-> index, offset |-> a.offset]
          /\ a.offset \in Offset
      BY <1>3 DEF Addr
    <3> QED BY <1>1, <1>3, <2>1, <3>2, <3>3, <3>4 DEF LineInMemory
  <2> QED BY <1>1, <2>2, <2>3
<1>4. ASSUME NEW a \in Addr, ~(a.index = index /\ a.tag = tag)
      PROVE  View'[a] = View[a]
  <2>1. a.index \in Index /\ a.offset \in Offset
    BY DEF Addr
  <2>2. ASSUME NEW w \in Way, a.index # index \/ w # position
        PROVE  /\ Holds(a, w)' <=> Holds(a, w)
               /\ data_ram'[a.index][w] = data_ram[a.index][w]
    <3>1. /\ meta_ram'[a.index][w] = meta_ram[a.index][w]
          /\ data_ram'[a.index][w] = data_ram[a.index][w]
      BY <2>1, <2>2, FillStep
    <3> QED BY <1>1, <1>4, <3>1 DEF Holds
  <2>3. CASE ~(a.index = index /\ Holds(a, position))
    <3>1. ASSUME NEW w \in Way, a.index = index, w = position
          PROVE  ~Holds(a, w) /\ ~Holds(a, w)'
      BY <1>1, <1>4, <2>3, <3>1 DEF Holds
    <3>2. ASSUME NEW w \in Way PROVE Holds(a, w)' <=> Holds(a, w)
      BY <2>2, <3>1
    <3>3. ASSUME NEW w \in Way, Holds(a, w)
          PROVE  data_ram'[a.index][w][a.offset] = data_ram[a.index][w][a.offset]
      BY <2>2, <3>1, <3>3
    <3> QED BY <1>1, <3>2, <3>3, SameView
  <2>4. CASE a.index = index /\ Holds(a, position)
    <3>1. \A w \in Way : ~Holds(a, w)'
      <4>1. ASSUME NEW w \in Way, w = position PROVE ~Holds(a, w)'
        BY <1>1, <1>4, <2>4, <4>1 DEF Holds
      <4>2. \A w \in Way : w # position => ~Holds(a, w)
        BY <1>2, <2>1, <2>4 DEF Holds, UniqueTags
      <4> QED BY <2>2, <4>1, <4>2
    <3>2. View'[a] = mem[a]
      BY <1>1, <1>2, <3>1, ViewFactsNext
    <3>3. View[a] = data_ram[index][position][a.offset]
      BY <1>2, <2>4, ViewFacts
    <3>4. ~hit
      BY <1>1, <1>4, <2>4, HitFacts, StepFacts DEF Holds
    <3>5. LineInMemory(index, position)
      BY <1>1, <2>4, <3>4 DEF LinesInv, VictimSafe, Holds
    <3>6. a = [tag |-> meta_ram[index][position].tag, index |-> index,
               offset |-> a.offset]
      BY <2>4 DEF Holds, Addr
    <3> QED BY <2>1, <3>2, <3>3, <3>5, <3>6 DEF LineInMemory
  <2> QED BY <2>3, <2>4
<1> QED BY <1>3, <1>4 DEF View

\* A device access is seen when the device performs it.
LEMMA SkipView ==
  ASSUME RunningStep, NEW r \in CResp, Sees(r), Skip(r)
  PROVE  /\ View' = IF cresp.last THEN Stored ELSE View
         /\ cresp.last /\ dreq.strobe = {} => cresp.data = View[dreq.addr]
<1>1. /\ state = "SKIP" /\ state' \in {"IDLE", "SKIP"} /\ Rams(r) /\ ~reset
      /\ Uncached(dreq.addr) /\ dreq.addr \in Addr /\ dreq.valid
      /\ UniqueTags /\ View \in [Addr -> Word]
  BY StepFacts, ViewType DEF Skip, Waiting, CacheTypeOK, DReq
<1>2. data_ram' = data_ram /\ meta_ram' = meta_ram
  <2>1. ~hit
    BY <1>1, StepFacts, DeviceMisses
  <2> QED BY <1>1, <2>1, MissKeepsRams
<1>3. ASSUME NEW a \in Addr, NEW w \in Way PROVE Holds(a, w)' <=> Holds(a, w)
  BY <1>1, <1>2 DEF Holds
<1>4. \A w \in Way : ~Holds(dreq.addr, w)
  BY <1>1, StepFacts DEF Holds, DevicesNotCached, Uncached, Addr
<1>5. View[dreq.addr] = mem[dreq.addr]
  BY <1>1, <1>4, ViewFacts
<1>6. tx.busy => /\ txAddr = dreq.addr /\ tx.n = 1 /\ tx.len = 1
                 /\ tx.is_write = (dreq.strobe # {})
                 /\ creq.strobe = dreq.strobe /\ creq.data = dreq.data
  <2> SUFFICES ASSUME tx.busy
               PROVE  /\ txAddr = dreq.addr /\ tx.n = 1 /\ tx.len = 1
                      /\ tx.is_write = (dreq.strobe # {})
                      /\ creq.strobe = dreq.strobe /\ creq.data = dreq.data
    OBVIOUS
  <2>1. /\ tx.start = dreq.addr /\ tx.n = 1 /\ tx.len = 1
        /\ tx.is_write = (dreq.strobe # {})
        /\ creq.strobe = dreq.strobe /\ creq.data = dreq.data
    <3>1. /\ creq.addr = dreq.addr /\ creq.len = 1
          /\ creq.is_write = (dreq.strobe # {})
          /\ creq.strobe = dreq.strobe /\ creq.data = dreq.data
      BY <1>1 DEF creq, creq_addr
    <3>2. /\ creq.is_write = tx.is_write /\ creq.addr = tx.start
          /\ creq.len = tx.len /\ tx.n \in 1 .. tx.len
      BY StepFacts DEF Bus
    <3> QED BY <3>1, <3>2
  <2>2. (dreq.addr.offset + 1 - 1) % WordsPerLine = dreq.addr.offset
    BY <1>1, Sizes DEF Addr, Offset
  <2> QED BY <1>1, <2>1, <2>2 DEF txAddr, Addr
<1>7. cresp.last => tx.busy
  BY DEF cresp, CResp0
<1>8. cresp.last /\ dreq.strobe = {} => cresp.data = View[dreq.addr]
  BY <1>5, <1>6, <1>7 DEF cresp, CResp0
<1>9. ASSUME mem' = mem PROVE View' = View
  BY <1>1, <1>2, <1>9, QuietView
<1>10. CASE ~cresp.last
  <2>1. mem' = mem
    BY <1>6, <1>10, StepFacts, DeviceAnswers
       DEF DeviceCycle, DeviceIdle, DeviceStart, DeviceBeat
  <2> QED BY <1>9, <1>10, <2>1
<1>11. CASE cresp.last /\ dreq.strobe = {}
  <2>1. mem' = mem
    BY <1>6, <1>7, <1>11, MemStep
  <2> QED BY <1>8, <1>9, <1>11, <2>1, StoredNone
<1>12. CASE cresp.last /\ dreq.strobe # {}
  <2>1. mem' = [mem EXCEPT ![dreq.addr] =
                  Merge(mem[dreq.addr], dreq.strobe, dreq.data)]
    <3>1. DeviceBeat(creq)
      BY <1>12, StepFacts, DeviceAnswers DEF DeviceCycle, CResp0
    <3> QED BY <1>6, <1>7, <1>12, <3>1 DEF DeviceBeat
  <2>2. ASSUME NEW a \in Addr, a # dreq.addr PROVE View'[a] = View[a]
    <3>1. mem'[a] = mem[a]
      BY <2>1, <2>2, StepFacts DEF DeviceTypeOK
    <3> QED BY <1>2, <1>3, <3>1, SameView
  <2>3. View'[dreq.addr] = Merge(View[dreq.addr], dreq.strobe, dreq.data)
    <3> PICK a \in Addr : a = dreq.addr
      BY <1>1
    <3>1. View'[a] = mem'[a]
      BY <1>3, <1>4, ViewFactsNext, StepFacts DEF RunningStep
    <3>2. mem'[a] = Merge(mem[a], dreq.strobe, dreq.data)
      BY <2>1, StepFacts DEF DeviceTypeOK
    <3> QED BY <1>5, <3>1, <3>2
  <2> QED BY <1>12, <2>2, <2>3, ViewDomain DEF Stored
<1> QED BY <1>8, <1>10, <1>11, <1>12

\* What a cycle does to the view: the answered access, or nothing.
LEMMA CycleView ==
  ASSUME RunningStep, LinesInv, IdleStoreDone
  PROVE  IF dreq.valid /\ answer.data_ok
         THEN /\ View' = Stored
              /\ dreq.strobe = {} => answer.data = View[dreq.addr]
         ELSE View' = View
<1> PICK r \in CResp : Sees(r) /\ CacheCycle(r)
  BY DEF RunningStep, Cycle
<1>2. CASE Idle(r)
  <2>1. state = "IDLE" /\ (dreq.valid => hit) /\ (StoreHit => dreq.strobe # {})
    BY <1>2 DEF Idle, StoreHit
  <2>2. CASE dreq.valid
    <3>1. answer.data_ok
      BY <2>1, <2>2 DEF answer, dresp
    <3>2. StoreHit \/ dreq.strobe = {}
      BY <2>1, <2>2 DEF StoreHit
    <3>3. View' = Stored
      BY <1>2, <3>2, IdleView, StoredNone
    <3>4. answer.data = View[dreq.addr]
      BY <2>1, <2>2, HitHolds DEF answer, dresp, ram_rdata
    <3> QED BY <2>2, <3>1, <3>3, <3>4
  <2>3. CASE ~dreq.valid
    <3>1. ASSUME dreq.strobe # {} PROVE Stored = View
      <4>1. Merge(View[dreq.addr], dreq.strobe, dreq.data) = View[dreq.addr]
        BY <2>3, <3>1 DEF IdleStoreDone
      <4> QED BY <4>1, ViewType, StepFacts DEF Stored
    <3> QED BY <1>2, <2>1, <2>3, <3>1, IdleView
  <2> QED BY <2>2, <2>3
<1>3. CASE Skip(r)
  <2>1. state = "SKIP" /\ dreq.valid
    BY <1>3, StepFacts DEF Skip, Waiting
  <2>2. (answer.data_ok <=> cresp.last) /\ answer.data = cresp.data
    BY <2>1 DEF answer, dresp
  <2> QED BY <1>3, <2>1, <2>2, SkipView
<1>4. CASE Flush(r) \/ StartSkip(r) \/ StartMiss(r)
           \/ Allocate(r) \/ WriteBack(r)
  <2>1. ~answer.data_ok
    <3>1. state = "IDLE" => ~hit
      <4>1. state = "IDLE" => ~reset /\ (Uncached(dreq.addr) \/ ~hit)
        BY <1>4 DEF Flush, StartSkip, StartMiss, Allocate, WriteBack
      <4> QED BY <4>1, DeviceMisses, StepFacts
    <3>2. state # "SKIP"
      BY <1>4 DEF Flush, StartSkip, StartMiss, Allocate, WriteBack
    <3> QED BY <3>1, <3>2 DEF answer, dresp
  <2> QED
    BY <1>4, <2>1, FlushView, StartView, AllocateView, WriteBackView
<1> QED BY <1>2, <1>3, <1>4 DEF CacheCycle

\* The same, in terms of the bench's master.
LEMMA TickView ==
  ASSUME RunningStep, Tick, LinesInv, IdleStoreDone
  PROVE  \/ /\ Accept /\ View' = Stored
            /\ dreq.strobe = {} => rdata' = View[dreq.addr]
         \/ (Await \/ NoRequest) /\ View' = View
<1>1. Await \/ Accept \/ NoRequest
  BY DEF Tick
<1>2. Accept => dreq.valid /\ answer.data_ok /\ rdata' = answer.data
  BY DEF Accept
<1>3. Await \/ NoRequest => ~(dreq.valid /\ answer.data_ok)
  BY DEF Await, NoRequest
<1> QED BY <1>1, <1>2, <1>3, CycleView

LEMMA IdleStoreStep ==
  ASSUME QuietMaster, RunningStep, LinesInv, IdleStoreDone
  PROVE  IdleStoreDone'
<1>1. View \in [Addr -> Word] /\ dreq \in DReq
  BY StepFacts, ViewType DEF CacheTypeOK
<1>2. CASE dreq.valid /\ ~answer.data_ok
  BY <1>2, StepFacts DEF Master, IdleStoreDone
<1>3. CASE dreq' \in Requests \cup IdleReqs
  BY <1>3, RequestAssumption DEF QuietMaster, IdleStoreDone
<1>4. CASE dreq' = [dreq EXCEPT !.valid = FALSE] /\ ~(dreq.valid /\ ~answer.data_ok)
  <2>1. /\ dreq'.addr = dreq.addr /\ dreq'.strobe = dreq.strobe
        /\ dreq'.data = dreq.data /\ dreq.addr \in Addr
    BY <1>1, <1>4 DEF DReq
  <2>2. CASE dreq.valid /\ View' = Stored
    <3>1. View'[dreq.addr] = Merge(View[dreq.addr], dreq.strobe, dreq.data)
      BY <1>1, <2>1, <2>2 DEF Stored
    <3>2. Merge(Merge(View[dreq.addr], dreq.strobe, dreq.data),
                dreq.strobe, dreq.data)
            = Merge(View[dreq.addr], dreq.strobe, dreq.data)
      BY DEF Merge
    <3> QED BY <2>1, <3>1, <3>2 DEF IdleStoreDone
  <2>3. CASE ~dreq.valid /\ View' = View
    BY <2>1, <2>3 DEF IdleStoreDone
  <2> QED BY <1>4, <2>2, <2>3, CycleView
<1>5. ~(dreq.valid /\ ~answer.data_ok) => dreq' \in NextReq
  BY StepFacts DEF Master
<1> QED BY <1>2, <1>3, <1>4, <1>5 DEF NextReq

LEMMA StutterView ==
  ASSUME UNCHANGED vars
  PROVE  View' = View
<1>1. UNCHANGED <<dreq, reset, state, meta_ram, data_ram, mem>>
  BY DEF vars, cacheVars, cacheRams, deviceVars
<1> QED BY <1>1 DEF View, Holds, index, tag

\* In a reset, and right after it, the master sees the memory the reset
\* restores.
LEMMA ResetView ==
  ASSUME ControlCore, ResetTick
  PROVE  View = InitMem /\ View' = InitMem
<1>1. reset /\ (reset' \/ mem' = InitMem)
  BY DEF ResetTick, ResetCycle, DeviceReset
<1>2. View = [a \in Addr |-> InitMem[a]]
  BY <1>1 DEF View
<1>3. ~reset' => \A i \in Index : Empty(i)'
  BY ResetTickFacts, ResetStep DEF ControlCore
<1>4. ASSUME NEW a \in Addr PROVE View'[a] = InitMem[a]
  <2>1. CASE reset'
    BY <2>1 DEF View
  <2>2. CASE ~reset'
    <3>1. \A w \in Way : ~Holds(a, w)'
      BY <1>3, <2>2 DEF Holds, Empty, Addr
    <3> QED BY <1>1, <2>2, <3>1 DEF View
  <2> QED BY <2>1, <2>2
<1>5. View' = [a \in Addr |-> InitMem[a]]
  BY <1>4, ViewDomain
<1> QED BY <1>2, <1>5, InitMemAssumption

LEMMA InvInit == Init => Inv
<1> SUFFICES ASSUME Init PROVE Inv
  OBVIOUS
<1>1. reset /\ dreq = DReq0
  BY DEF Init
<1> QED BY <1>1, InitControl DEF LinesCore, ResetQuiet, Inv

LEMMA InvStep ==
  ASSUME QuietMaster, Inv, [Next]_vars
  PROVE  Inv'
<1>1. LinesCore /\ LinesCore' /\ ControlCore
  BY LinesStep DEF Inv, LinesCore
<1>2. CASE Restart
  BY <1>1, <1>2 DEF Restart, ResetQuiet, Inv
<1>3. CASE ResetTick
  <2>1. dreq' = DReq0
    BY <1>3 DEF ResetTick, ResetCycle, Inv, ResetQuiet
  <2> QED BY <1>1, <2>1 DEF Inv, ResetQuiet, IdleStoreDone, DReq0
<1>4. CASE Tick
  <2>1. RunningStep
    BY <1>1, <1>4, TickRuns
  <2>2. IdleStoreDone'
    BY <1>1, <2>1, IdleStoreStep DEF RunningStep, Inv, LinesCore
  <2> QED BY <1>1, <2>1, <2>2 DEF RunningStep, Inv, ResetQuiet
<1>5. CASE UNCHANGED vars
  <2>1. dreq' = dreq /\ reset' = reset /\ View' = View
    BY <1>5, StutterView DEF vars
  <2> QED BY <1>1, <2>1 DEF Inv, ResetQuiet, IdleStoreDone
<1> QED BY <1>2, <1>3, <1>4, <1>5, NextCases

\* Every step of the bench is a step of one memory, or none.
LEMMA StepImplements ==
  ASSUME Inv, [Next]_vars
  PROVE  [Memory!MemoryNext]_Memory!memoryVars
<1>1. LinesCore /\ ControlCore
  BY DEF Inv, LinesCore
<1>2. CASE Restart
  <2>1. dreq' = DReq0 /\ reset' /\ rdata' = rdata
    BY <1>2 DEF Restart
  <2>2. View' = InitMem
    <3>1. View' = [a \in Addr |-> InitMem[a]]
      BY <2>1 DEF View
    <3> QED BY <3>1, InitMemAssumption
  <2> QED BY <2>1, <2>2 DEF Memory!MemoryNext, Memory!Restart, Memory!DReq0, DReq0,
         Memory!Addr0, Addr0, Memory!Word0, Word0
<1>3. CASE ResetTick
  <2>1. dreq' = dreq /\ rdata' = rdata
    BY <1>3 DEF ResetTick
  <2> QED BY <1>1, <1>3, <2>1, ResetView DEF Memory!memoryVars
<1>4. CASE Tick
  <2>1. RunningStep
    BY <1>1, <1>4, TickRuns
  <2>2. LinesInv /\ IdleStoreDone
    BY <2>1 DEF RunningStep, Inv, LinesCore
  <2>3. CASE /\ Accept /\ View' = Stored
             /\ dreq.strobe = {} => rdata' = View[dreq.addr]
    <3>1. rdata' \in Word
      <4>1. answer \in DResp
        BY <2>1, RespType, OutputTypes, StepFacts DEF answer
      <4> QED BY <2>3, <4>1 DEF Accept, DResp
    <3>2. dreq.valid /\ dreq' \in Memory!NextReq
      BY <2>3 DEF Accept, NextReq, Memory!NextReq
    <3>3. Memory!Answer
      BY <2>3, <3>1, <3>2
         DEF Stored, Memory!Answer, Memory!Word, Word, Memory!Merge, Merge
    <3> QED BY <3>3 DEF Memory!MemoryNext
  <2>4. CASE Await /\ View' = View
    BY <2>4 DEF Await, Memory!memoryVars
  <2>5. CASE NoRequest /\ View' = View
    <3>1. Memory!Quiet
      BY <2>5 DEF NoRequest, NextReq, Memory!NextReq, Memory!Quiet
    <3> QED BY <3>1 DEF Memory!MemoryNext
  <2> QED BY <1>4, <2>1, <2>2, <2>3, <2>4, <2>5, TickView
<1>5. CASE UNCHANGED vars
  BY <1>5, StutterView DEF vars, Memory!memoryVars
<1> QED BY <1>2, <1>3, <1>4, <1>5, NextCases

\* The bench with the cache implements one memory: each access takes effect
\* once, when it is answered, and a load returns what was stored last.  It
\* needs a master that drives no strobe without a request: without that the
\* run VCacheTopFake shows a store that nobody made.
THEOREM Implements == ASSUME QuietMaster PROVE Spec => ImplementsMemory
<1>1. Init => Memory!MemoryInit
  <2> SUFFICES ASSUME Init PROVE Memory!MemoryInit
    OBVIOUS
  <2>1. dreq = DReq0 /\ rdata = Word0 /\ reset
    BY DEF Init
  <2>2. View = InitMem
    <3>1. View = [a \in Addr |-> InitMem[a]]
      BY <2>1 DEF View
    <3> QED BY <3>1, InitMemAssumption
  <2> QED
    BY <2>1, <2>2
       DEF Memory!MemoryInit, Memory!DReq0, DReq0, Memory!Addr0, Addr0,
           Memory!Word0, Word0
<1>2. Inv /\ [Next]_vars => Inv'
  BY InvStep
<1>3. Inv /\ [Next]_vars => [Memory!MemoryNext]_Memory!memoryVars
  BY StepImplements
<1> QED
  BY <1>1, <1>2, <1>3, InvInit, PTL
     DEF Spec, ImplementsMemory, Memory!MemorySpec
=============================================================================
