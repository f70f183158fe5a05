------------------------------- MODULE DCache -------------------------------
(***************************************************************************)
(* vsrc/cache/DCache.sv, the write-back, write-allocate data cache (the    *)
(* instruction cache wraps the same module).  One action is one clock      *)
(* cycle in one state of the FSM: the next state, and what the three RAMs  *)
(* are given to write in that cycle.  Outputs (dresp, creq) are functions  *)
(* of the current state and inputs, as in the combinational blocks.        *)
(***************************************************************************)
EXTENDS CBus

VARIABLES
  dreq,        \* input: the request the master drives
  reset,       \* input: the synchronous reset
  state,       \* the FSM
  offset_cnt,  \* word counter of a burst; in FLUSH the set being cleared
  data_ram,    \* data_ram[set][way][offset]
  meta_ram,    \* meta_ram[set][way]
  age_ram      \* age_ram[set][way], one bit

cacheRams == <<data_ram, meta_ram, age_ram>>
cacheVars == <<state, offset_cnt, cacheRams>>

Way    == 0 .. 1
States == {"IDLE", "ALLOCATE", "WRITE_BACK", "SKIP", "FLUSH"}
Meta   == [valid : BOOLEAN, dirty : BOOLEAN, tag : Tag]
Meta0  == [valid |-> FALSE, dirty |-> FALSE, tag |-> Tag0]

\* What is left of a loop over the ways that keeps the last match, from 0.
LastOf(ways) == IF 1 \in ways THEN 1 ELSE 0

tag    == dreq.addr.tag
index  == dreq.addr.index
offset == dreq.addr.offset

\* Mutant: a flush clears the set of the request.
meta_addrNoWalk == index

meta_addr == IF state = "FLUSH" THEN offset_cnt % SetNum ELSE index

ram_rmeta == meta_ram[meta_addr]
ram_rage  == age_ram[meta_addr]

\* Mutant: the hit test does not look at the valid bit.
hitWaysAnyValid == {w \in Way : ram_rmeta[w].tag = tag}

hitWays == {w \in Way : ram_rmeta[w].valid /\ ram_rmeta[w].tag = tag}
hit     == hitWays # {}

\* Mutant: the ages are not looked at.
victimsNoAge == {w \in Way : ~ram_rmeta[w].valid}

victims == {w \in Way : ~ram_rmeta[w].valid \/ ram_rage[w] = 1}

\* Mutant: the way being filled is looked up as a victim each cycle.
positionNoHit == LastOf(victims)

position == IF hit THEN LastOf(hitWays) ELSE LastOf(victims)

\* The ages a hit writes: the way hit becomes 0, younger or equal ones age
\* by one, in one bit.
wage == [w \in Way |->
           IF w = position THEN 0
           ELSE IF ram_rage[w] <= ram_rage[position] THEN (ram_rage[w] + 1) % 2
           ELSE ram_rage[w]]

cnt_nxt == (offset_cnt + 1) % WordsPerLine

-----------------------------------------------------------------------------
(* Outputs                                                                 *)

\* The word the data RAM reads in this cycle.
ram_rdata ==
  IF state \in {"ALLOCATE", "WRITE_BACK"}
  THEN data_ram[index][position][offset_cnt]
  ELSE data_ram[index][position][offset]

\* Mutant: a device access is never answered.
drespNoSkip(cresp) ==
  [addr_ok |-> state = "IDLE",
   data_ok |-> state = "IDLE" /\ hit,
   data    |-> IF state = "SKIP" THEN cresp.data ELSE ram_rdata]

dresp(cresp) ==
  [addr_ok |-> state = "IDLE",
   data_ok |-> (state = "IDLE" /\ hit) \/ (state = "SKIP" /\ cresp.last),
   data    |-> IF state = "SKIP" THEN cresp.data ELSE ram_rdata]

creq_addr ==
  CASE state = "ALLOCATE"   -> [tag |-> tag, index |-> index, offset |-> 0]
    [] state = "WRITE_BACK" -> [tag |-> ram_rmeta[position].tag,
                                index |-> index, offset |-> 0]
    [] state = "SKIP"       -> dreq.addr
    [] OTHER                -> Addr0

creq ==
  [valid    |-> state \in {"ALLOCATE", "WRITE_BACK", "SKIP"},
   is_write |-> state = "WRITE_BACK" \/ (state = "SKIP" /\ dreq.strobe # {}),
   addr     |-> creq_addr,
   strobe   |-> IF state = "SKIP" THEN dreq.strobe ELSE Lane,
   data     |-> IF state = "SKIP" THEN dreq.data ELSE ram_rdata,
   len      |-> IF state = "SKIP" THEN 1 ELSE WordsPerLine]

-----------------------------------------------------------------------------
(* What the RAMs are given to write in a cycle                             *)

\* A hit writes the ages in every state, whether or not dreq.valid.
TouchAges ==
  age_ram' = IF reset THEN [age_ram EXCEPT ![meta_addr] = [w \in Way |-> 0]]
             ELSE IF hit THEN [age_ram EXCEPT ![meta_addr] = wage]
             ELSE age_ram

ClearSet ==
  /\ state = "FLUSH"
  /\ meta_ram' = [meta_ram EXCEPT ![meta_addr] = [w \in Way |-> Meta0]]
  /\ UNCHANGED data_ram

\* As in the code, the write of a hit does not look at dreq.valid.
StoreHit == state = "IDLE" /\ hit /\ dreq.strobe # {}

\* Mutant: the store ignores the strobe.
WriteWordWhole ==
  /\ StoreHit
  /\ data_ram' = [data_ram EXCEPT ![index][position][offset] = dreq.data]
  /\ meta_ram' = [meta_ram EXCEPT ![index][position].dirty = TRUE]

WriteWord ==
  /\ StoreHit
  /\ data_ram' = [data_ram EXCEPT ![index][position][offset] =
                    Merge(@, dreq.strobe, dreq.data)]
  /\ meta_ram' = [meta_ram EXCEPT ![index][position].dirty = TRUE]

\* Every ALLOCATE cycle writes the word on the bus, arrived or not, and
\* claims the way.
FillWord(cresp) ==
  /\ state = "ALLOCATE"
  /\ data_ram' = [data_ram EXCEPT ![index][position][offset_cnt] = cresp.data]
  /\ meta_ram' = [meta_ram EXCEPT ![index][position] =
                    [valid |-> TRUE, dirty |-> FALSE, tag |-> tag]]

KeepRams ==
  /\ state \in {"IDLE", "WRITE_BACK", "SKIP"}
  /\ ~StoreHit
  /\ UNCHANGED <<data_ram, meta_ram>>

Rams(cresp) ==
  /\ TouchAges
  /\ ClearSet \/ WriteWord \/ FillWord(cresp) \/ KeepRams

-----------------------------------------------------------------------------
(* The FSM                                                                 *)

ResetCycle(cresp) ==
  /\ reset
  /\ state' = "FLUSH"
  /\ offset_cnt' = cnt_nxt
  /\ Rams(cresp)

Flush(cresp) ==
  /\ ~reset /\ state = "FLUSH"
  /\ state' = "IDLE"
  /\ UNCHANGED offset_cnt
  /\ Rams(cresp)

\* No request, or a hit: the cache answers in this cycle and stays in IDLE.
Idle(cresp) ==
  /\ ~reset /\ state = "IDLE"
  /\ dreq.valid => ~Uncached(dreq.addr) /\ hit
  /\ UNCHANGED <<state, offset_cnt>>
  /\ Rams(cresp)

StartSkip(cresp) ==
  /\ ~reset /\ state = "IDLE"
  /\ dreq.valid /\ Uncached(dreq.addr)
  /\ state' = "SKIP"
  /\ UNCHANGED offset_cnt
  /\ Rams(cresp)

\* Mutant: the victim is dropped, dirty or not.
StartMissNoWriteBack(cresp) ==
  /\ ~reset /\ state = "IDLE"
  /\ dreq.valid /\ ~Uncached(dreq.addr) /\ ~hit
  /\ state' = "ALLOCATE"
  /\ offset_cnt' = 0
  /\ Rams(cresp)

StartMiss(cresp) ==
  /\ ~reset /\ state = "IDLE"
  /\ dreq.valid /\ ~Uncached(dreq.addr) /\ ~hit
  /\ state' = IF ram_rmeta[position].valid /\ ram_rmeta[position].dirty
              THEN "WRITE_BACK" ELSE "ALLOCATE"
  /\ offset_cnt' = 0
  /\ Rams(cresp)

Allocate(cresp) ==
  /\ ~reset /\ state = "ALLOCATE"
  /\ state' = IF cresp.ready /\ cresp.last THEN "IDLE" ELSE "ALLOCATE"
  /\ offset_cnt' = IF cresp.ready THEN cnt_nxt ELSE offset_cnt
  /\ Rams(cresp)

WriteBack(cresp) ==
  /\ ~reset /\ state = "WRITE_BACK"
  /\ state' = IF cresp.ready /\ cresp.last THEN "ALLOCATE" ELSE "WRITE_BACK"
  /\ offset_cnt' = IF cresp.ready THEN cnt_nxt ELSE offset_cnt
  /\ Rams(cresp)

Skip(cresp) ==
  /\ ~reset /\ state = "SKIP"
  /\ state' = IF cresp.last THEN "IDLE" ELSE "SKIP"
  /\ UNCHANGED offset_cnt
  /\ Rams(cresp)

\* Power-on of the simulation: every register and RAM is zero.
CacheInit ==
  /\ state = "IDLE"
  /\ offset_cnt = 0
  /\ data_ram = [i \in Index |-> [w \in Way |-> [o \in Offset |-> Word0]]]
  /\ meta_ram = [i \in Index |-> [w \in Way |-> Meta0]]
  /\ age_ram = [i \in Index |-> [w \in Way |-> 0]]

CacheCycle(cresp) ==
  \/ Flush(cresp)
  \/ Idle(cresp)
  \/ StartSkip(cresp)
  \/ StartMiss(cresp)
  \/ Allocate(cresp)
  \/ WriteBack(cresp)
  \/ Skip(cresp)

CacheTypeOK ==
  /\ dreq \in DReq
  /\ reset \in BOOLEAN
  /\ state \in States
  /\ offset_cnt \in Offset
  /\ data_ram \in [Index -> [Way -> [Offset -> Word]]]
  /\ meta_ram \in [Index -> [Way -> Meta]]
  /\ age_ram \in [Index -> [Way -> 0 .. 1]]
=============================================================================
