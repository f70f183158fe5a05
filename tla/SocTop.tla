------------------------------- MODULE SocTop -------------------------------
(***************************************************************************)
(* The FPGA system, vivado/src/with_delay: the two caches and the arbiter  *)
(* of VTop.sv behind mycpu_top.sv, the crossbar that tells the block RAM   *)
(* from the device by addr[31], and the RAM's wrapper, which answers after *)
(* a delay, a write in the cycle it is made and a read one cycle later.    *)
(* The core is two masters that keep a request until it is answered.       *)
(***************************************************************************)
EXTENDS CBus

CONSTANTS
  InitMem,     \* the image in bram_0, and the words the device answers
  Fetches,     \* the addresses fetched from
  Requests,    \* the data requests made
  ResetTicks,  \* cycles the button is held
  BRAM_DELAY   \* cycles before the RAM takes a request

\* No fetch is to a device or to a line that is stored to.  A word has bytes:
\* the wrapper takes a write without a strobe for a read.
SocAssumption ==
  /\ Lane # {}
  /\ InitMem \in [Addr -> Word]
  /\ Fetches \subseteq Addr /\ \A a \in Fetches : ~Uncached(a)
  /\ Requests \subseteq DReq /\ \A r \in Requests : r.valid
  /\ \A a \in Fetches, r \in Requests :
       r.strobe # {} => <<a.tag, a.index>> # <<r.addr.tag, r.addr.index>>
  /\ ResetTicks \in Nat /\ ResetTicks > SetNum
  /\ BRAM_DELAY \in Nat

VARIABLES
  left,                                                   \* cycles of reset left
  ireq, istate, ioffset_cnt, idata_ram, imeta_ram, iage_ram,  \* ICache
  dreq, dstate, doffset_cnt, ddata_ram, dmeta_ram, dage_ram,  \* DCache
  busy, index,                                            \* CBusArbiter
  mem, douta,                                             \* bram_0
  counter, real_valid, burst_counter, ready_read, last_read,  \* bram_wrapper
  device_ready, out                                       \* device, its last word

icacheVars  == <<istate, ioffset_cnt, idata_ram, imeta_ram, iage_ram>>
dcacheVars  == <<dstate, doffset_cnt, ddata_ram, dmeta_ram, dage_ram>>
arbiterVars == <<busy, index>>
bramVars    == <<mem, douta, counter, real_valid, burst_counter, ready_read, last_read>>
deviceVars  == <<device_ready, out>>
vars == <<left, ireq, icacheVars, dreq, dcacheVars, arbiterVars, bramVars, deviceVars>>

reset == left > 0

I == INSTANCE DCache WITH
       dreq <- [valid |-> ireq.valid, addr |-> ireq.addr, strobe |-> {}, data |-> Word0],
       state <- istate, offset_cnt <- ioffset_cnt, data_ram <- idata_ram,
       meta_ram <- imeta_ram, age_ram <- iage_ram

D == INSTANCE DCache WITH
       state <- dstate, offset_cnt <- doffset_cnt, data_ram <- ddata_ram,
       meta_ram <- dmeta_ram, age_ram <- dage_ram

Arbiter == INSTANCE CBusArbiter WITH NUM_INPUTS <- 2

ireqs == [i \in {0, 1} |-> IF i = 0 THEN D!creq ELSE I!creq]

oreq == Arbiter!oreq(ireqs)

\* Mutant: the strobe of a read is not cleared.
wstrobeAlways == oreq.strobe

wstrobe == IF oreq.is_write THEN oreq.strobe ELSE {}

-----------------------------------------------------------------------------
(* The RAM's wrapper                                                       *)

ram_valid == oreq.valid /\ ~Uncached(oreq.addr)

is_incr == oreq.len = WordsPerLine  \* and AXI_BURST_INCR

last_write == real_valid /\ (is_incr => burst_counter = oreq.len - 1)

ram_ready == IF wstrobe # {} THEN real_valid ELSE ready_read
ram_last  == IF wstrobe # {} THEN last_write ELSE last_read

\* One word past the line is read in the cycle the last one is answered.
InLine == oreq.addr.offset + burst_counter < WordsPerLine
burst_addr == [oreq.addr EXCEPT !.offset = @ + burst_counter]

\* bram_0: a word a cycle when enabled.
Bram ==
  IF real_valid
  THEN IF InLine
       THEN /\ douta' = mem[burst_addr]
            /\ mem' = [mem EXCEPT ![burst_addr] = Merge(@, wstrobe, oreq.data)]
       ELSE douta' \in Word /\ UNCHANGED mem
  ELSE UNCHANGED <<mem, douta>>

BramWrapper ==
  /\ Bram
  /\ counter' = IF reset \/ ~ram_valid \/ ram_last THEN 0
                ELSE IF counter # BRAM_DELAY THEN counter + 1 ELSE counter
  /\ real_valid' = (~reset /\ counter = BRAM_DELAY /\ ram_valid /\ ~ram_last)
  /\ burst_counter' = IF real_valid /\ is_incr /\ ~reset THEN burst_counter + 1 ELSE 0
  /\ ready_read' = real_valid
  /\ last_read' = last_write

-----------------------------------------------------------------------------
(* The crossbar and the device                                             *)

device_valid == oreq.valid /\ Uncached(oreq.addr)

\* addr[31] alone chooses, also when nothing is asked: the bus is then 0.
cresp ==
  IF ~Uncached(oreq.addr)
  THEN [ready |-> ram_ready, last |-> ram_last, data |-> douta]
  ELSE [ready |-> device_ready, last |-> device_ready, data |-> InitMem[oreq.addr]]

\* The device is ready in whatever cycles its transmitter is idle in, and
\* takes the word of a write.
Device ==
  /\ device_ready' \in BOOLEAN
  /\ out' = IF device_valid /\ wstrobe # {} /\ device_ready
            THEN oreq.data ELSE out

dcresp == Arbiter!iresps(cresp)[0]
icresp == Arbiter!iresps(cresp)[1]
iresp  == I!dresp(icresp)
dresp  == D!dresp(dcresp)

-----------------------------------------------------------------------------
(* A cycle of cpu_clk                                                      *)

Masters ==
  /\ ireq' \in IF ireq.valid /\ ~iresp.data_ok THEN {ireq}
               ELSE [valid : {TRUE}, addr : Fetches]
  /\ dreq' \in IF dreq.valid /\ ~dresp.data_ok THEN {dreq}
               ELSE Requests \cup {D!DReq0}

Tick ==
  /\ ~reset
  /\ I!CacheCycle(icresp) /\ D!CacheCycle(dcresp)
  /\ Arbiter!ArbiterCycle(ireqs, cresp)
  /\ BramWrapper /\ Device /\ Masters
  /\ UNCHANGED left

ResetTick ==
  /\ reset
  /\ I!ResetCycle(icresp) /\ D!ResetCycle(dcresp)
  /\ Arbiter!ArbiterReset
  /\ BramWrapper /\ Device
  /\ left' = left - 1
  /\ UNCHANGED <<ireq, dreq>>

Init ==
  /\ left = ResetTicks
  /\ ireq = [valid |-> FALSE, addr |-> Addr0] /\ dreq = D!DReq0
  /\ I!CacheInit /\ D!CacheInit
  /\ Arbiter!ArbiterInit
  /\ mem = InitMem /\ douta = Word0
  /\ counter = 0 /\ real_valid = FALSE /\ burst_counter = 0
  /\ ready_read = FALSE /\ last_read = FALSE
  /\ device_ready = TRUE /\ out = Word0

Next == Tick \/ ResetTick

Spec == Init /\ [][Next]_vars

-----------------------------------------------------------------------------
(* Properties                                                              *)

\* What the data cache's master should see at an address.
View ==
  [a \in Addr |->
     LET ways == {w \in D!Way : /\ dmeta_ram[a.index][w].valid
                                /\ dmeta_ram[a.index][w].tag = a.tag
                                /\ dstate = "ALLOCATE" =>
                                     <<a.tag, a.index>> # <<D!tag, D!index>>}
     IN IF ways # {} THEN ddata_ram[a.index][D!LastOf(ways)][a.offset]
        ELSE mem[a]]

\* The delay and burst counters, the read answered one cycle late and the
\* answer the wrapper still gives after the end of a write
\* (bram_wrapper.sv:19-68) never put a word in the wrong place: a fetch gets
\* its instruction, a load its word, a store changes its word or reaches the
\* device, and nothing else does.
MemoryRight ==
  [][~reset =>
       /\ ireq.valid /\ iresp.data_ok => iresp.data = InitMem[ireq.addr]
       /\ LET done  == dreq.valid /\ dresp.data_ok
              store == done /\ dreq.strobe # {}
          IN  /\ done /\ ~store => dresp.data = View[dreq.addr]
              /\ View' = IF store /\ ~Uncached(dreq.addr)
                         THEN [View EXCEPT ![dreq.addr] = Merge(@, dreq.strobe, dreq.data)]
                         ELSE View
              /\ out' = IF store /\ Uncached(dreq.addr) THEN dreq.data ELSE out]_vars
=============================================================================
