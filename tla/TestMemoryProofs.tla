-------------------------- MODULE TestMemoryProofs --------------------------
(***************************************************************************)
(* Theorems about memory as the tests see it, for every value of the       *)
(* constants: the one-line cache agrees with the model it is compared      *)
(* with, accesses of every unit and width touch the bytes they should,     *)
(* cells are variables, and the pipelined bus runs its tasks in order.     *)
(***************************************************************************)
EXTENDS MCTestMemory, Sequences, WellFoundedInduction, TLAPS

-----------------------------------------------------------------------------
(* RefCache: the inductive invariant                                       *)

LineTypes ==
  /\ dreq \in DReq /\ req \in DReq
  /\ state \in {"IDLE", "FETCH", "READY", "FLUSH"}
  /\ offset \in Offset
  /\ ram \in [Offset -> Word] /\ buffer \in [Offset -> Word]
  /\ refMem \in [Addr -> Word]
  /\ DeviceTypeOK

LineAt(o) == [req.addr EXCEPT !.offset = o]

InLine(a) == a.tag = req.addr.tag /\ a.index = req.addr.index

\* The beats of the burst that are over, and the one that moves a word: the
\* burst begins with the word of the request and wraps.
Beats == IF tx.busy THEN tx.n - 1 ELSE 0

Turn(first, o) == IF o >= first THEN o - first ELSE o - first + WordsPerLine

Moved(o) == Turn(req.addr.offset, o) < Beats

\* The running transaction is the line's, and the offset is the word of its
\* beat.
Burst ==
  /\ tx.busy =>
       /\ state \in {"FETCH", "FLUSH"} /\ (tx.is_write <=> state = "FLUSH")
       /\ tx.start = req.addr /\ tx.len = WordsPerLine
       /\ tx.n \in 1 .. WordsPerLine
  /\ state # "IDLE" => Turn(req.addr.offset, offset) = Beats

\* What a fill has brought is memory's; before the flush memory is the
\* model's, and during it in all but the words still to be written.
Contents ==
  /\ state \in {"FETCH", "READY"} => dreq = req /\ dreq.valid
  /\ state # "FLUSH" => refMem = mem
  /\ \A o \in Offset :
       state = "READY" \/ (state = "FETCH" /\ Moved(o)) => ram[o] = mem[LineAt(o)]
  /\ state = "FLUSH" =>
       /\ \A o \in Offset : ram[o] = refMem[LineAt(o)]
       /\ \A a \in Addr : ~InLine(a) \/ Moved(a.offset) => mem[a] = refMem[a]

LineInv == LineTypes /\ Burst /\ Contents /\ ~failed

-----------------------------------------------------------------------------
(* RefCache: arithmetic and types                                          *)

\* The sizes are usable, and the zeros of the types belong to them.
LEMMA LineSizes ==
  /\ WordsPerLine \in Nat \ {0} /\ 0 \in Offset
  /\ Addr0 \in Addr /\ Word0 \in Word /\ DReq0 \in DReq /\ Tx0 \in Tx
<1>1. WordsPerLine \in Nat \ {0} /\ SetNum \in Nat \ {0}
  BY SizeAssumption
<1>2. 0 \in Offset /\ 0 \in Index
  BY <1>1 DEF Offset, Index
<1>3. Addr0 \in Addr /\ Word0 \in Word
  BY <1>2, TagAssumption, ByteAssumption DEF Addr0, Addr, Word0, Word
<1> QED
  BY <1>1, <1>2, <1>3 DEF DReq0, DReq, Strobe, Tx0, Tx

\* A sum of two offsets, reduced.
LEMMA Wrapped ==
  ASSUME NEW x \in Offset, NEW y \in Offset
  PROVE  (x + y) % WordsPerLine
           = IF x + y < WordsPerLine THEN x + y ELSE x + y - WordsPerLine
  BY LineSizes DEF Offset

\* The turns of the offsets of a line count its words from the first one on,
\* and the next offset has the next turn.
LEMMA TurnFacts ==
  ASSUME NEW first \in Offset, NEW o \in Offset
  PROVE  /\ Turn(first, o) \in Offset /\ Turn(first, first) = 0
         /\ \A x \in Offset : Turn(first, x) = Turn(first, o) => x = o
         /\ (first + Turn(first, o)) % WordsPerLine = o
         /\ NextOffset(o) \in Offset
         /\ Turn(first, NextOffset(o))
              = IF Turn(first, o) = WordsPerLine - 1 THEN 0 ELSE Turn(first, o) + 1
<1>1. WordsPerLine \in Nat \ {0} /\ first \in 0 .. WordsPerLine - 1 /\ o \in 0 .. WordsPerLine - 1
  BY LineSizes DEF Offset
<1>2. /\ Turn(first, o) \in Offset /\ Turn(first, first) = 0
      /\ \A x \in Offset : Turn(first, x) = Turn(first, o) => x = o
  BY <1>1 DEF Turn, Offset
<1>3. (first + Turn(first, o)) % WordsPerLine = o
  <2>1. (first + Turn(first, o)) % WordsPerLine
          = IF first + Turn(first, o) < WordsPerLine THEN first + Turn(first, o)
            ELSE first + Turn(first, o) - WordsPerLine
    BY <1>2, Wrapped
  <2> QED
    BY <1>1, <2>1 DEF Turn
<1>4. NextOffset(o) = IF o + 1 = WordsPerLine THEN 0 ELSE o + 1
  <2>1. CASE o + 1 = WordsPerLine
    BY <1>1, <2>1 DEF NextOffset
  <2>2. CASE o + 1 # WordsPerLine
    BY <1>1, <2>2 DEF NextOffset
  <2> QED BY <2>1, <2>2
<1>5. QED
  BY <1>1, <1>2, <1>3, <1>4 DEF Turn, Offset

\* A merged word is a word, and merging nothing changes nothing.
LEMMA MergeFacts ==
  ASSUME NEW old \in Word, NEW s, NEW d \in Word
  PROVE  /\ Merge(old, s, d) \in Word
         /\ Merge(old, {}, d) = old
         /\ Merge(old, Lane, d) = d
  BY DEF Merge, Word

\* The addresses of the line.
LEMMA LineFacts ==
  ASSUME LineTypes
  PROVE  /\ req.addr \in Addr /\ req.addr.offset \in Offset
         /\ LineAt(req.addr.offset) = req.addr
         /\ \A o \in Offset : /\ LineAt(o) \in Addr /\ LineAt(o).offset = o /\ InLine(LineAt(o))
         /\ \A a \in Addr : InLine(a) => a = LineAt(a.offset)
  BY DEF LineTypes, DReq, Addr, LineAt, InLine

\* The word of the device's beat is the one the cache has its offset at.
LEMMA BeatAddress ==
  ASSUME LineTypes, Burst, tx.busy
  PROVE  txAddr = LineAt(offset)
<1>1. /\ offset \in Offset /\ req.addr.offset \in Offset
      /\ tx.start = req.addr /\ tx.n - 1 = Turn(req.addr.offset, offset)
      /\ tx.n \in Nat
  BY LineFacts DEF LineTypes, Burst, Beats, DeviceTypeOK, Tx
<1>2. (req.addr.offset + Turn(req.addr.offset, offset)) % WordsPerLine = offset
  BY <1>1, TurnFacts
<1>3. req.addr.offset + tx.n - 1 = req.addr.offset + Turn(req.addr.offset, offset)
  BY <1>1 DEF Offset
<1>4. QED
  BY <1>1, <1>2, <1>3 DEF txAddr, LineAt

-----------------------------------------------------------------------------
(* RefCache: the actions                                                   *)

\* Before the first test the line and the bus are idle.
LEMMA LineInit == Init => LineInv
<1> SUFFICES ASSUME Init PROVE LineInv
  OBVIOUS
<1>1. [o \in Offset |-> Word0] \in [Offset -> Word]
  BY LineSizes
<1>2. LineTypes
  BY <1>1, LineSizes, InitMemAssumption DEF Init, DeviceInit, LineTypes, DeviceTypeOK
<1>3. Burst /\ Contents
  BY DEF Init, DeviceInit, Burst, Contents, Tx0
<1> QED BY <1>2, <1>3 DEF LineInv, Init

\* A request of the test, while the line is idle or still flushing.
LEMMA IssueInv ==
  ASSUME LineInv, NEW a \in Accesses, Issue(a)
  PROVE  LineInv'
<1>1. dreq' \in DReq
  BY AccessesAssumption DEF Issue, DReq
<1>2. LineTypes'
  BY <1>1 DEF Issue, lineVars, refVars, deviceVars, LineInv, LineTypes, DeviceTypeOK
<1>3. Burst'
  BY DEF Issue, lineVars, deviceVars, LineInv, Burst, Beats
<1>4. Contents'
  BY DEF Issue, lineVars, refVars, deviceVars, LineInv, Contents, Moved, Beats, LineAt, InLine
<1> QED BY <1>2, <1>3, <1>4 DEF LineInv, Issue, refVars

\* The reset of a test, also of one that ends in the middle of a flush.
LEMMA NextTestInv ==
  ASSUME LineInv, NextTest
  PROVE  LineInv'
<1>1. LineTypes'
  BY LineSizes, InitMemAssumption
     DEF NextTest, DeviceReset, LineInv, LineTypes, DeviceTypeOK
<1>2. Burst' /\ Contents'
  BY DEF NextTest, DeviceReset, Burst, Contents, Tx0
<1> QED BY <1>1, <1>2 DEF LineInv, NextTest

\* Nothing happens on the bus while the line is idle.
LEMMA IdleInv ==
  ASSUME LineInv, Tick, state = "IDLE"
  PROVE  LineInv'
<1>1. ~tx.busy /\ ~creq.valid
  BY DEF LineInv, Burst, creq
<1>2. DeviceIdle(creq)
  BY <1>1 DEF Tick, DeviceCycle, DeviceStart, DeviceBeat
<1>3. Accept /\ UNCHANGED <<dreq, refVars>>
  BY DEF Tick, LineCycle, data_ok
<1>4. LineTypes'
  BY <1>2, <1>3
     DEF DeviceIdle, Accept, start, lineVars, refVars, LineInv, LineTypes, DeviceTypeOK, DReq, Addr
<1>5. Burst'
  <2>1. CASE dreq.valid
    <3>1. dreq.addr.offset \in Offset
      BY DEF LineInv, LineTypes, DReq, Addr
    <3>2. req' = dreq /\ offset' = dreq.addr.offset /\ ~tx'.busy
      BY <1>1, <1>2, <1>3, <2>1 DEF Accept, start, DeviceIdle
    <3> QED BY <3>1, <3>2, TurnFacts DEF Burst, Beats
  <2>2. CASE ~dreq.valid
    BY <1>1, <1>2, <1>3, <2>2 DEF DeviceIdle, Accept, lineVars, Burst
  <2> QED BY <2>1, <2>2
<1>6. Contents'
  <2>1. CASE dreq.valid
    <3>1. dreq.addr.offset \in Offset
      BY DEF LineInv, LineTypes, DReq, Addr
    <3>2. /\ req' = dreq /\ dreq' = dreq /\ state' = "FETCH" /\ ~tx'.busy
          /\ refMem' = refMem /\ mem' = mem
      BY <1>1, <1>2, <1>3, <2>1 DEF Accept, start, DeviceIdle, refVars
    <3>3. \A o \in Offset : ~Moved(o)'
      <4>1. \A o \in Offset : Turn(dreq.addr.offset, o) \in Offset
        BY <3>1, TurnFacts
      <4> QED BY <3>2, <4>1 DEF Moved, Beats, Offset
    <3> QED BY <2>1, <3>2, <3>3 DEF LineInv, Contents
  <2>2. CASE ~dreq.valid
    BY <1>1, <1>2, <1>3, <2>2 DEF DeviceIdle, Accept, lineVars, refVars, LineInv, Contents
  <2> QED BY <2>1, <2>2
<1> QED BY <1>3, <1>4, <1>5, <1>6 DEF refVars, LineInv

\* A cycle of a burst in which no word is moved: the device is not enabled, or
\* takes the request.
QuietCycle ==
  /\ ~cresp.ready /\ cresp.data \in Word
  /\ UNCHANGED mem /\ tx' \in Tx /\ enable' \in BOOLEAN
  /\ tx' = tx \/ (~tx.busy /\ tx' = TxOf(creq))

\* A cycle in which the word at the offset is moved.
WordCycle ==
  /\ cresp.ready /\ tx.busy /\ (cresp.last <=> tx.n = WordsPerLine)
  /\ ~tx.is_write => cresp.data = mem[LineAt(offset)]
  /\ tx' \in Tx /\ enable' \in BOOLEAN
  /\ tx' = IF cresp.last THEN Tx0 ELSE [tx EXCEPT !.n = @ + 1]
  /\ mem' = IF tx.is_write
            THEN [mem EXCEPT ![LineAt(offset)] = ram[offset]]
            ELSE mem

\* The cycles of a burst are of these kinds.
LEMMA BurstCycles ==
  ASSUME LineInv, Tick, state \in {"FETCH", "FLUSH"}
  PROVE  QuietCycle \/ WordCycle
<1>1. /\ LineTypes /\ Burst /\ DeviceCycle(creq)
      /\ creq.valid /\ creq.strobe = Lane /\ creq.data = ram[offset]
      /\ creq.addr = req.addr /\ creq.is_write \in BOOLEAN /\ creq.len = WordsPerLine
  BY DEF Tick, LineInv, creq
<1>2. tx \in Tx /\ tx.n \in Nat /\ Tx0 \in Tx /\ TxOf(creq) \in Tx
  <2>1. req.addr \in Addr /\ WordsPerLine \in Nat
    BY <1>1, LineFacts, LineSizes
  <2> QED BY <1>1, <2>1, LineSizes DEF LineTypes, DeviceTypeOK, Tx, TxOf
<1>3. CASE ~enable \/ ~tx.busy
  <2>1. cresp = CResp0
    BY <1>3 DEF cresp
  <2>2. DeviceIdle(creq) \/ DeviceStart(creq)
    BY <1>1, <1>3 DEF DeviceCycle, DeviceBeat
  <2> QED
    BY <1>2, <2>1, <2>2, LineSizes DEF CResp0, DeviceIdle, DeviceStart, QuietCycle
<1>4. CASE enable /\ tx.busy
  <2>1. DeviceBeat(creq)
    BY <1>1, <1>4 DEF DeviceCycle, DeviceIdle, DeviceStart
  <2>2. txAddr = LineAt(offset) /\ LineAt(offset) \in Addr /\ tx.len = WordsPerLine
    BY <1>1, <1>4, BeatAddress, LineFacts DEF LineTypes, Burst
  <2>3. cresp.ready /\ (cresp.last <=> tx.n = WordsPerLine) /\ cresp.last = txLast
        /\ (~tx.is_write => cresp.data = mem[LineAt(offset)])
    BY <1>4, <2>2 DEF cresp, txLast
  <2>4. mem[LineAt(offset)] \in Word /\ ram[offset] \in Word
    BY <1>1, <2>2 DEF LineTypes, DeviceTypeOK
  <2>5. [tx EXCEPT !.n = @ + 1] \in Tx
    BY <1>2 DEF Tx
  <2>6. tx' = (IF cresp.last THEN Tx0 ELSE [tx EXCEPT !.n = @ + 1]) /\ enable' \in BOOLEAN
    BY <2>1, <2>3 DEF DeviceBeat
  <2>7. mem' = IF tx.is_write THEN [mem EXCEPT ![LineAt(offset)] = ram[offset]] ELSE mem
    BY <1>1, <2>1, <2>2, <2>4, MergeFacts DEF DeviceBeat
  <2> QED
    BY <1>2, <1>4, <2>3, <2>5, <2>6, <2>7 DEF WordCycle
<1> QED BY <1>3, <1>4

\* What stays in every cycle of a burst.
LEMMA BurstFrame ==
  ASSUME LineInv, Tick, state \in {"FETCH", "FLUSH"}
  PROVE  /\ UNCHANGED <<dreq, refMem, buffer, failed, req>>
         /\ IF cresp.ready
            THEN /\ offset' = NextOffset(offset)
                 /\ state' = IF ~cresp.last THEN state
                             ELSE IF state = "FETCH" THEN "READY" ELSE "IDLE"
            ELSE UNCHANGED <<state, offset>>
         /\ ram' = IF state = "FETCH" THEN [ram EXCEPT ![offset] = cresp.data] ELSE ram
<1>1. UNCHANGED <<dreq, refVars>>
  BY DEF Tick, data_ok
<1>2. IF state = "FETCH" THEN Beat("READY") ELSE Beat("IDLE")
  BY DEF Tick, LineCycle
<1> QED BY <1>1, <1>2 DEF refVars, Beat

\* A quiet cycle of a burst.
LEMMA QuietInv ==
  ASSUME LineInv, Tick, state \in {"FETCH", "FLUSH"}, QuietCycle
  PROVE  LineInv'
<1>1. /\ UNCHANGED <<dreq, refMem, buffer, failed, req, state, offset, mem>>
      /\ ram' = IF state = "FETCH" THEN [ram EXCEPT ![offset] = cresp.data] ELSE ram
  BY BurstFrame DEF QuietCycle
<1>2. LineTypes /\ Burst /\ Contents /\ ~failed
  BY DEF LineInv
<1>3. LineTypes'
  BY <1>1, <1>2 DEF QuietCycle, LineTypes, DeviceTypeOK
<1>4. tx'.busy => /\ tx'.is_write <=> state = "FLUSH"
                  /\ tx'.start = req.addr /\ tx'.len = WordsPerLine
                  /\ tx'.n \in 1 .. WordsPerLine
  <2>1. CASE tx' = tx
    BY <1>2, <2>1 DEF Burst
  <2>2. CASE tx' = TxOf(creq)
    <3>1. /\ tx'.start = req.addr /\ tx'.len = WordsPerLine /\ tx'.n = 1
          /\ tx'.is_write = (state = "FLUSH")
      BY <2>2 DEF TxOf, creq
    <3>2. tx'.is_write <=> state = "FLUSH"
      BY <3>1
    <3>3. 1 \in 1 .. WordsPerLine
      BY LineSizes
    <3> QED BY <3>1, <3>2, <3>3
  <2> QED BY <2>1, <2>2 DEF QuietCycle
<1>5. Beats' = Beats
  BY LineSizes DEF QuietCycle, Beats, TxOf
<1>6. Burst'
  BY <1>1, <1>2, <1>4, <1>5 DEF Burst
<1>7. Contents'
  <2>1. \A o \in Offset : Moved(o)' <=> Moved(o)
    BY <1>1, <1>5 DEF Moved
  <2>2. ~Moved(offset)
    BY <1>2, LineSizes DEF Burst, Moved, Beats, LineTypes, DeviceTypeOK, Tx
  <2>3. \A o \in Offset : Moved(o) => ram'[o] = ram[o]
    BY <1>1, <1>2, <2>2 DEF LineTypes
  <2>4. \A a \in Addr : a.offset \in Offset
    BY DEF Addr
  <2>5. CASE state = "FETCH"
    BY <1>1, <1>2, <2>1, <2>3, <2>5 DEF Contents, LineAt
  <2>6. CASE state = "FLUSH"
    BY <1>1, <1>2, <2>1, <2>4, <2>6 DEF Contents, LineAt, InLine
  <2> QED BY <2>5, <2>6
<1> QED BY <1>1, <1>2, <1>3, <1>6, <1>7 DEF LineInv

\* The turn and the beats after a word was moved.
LEMMA NextBeat ==
  ASSUME LineInv, Tick, state \in {"FETCH", "FLUSH"}, WordCycle
  PROVE  /\ Turn(req.addr.offset, offset') = Beats'
         /\ \A o \in Offset :
              /\ Moved(o)' => ~cresp.last /\ (Moved(o) \/ o = offset)
              /\ cresp.last => Moved(o) \/ o = offset
<1>1. /\ req.addr.offset \in Offset /\ offset \in Offset
      /\ tx.n \in 1 .. WordsPerLine /\ Turn(req.addr.offset, offset) = tx.n - 1
      /\ WordsPerLine \in Nat
  BY LineFacts, LineSizes DEF LineInv, LineTypes, Burst, Beats, WordCycle
<1>2. offset' = NextOffset(offset) /\ req' = req
  BY BurstFrame DEF WordCycle
<1>3. Beats' = IF cresp.last THEN 0 ELSE tx.n
  <2>1. tx \in Tx
    BY DEF LineInv, LineTypes, DeviceTypeOK
  <2>2. CASE cresp.last
    BY <2>2 DEF WordCycle, Beats, Tx0
  <2>3. CASE ~cresp.last
    <3>1. tx'.busy /\ tx'.n = tx.n + 1
      BY <2>1, <2>3 DEF WordCycle, Tx
    <3> QED BY <1>1, <2>3, <3>1 DEF Beats
  <2> QED BY <2>2, <2>3
<1>4. Turn(req.addr.offset, offset') = Beats'
  <2>1. Turn(req.addr.offset, offset')
          = IF Turn(req.addr.offset, offset) = WordsPerLine - 1 THEN 0
            ELSE Turn(req.addr.offset, offset) + 1
    BY <1>1, <1>2, TurnFacts
  <2>2. cresp.last <=> tx.n = WordsPerLine
    BY DEF WordCycle
  <2> QED BY <1>1, <1>3, <2>1, <2>2
<1>5. ASSUME NEW o \in Offset
      PROVE  /\ Moved(o)' => ~cresp.last /\ (Moved(o) \/ o = offset)
             /\ cresp.last => Moved(o) \/ o = offset
  <2>1. /\ Turn(req.addr.offset, o) \in 0 .. WordsPerLine - 1
        /\ Turn(req.addr.offset, o) = Turn(req.addr.offset, offset) => o = offset
    BY <1>1, TurnFacts DEF Offset
  <2>2. Moved(o) <=> Turn(req.addr.offset, o) < tx.n - 1
    BY DEF Moved, Beats, WordCycle
  <2>3. Moved(o)' <=> Turn(req.addr.offset, o) < IF cresp.last THEN 0 ELSE tx.n
    BY <1>2, <1>3 DEF Moved
  <2>4. cresp.last <=> tx.n = WordsPerLine
    BY DEF WordCycle
  <2> QED BY <1>1, <2>1, <2>2, <2>3, <2>4
<1> QED BY <1>4, <1>5

\* A cycle of a burst that moves a word.
LEMMA WordInv ==
  ASSUME LineInv, Tick, state \in {"FETCH", "FLUSH"}, WordCycle
  PROVE  LineInv'
<1>1. /\ UNCHANGED <<dreq, refMem, buffer, failed, req>>
      /\ offset' = NextOffset(offset)
      /\ state' = IF ~cresp.last THEN state ELSE IF state = "FETCH" THEN "READY" ELSE "IDLE"
      /\ ram' = IF state = "FETCH" THEN [ram EXCEPT ![offset] = cresp.data] ELSE ram
  BY BurstFrame DEF WordCycle
<1>2. LineTypes /\ Burst /\ Contents /\ ~failed
  BY DEF LineInv
<1>3. /\ offset \in Offset /\ offset' \in Offset
      /\ LineAt(offset) \in Addr /\ ram[offset] \in Word /\ mem[LineAt(offset)] \in Word
      /\ tx.is_write <=> state = "FLUSH"
  BY <1>1, <1>2, LineFacts, TurnFacts DEF LineTypes, DeviceTypeOK, Burst, WordCycle
<1>4. LineTypes'
  <2>1. mem' \in [Addr -> Word] /\ ram' \in [Offset -> Word]
    BY <1>1, <1>2, <1>3 DEF WordCycle, LineTypes, DeviceTypeOK
  <2>2. state' \in {"IDLE", "FETCH", "READY", "FLUSH"}
    BY <1>1
  <2> QED BY <1>1, <1>2, <1>3, <2>1, <2>2 DEF WordCycle, LineTypes, DeviceTypeOK
<1>5. Burst'
  <2>1. tx'.busy =>
          /\ state' \in {"FETCH", "FLUSH"} /\ (tx'.is_write <=> state' = "FLUSH")
          /\ tx'.start = req.addr /\ tx'.len = WordsPerLine
          /\ tx'.n \in 1 .. WordsPerLine
    <3>1. CASE cresp.last
      BY <3>1 DEF WordCycle, Tx0
    <3>2. CASE ~cresp.last
      <4>1. state' = state /\ tx.n # WordsPerLine /\ tx \in Tx
        BY <1>1, <1>2, <3>2 DEF WordCycle, LineTypes, DeviceTypeOK
      <4>2. /\ tx'.is_write = tx.is_write /\ tx'.start = tx.start /\ tx'.len = tx.len
            /\ tx'.n = tx.n + 1
        BY <3>2, <4>1 DEF WordCycle, Tx
      <4>3. tx.n \in 1 .. WordsPerLine /\ tx.start = req.addr /\ tx.len = WordsPerLine
        BY <1>2 DEF Burst, WordCycle
      <4>4. tx'.n \in 1 .. WordsPerLine
        BY <4>1, <4>2, <4>3, LineSizes
      <4> QED BY <1>3, <4>1, <4>2, <4>3, <4>4
    <3> QED BY <3>1, <3>2
  <2>2. Turn(req'.addr.offset, offset') = Beats'
    BY <1>1, NextBeat
  <2> QED BY <1>1, <2>1, <2>2 DEF Burst
<1>6. \A o \in Offset : /\ Moved(o)' => ~cresp.last /\ (Moved(o) \/ o = offset)
                        /\ cresp.last => Moved(o) \/ o = offset
  BY NextBeat
<1>7. Contents'
  <2>1. CASE state = "FETCH"
    <3>1. /\ mem' = mem /\ cresp.data = mem[LineAt(offset)] /\ refMem = mem
          /\ state' = IF cresp.last THEN "READY" ELSE "FETCH"
          /\ dreq = req /\ dreq.valid
      BY <1>1, <1>2, <1>3, <2>1 DEF WordCycle, Contents
    <3>2. ASSUME NEW o \in Offset, Moved(o) \/ o = offset
          PROVE  ram'[o] = mem[LineAt(o)]
      BY <1>1, <1>2, <2>1, <3>1, <3>2 DEF Contents, LineTypes
    <3>3. \A o \in Offset : LineAt(o)' = LineAt(o)
      BY <1>1 DEF LineAt
    <3> QED BY <1>1, <1>6, <3>1, <3>2, <3>3 DEF Contents
  <2>2. CASE state = "FLUSH"
    <3>1. /\ mem' = [mem EXCEPT ![LineAt(offset)] = ram[offset]] /\ ram' = ram
          /\ state' = IF cresp.last THEN "IDLE" ELSE "FLUSH"
          /\ \A o \in Offset : ram[o] = refMem[LineAt(o)]
      BY <1>1, <1>2, <1>3, <2>2 DEF WordCycle, Contents
    <3>2. ASSUME NEW a \in Addr, ~InLine(a) \/ Moved(a.offset) \/ a.offset = offset
          PROVE  mem'[a] = refMem[a]
      <4>1. CASE a = LineAt(offset)
        BY <1>2, <1>3, <3>1, <4>1 DEF LineTypes, DeviceTypeOK
      <4>2. CASE a # LineAt(offset)
        <5>1. mem'[a] = mem[a]
          BY <1>2, <3>1, <4>2 DEF LineTypes, DeviceTypeOK
        <5>2. ~InLine(a) \/ Moved(a.offset)
          BY <1>2, <1>3, <3>2, <4>2, LineFacts
        <5> QED BY <1>2, <2>2, <5>1, <5>2 DEF Contents
      <4> QED BY <4>1, <4>2
    <3>3. \A a \in Addr : a.offset \in Offset
      BY DEF Addr
    <3>4. CASE cresp.last
      <4>1. \A a \in Addr : mem'[a] = refMem[a]
        BY <1>6, <3>2, <3>3, <3>4
      <4>2. mem' = refMem'
        BY <1>1, <1>2, <1>4, <4>1 DEF LineTypes, DeviceTypeOK
      <4> QED BY <3>1, <3>4, <4>2 DEF Contents
    <3>5. CASE ~cresp.last
      <4>1. \A a \in Addr : ~InLine(a) \/ Moved(a.offset)' => mem'[a] = refMem'[a]
        BY <1>1, <1>6, <3>2, <3>3
      <4>2. state' = "FLUSH"
        BY <3>1, <3>5
      <4> QED BY <1>1, <3>1, <4>1, <4>2 DEF Contents, LineAt, InLine
    <3> QED BY <3>4, <3>5
  <2> QED BY <2>1, <2>2
<1> QED BY <1>1, <1>2, <1>4, <1>5, <1>7 DEF LineInv

\* The access itself: line and model agree before it, and after it.
LEMMA PerformInv ==
  ASSUME LineInv, Tick, state = "READY"
  PROVE  LineInv'
<1> DEFINE o == req.addr.offset
           a == req.addr
           w == Merge(mem[a], req.strobe, req.data)
<1>1. LineTypes /\ Burst /\ Contents /\ ~failed
  BY DEF LineInv
<1>2. /\ a \in Addr /\ o \in Offset /\ LineAt(o) = a
      /\ mem[a] \in Word /\ ram[o] = mem[a] /\ refMem = mem
      /\ dreq = req /\ dreq.valid /\ ~tx.busy /\ ~creq.valid
      /\ req.data \in Word
  <2>1. ~tx.busy
    BY <1>1 DEF Burst
  <2>2. a \in Addr /\ o \in Offset /\ LineAt(o) = a
    BY <1>1, LineFacts
  <2> QED BY <1>1, <2>1, <2>2 DEF Contents, LineTypes, DeviceTypeOK, creq, DReq
<1>3. w \in Word /\ (req.strobe = {} => w = mem[a])
  <2>1. Merge(mem[a], req.strobe, req.data) \in Word /\ Merge(mem[a], {}, req.data) = mem[a]
    BY <1>2, MergeFacts
  <2> QED BY <2>1
<1>4. offset = o
  <2>1. offset \in Offset /\ Turn(o, offset) = 0
    BY <1>1, <1>2 DEF LineTypes, Burst, Beats
  <2> QED BY <1>2, <2>1, TurnFacts
<1>5. UNCHANGED <<mem, tx>> /\ enable' \in BOOLEAN
  <2>1. DeviceIdle(creq)
    BY <1>2 DEF Tick, DeviceCycle, DeviceStart, DeviceBeat
  <2> QED BY <2>1 DEF DeviceIdle
<1>6. /\ ram' = [ram EXCEPT ![o] = w]
      /\ state' = IF req.strobe # {} THEN "FLUSH" ELSE "IDLE"
      /\ req' = req /\ offset' = o
  <2>1. Perform
    BY DEF Tick, LineCycle
  <2> QED BY <1>2, <1>4, <2>1 DEF Perform
<1>7. /\ dreq' = [dreq EXCEPT !.valid = FALSE] /\ Compare(ram[offset])
  BY <1>2 DEF Tick, data_ok
<1>8. refMem' = [mem EXCEPT ![a] = w]
  BY <1>2, <1>7 DEF Compare, RefStore
<1>9. buffer' = ram'
  <2>1. LineOf(refMem, dreq.addr) = ram
    <3>1. \A x \in Offset : ram[x] = mem[LineAt(x)]
      BY <1>1 DEF Contents
    <3> QED BY <1>1, <1>2, <3>1 DEF LineOf, LineAt, LineTypes
  <2> QED BY <1>2, <1>6, <1>7, <2>1 DEF Compare, RefBuffer
<1>10. ~failed'
  <2>1. dreq.strobe = {} => ram[offset] = buffer'[dreq.addr.offset]
    BY <1>1, <1>2, <1>3, <1>4, <1>6, <1>9 DEF LineTypes
  <2> QED BY <1>7, <1>9, <2>1 DEF Compare
<1> HIDE DEF o, a, w
<1>11. LineTypes'
  <2>1. ram' \in [Offset -> Word] /\ refMem' \in [Addr -> Word] /\ dreq' \in DReq
    BY <1>1, <1>3, <1>6, <1>7, <1>8, <1>2 DEF LineTypes, DeviceTypeOK, DReq
  <2>2. state' \in {"IDLE", "FETCH", "READY", "FLUSH"}
    BY <1>6
  <2> QED BY <1>1, <1>2, <1>5, <1>6, <1>9, <2>1, <2>2 DEF LineTypes, DeviceTypeOK
<1>12. Burst'
  <2>1. ~tx'.busy /\ Turn(o, o) = 0
    BY <1>2, <1>5, TurnFacts
  <2> QED BY <1>6, <2>1 DEF Burst, Beats, o
<1>13. Contents'
  <2>1. CASE req.strobe = {}
    <3>1. refMem' = mem'
      BY <1>1, <1>3, <1>5, <1>8, <2>1 DEF LineTypes, DeviceTypeOK
    <3> QED BY <1>6, <2>1, <3>1 DEF Contents
  <2>2. CASE req.strobe # {}
    <3>1. \A x \in Offset : LineAt(x)' = LineAt(x) /\ LineAt(x) \in Addr /\ (LineAt(x) = a <=> x = o)
      <4>1. \A x \in Offset : LineAt(x)' = LineAt(x)
        BY <1>6 DEF LineAt
      <4>2. \A x \in Offset : LineAt(x) \in Addr /\ LineAt(x).offset = x
        BY <1>1, LineFacts
      <4> QED BY <1>2, <4>1, <4>2 DEF o
    <3>2. \A x \in Offset : ram[x] = mem[LineAt(x)]
      BY <1>1 DEF Contents
    <3>3. \A x \in Offset : ram'[x] = refMem'[LineAt(x)]
      BY <1>1, <1>2, <1>6, <1>8, <3>1, <3>2 DEF LineTypes, DeviceTypeOK
    <3>4. \A x \in Addr : ~InLine(x) => mem'[x] = refMem'[x]
      <4>1. InLine(a)
        BY DEF InLine, a
      <4> QED BY <1>1, <1>2, <1>5, <1>8, <4>1 DEF LineTypes, DeviceTypeOK
    <3>5. \A x \in Offset : ~Moved(x)'
      <4>1. \A x \in Offset : Turn(o, x) \in Nat
        BY <1>2, TurnFacts DEF Offset
      <4> QED BY <1>2, <1>5, <1>6, <4>1 DEF Moved, Beats, o
    <3>6. \A x \in Addr : x.offset \in Offset /\ InLine(x)' = InLine(x)
      BY <1>6 DEF Addr, InLine
    <3>7. state' = "FLUSH"
      BY <1>6, <2>2
    <3> QED BY <3>1, <3>3, <3>4, <3>5, <3>6, <3>7 DEF Contents
  <2> QED BY <2>1, <2>2
<1> QED BY <1>10, <1>11, <1>12, <1>13 DEF LineInv

\* The line buffer, the memory and the model it is compared with, in every
\* reachable state: what a fill has brought, what a flush has still to write,
\* and that they never disagree (DCache.sv:358-467, cache_ref.cpp:24-103).
THEOREM LineInvariant == Spec => []LineInv
<1>1. LineInv /\ [Next]_vars => LineInv'
  <2> SUFFICES ASSUME LineInv, [Next]_vars PROVE LineInv'
    OBVIOUS
  <2>1. ASSUME NEW a \in Accesses, Issue(a) PROVE LineInv'
    BY <2>1, IssueInv
  <2>2. CASE Tick
    <3>1. state \in {"IDLE", "FETCH", "READY", "FLUSH"}
      BY DEF LineInv, LineTypes
    <3> QED BY <2>2, <3>1, IdleInv, BurstCycles, QuietInv, WordInv, PerformInv
  <2>3. CASE NextTest
    BY <2>3, NextTestInv
  <2>4. CASE UNCHANGED vars
    <3>1. UNCHANGED <<dreq, state, req, offset, ram, refMem, buffer, failed, mem, tx, enable>>
      BY <2>4 DEF vars, lineVars, refVars, deviceVars
    <3> QED BY <3>1 DEF LineInv, LineTypes, DeviceTypeOK, Burst, Beats, Contents, Moved, LineAt, InLine
  <2> QED BY <2>1, <2>2, <2>3, <2>4 DEF Next
<1> QED BY <1>1, LineInit, PTL DEF Spec

\* The line buffer answers every access as the reference model does, holds the
\* model's line after it, and keeps its request for the whole of a burst, for
\* every line length, word, set of accesses and latency
\* (testbench.h:185-206, cache_ref.cpp:79-103, cbus_device.cpp:39-43).
THEOREM RefAgreesHolds == Spec => []RefAgrees
<1>1. LineInv => RefAgrees
  <2> SUFFICES ASSUME LineInv, tx.busy
               PROVE  /\ creq.valid /\ creq.is_write = tx.is_write
                      /\ creq.addr = tx.start /\ creq.len = tx.len
    BY DEF RefAgrees, RequestHeld, LineInv
  <2>1. tx.is_write \in BOOLEAN
    BY DEF LineInv, LineTypes, DeviceTypeOK, Tx
  <2>2. /\ state \in {"FETCH", "FLUSH"} /\ (tx.is_write <=> state = "FLUSH")
        /\ tx.start = req.addr /\ tx.len = WordsPerLine
    BY DEF LineInv, Burst
  <2>3. creq.is_write = (state = "FLUSH") /\ creq.valid = (state \in {"FETCH", "FLUSH"})
        /\ creq.addr = req.addr /\ creq.len = WordsPerLine
    BY DEF creq
  <2>4. (state = "FLUSH") = tx.is_write
    BY <2>1, <2>2
  <2> QED BY <2>2, <2>3, <2>4
<1> QED BY <1>1, LineInvariant, PTL

-----------------------------------------------------------------------------
(* MemoryLanes                                                             *)

\* The word is the bytes, and what was loaded last was right.
LanesInv ==
  /\ word = bytes /\ bytes \in [Lanes!BusLane -> 0 .. 255]
  /\ got.value = want

\* Where an aligned access lies.
LEMMA AlignedFacts ==
  ASSUME NEW a \in Lanes!BusLane, NEW w \in Lanes!Width, a % w = 0
  PROVE  /\ a \in 0 .. 7 /\ w \in 1 .. 8 /\ a + w <= 8
         /\ Lanes!parse(w, a) = [width |-> w, sht |-> a]
         /\ Lanes!parse(w, a) # Lanes!DISCARD
<1>1. a \in {0, 1, 2, 3, 4, 5, 6, 7} /\ w \in {1, 2, 4, 8}
  BY DEF Lanes!BusLane, Lanes!Width
<1>2. a \in 0 .. 7 /\ w \in 1 .. 8 /\ a + w <= 8 /\ a % 8 = a
  BY <1>1
<1>3. Lanes!parse(w, a) = [width |-> w, sht |-> a]
  BY <1>2 DEF Lanes!parse
<1>4. [width |-> w, sht |-> a].width = w /\ Lanes!DISCARD.width = 0
  BY DEF Lanes!DISCARD
<1>5. w # 0
  BY <1>2
<1> QED BY <1>2, <1>3, <1>4, <1>5

\* The lanes of an aligned access, to the left and to the right.
LEMMA ApplyFacts ==
  ASSUME NEW a \in Lanes!BusLane, NEW w \in Lanes!Width, a % w = 0, NEW v
  PROVE  /\ Lanes!strobe(Lanes!parse(w, a)) = {l \in 0 .. 7 : a <= l /\ l < a + w}
         /\ \A l \in 0 .. 7 : a <= l => Lanes!place(Lanes!parse(w, a), v)[l] = v[l - a]
         /\ \A l \in 0 .. 7 : l < w => Lanes!apply(Lanes!parse(w, a), v)[l] = v[a + l]
<1>1. PICK op : op = Lanes!parse(w, a)
  OBVIOUS
<1>2. op.width = w /\ op.sht = a /\ op # Lanes!DISCARD
  <2>1. op = [width |-> w, sht |-> a] /\ op # Lanes!DISCARD
    BY <1>1, AlignedFacts
  <2> QED BY <2>1
<1>3. a \in 0 .. 7 /\ w \in 1 .. 8 /\ a + w <= 8
  BY AlignedFacts
<1>4. Lanes!strobe(op) = {l \in 0 .. 7 : a <= l /\ l < a + w}
  BY <1>2 DEF Lanes!strobe, Lanes!BusLane
<1>5. \A l \in 0 .. 7 : a <= l => Lanes!place(op, v)[l] = v[l - a]
  BY <1>2, <1>3 DEF Lanes!place, Lanes!BusLane
<1>6. \A l \in 0 .. 7 : l < w => Lanes!apply(op, v)[l] = v[a + l]
  <2> SUFFICES ASSUME NEW l \in 0 .. 7, l < w PROVE Lanes!apply(op, v)[l] = v[a + l]
    OBVIOUS
  <2>1. l + a <= 7 /\ l + a = a + l
    BY <1>3
  <2>2. Lanes!apply(op, v)[l] = v[l + a]
    BY <1>2, <2>1 DEF Lanes!apply, Lanes!BusLane
  <2> QED BY <2>1, <2>2
<1> QED BY <1>1, <1>4, <1>5, <1>6

\* The block of an address is aligned, and where parse puts the access.
LEMMA BlockFacts ==
  ASSUME NEW a \in Lanes!BusLane, NEW w \in Lanes!Width
  PROVE  /\ Lanes!Block(w, a) \in Lanes!BusLane /\ Lanes!Block(w, a) % w = 0
         /\ Lanes!parse(w, Lanes!Block(w, a)) = Lanes!parse(w, a)
<1>1. a \in {0, 1, 2, 3, 4, 5, 6, 7} /\ w \in {1, 2, 4, 8}
  BY DEF Lanes!BusLane, Lanes!Width
<1>2. PICK d : d = a - (a % w)
  OBVIOUS
<1>3. /\ d \in 0 .. 7 /\ d % w = 0 /\ d % 8 = d /\ a % 8 = a
  <2>1. CASE w = 1
    BY <1>1, <1>2, <2>1
  <2>2. CASE w = 2
    BY <1>1, <1>2, <2>2
  <2>3. CASE w = 4
    BY <1>1, <1>2, <2>3
  <2>4. CASE w = 8
    BY <1>1, <1>2, <2>4
  <2> QED BY <1>1, <2>1, <2>2, <2>3, <2>4
<1>4. (d % 8) - (d % w) = (a % 8) - (a % w)
  BY <1>1, <1>2, <1>3
<1>5. Lanes!Block(w, a) = d
  BY <1>2 DEF Lanes!Block
<1>6. Lanes!parse(w, d) = Lanes!parse(w, a)
  BY <1>4 DEF Lanes!parse
<1> QED BY <1>3, <1>5, <1>6 DEF Lanes!BusLane

\* A store of the core changes its own bytes.
LEMMA CoreStoreInv ==
  ASSUME LanesInv, NEW a \in Lanes!BusLane, NEW w \in Lanes!Width,
         NEW v \in [Lanes!BusLane -> 0 .. 255], Lanes!CoreStore(w, a, v)
  PROVE  LanesInv'
<1>1. a \in 0 .. 7 /\ w \in 1 .. 8 /\ a + w <= 8
  BY AlignedFacts DEF Lanes!CoreStore, Lanes!addr_exc
<1>2. bytes' = [l \in 0 .. 7 |-> IF a <= l /\ l < a + w THEN v[l - a] ELSE bytes[l]]
  BY DEF Lanes!CoreStore, Lanes!Stored, Lanes!BusLane
<1>3. bytes' \in [0 .. 7 -> 0 .. 255]
  BY <1>1, <1>2 DEF LanesInv, Lanes!BusLane
<1>4. word' = bytes'
  BY <1>1, <1>2 DEF LanesInv, Lanes!CoreStore, Lanes!writedata, Lanes!MergeLanes, Lanes!BusLane
<1>5. (got.value = want)'
  BY DEF Lanes!CoreStore, Lanes!Stored, Lanes!Nothing
<1> QED BY <1>3, <1>4, <1>5 DEF LanesInv, Lanes!BusLane

\* A store of the bench, aligned or not, changes the bytes of its block.
LEMMA BenchStoreInv ==
  ASSUME LanesInv, NEW a \in Lanes!BusLane, NEW w \in Lanes!Width,
         NEW v \in [Lanes!BusLane -> 0 .. 255], Lanes!BenchStore(w, a, v)
  PROVE  LanesInv'
<1>1. PICK c \in 0 .. 7 : c = Lanes!Block(w, a)
  BY BlockFacts DEF Lanes!BusLane
<1>2. c % w = 0 /\ Lanes!parse(w, c) = Lanes!parse(w, a) /\ c \in Lanes!BusLane
  BY <1>1, BlockFacts
<1>3. w \in 1 .. 8 /\ c + w <= 8
  BY <1>2, AlignedFacts
<1>4. bytes' = [l \in 0 .. 7 |-> IF c <= l /\ l < c + w THEN v[l - c] ELSE bytes[l]]
  BY <1>1 DEF Lanes!BenchStore, Lanes!Stored, Lanes!BusLane
<1>5. bytes' \in [0 .. 7 -> 0 .. 255]
  BY <1>3, <1>4 DEF LanesInv, Lanes!BusLane
<1>6. word' = bytes'
  <2>1. PICK s, d : /\ word' = [l \in 0 .. 7 |-> IF l \in s THEN d[l] ELSE word[l]]
                    /\ s = Lanes!strobe(Lanes!parse(w, c))
                    /\ d = Lanes!place(Lanes!parse(w, c), v)
    BY <1>2 DEF Lanes!BenchStore, Lanes!MergeLanes, Lanes!BusLane
  <2>2. /\ s = {l \in 0 .. 7 : c <= l /\ l < c + w}
        /\ \A l \in 0 .. 7 : c <= l => d[l] = v[l - c]
    BY <1>2, <2>1, ApplyFacts
  <2> QED BY <1>4, <2>1, <2>2 DEF LanesInv
<1>7. (got.value = want)'
  BY DEF Lanes!BenchStore, Lanes!Stored, Lanes!Nothing
<1> QED BY <1>5, <1>6, <1>7 DEF LanesInv, Lanes!BusLane

\* The word of a load, byte by byte: those of the access, and what is above.
LEMMA CoreLoadInv ==
  ASSUME LanesInv, NEW a \in Lanes!BusLane, NEW w \in Lanes!Width, NEW u \in BOOLEAN,
         Lanes!CoreLoad(w, a, u)
  PROVE  LanesInv'
<1>1. a % w = 0
  BY DEF Lanes!CoreLoad, Lanes!addr_exc
<1>2. a \in 0 .. 7 /\ w \in 1 .. 8 /\ a + w <= 8
  BY <1>1, AlignedFacts
<1>3. UNCHANGED <<word, bytes>>
  BY DEF Lanes!CoreLoad, Lanes!Loaded
<1> DEFINE b == Lanes!BytesAt(w, a)
           x == [l \in 0 .. 7 |-> IF l < w THEN b[l]
                                  ELSE IF ~u /\ b[w - 1] >= 128 THEN 255 ELSE 0]
<1>4. want' = x /\ got'.value = Lanes!readdata(word, w, a, u)
  BY DEF Lanes!CoreLoad, Lanes!Loaded, Lanes!BusLane
<1>5. w - 1 \in 0 .. 7 /\ a + (w - 1) = a + w - 1
  BY <1>2
<1>6. \A l \in 0 .. 7 : l < w => b[l] = word[a + l]
  BY DEF Lanes!BytesAt, Lanes!BusLane, LanesInv
<1>7. b[w - 1] = word[a + w - 1]
  <2>1. w - 1 < w
    BY <1>2
  <2> QED BY <1>5, <1>6, <2>1
<1> HIDE DEF b
<1>8. Lanes!readdata(word, w, a, u) = x
  BY <1>2, <1>6, <1>7 DEF Lanes!readdata, Lanes!sign_bit, Lanes!BusLane
<1> QED BY <1>3, <1>4, <1>8 DEF LanesInv

\* A conversion to an integer of the width keeps the bytes of the access.
LEMMA BenchLoadInv ==
  ASSUME Lanes!LanesAssumption, LanesInv, NEW a \in Lanes!BusLane, NEW w \in Lanes!Width, NEW v,
         \/ Lanes!BenchLoad(w, a) \/ Lanes!CellGet(w, a) \/ Lanes!PipelineLoad(w, a, v)
         \/ w \in CellWidth /\ Lanes!PipelineCellGet(w, a, v)
  PROVE  LanesInv'
<1>1. UNCHANGED <<word, bytes>>
  BY DEF Lanes!BenchLoad, Lanes!CellGet, Lanes!PipelineLoad, Lanes!PipelineCellGet, Lanes!Loaded
<1>2. PICK c \in Lanes!BusLane : c = Lanes!Block(w, a)
  BY BlockFacts
<1>3. PICK op : op = Lanes!parse(w, a)
  OBVIOUS
<1>a. c % w = 0 /\ op = Lanes!parse(w, c)
  BY <1>2, <1>3, BlockFacts
<1>4. op.width = w /\ w \in 1 .. 8
  BY <1>a, AlignedFacts
<1>5. \A l \in 0 .. 7 : l < w => Lanes!apply(op, word)[l] = word[c + l]
  BY <1>a, ApplyFacts
<1>6. PICK b : b = Lanes!BytesAt(w, Lanes!Block(w, a))
  OBVIOUS
<1>7. b = [l \in 0 .. 7 |-> IF l < w THEN word[c + l] ELSE 0]
  BY <1>2, <1>6 DEF Lanes!BytesAt, Lanes!BusLane, LanesInv
<1>8. CASE Lanes!BenchLoad(w, a) \/ Lanes!CellGet(w, a)
  <2>1. want' = b /\ got'.value = Lanes!Low(w, Lanes!apply(op, word))
    BY <1>3, <1>6, <1>8 DEF Lanes!BenchLoad, Lanes!CellGet, Lanes!Loaded
  <2>2. Lanes!Low(w, Lanes!apply(op, word)) = b
    BY <1>5, <1>7 DEF Lanes!Low, Lanes!BusLane
  <2> QED BY <1>1, <2>1, <2>2 DEF LanesInv
<1>9. CASE Lanes!PipelineLoad(w, a, v)
  <2>1. /\ want' = [l \in 0 .. 7 |-> IF l < w THEN bytes[a + l] ELSE v[l]]
        /\ got'.value = Lanes!applyTo(op, word, v) /\ a % w = 0
    BY <1>3, <1>9 DEF Lanes!PipelineLoad, Lanes!Loaded, Lanes!BusLane
  <2>2. \A l \in 0 .. 7 : l < w => Lanes!apply(op, word)[l] = word[a + l]
    BY <1>3, <2>1, ApplyFacts
  <2>3. Lanes!applyTo(op, word, v) = [l \in 0 .. 7 |-> IF l < w THEN word[a + l] ELSE v[l]]
    BY <1>4, <2>2 DEF Lanes!applyTo, Lanes!BusLane
  <2> QED BY <1>1, <2>1, <2>3 DEF LanesInv
<1>10. CASE w \in CellWidth /\ Lanes!PipelineCellGet(w, a, v)
  <2>1. w <= 4
    BY <1>10 DEF Lanes!LanesAssumption
  <2>2. want' = b /\ got'.value = Lanes!Low(w, Lanes!Low(4, Lanes!applyTo(op, word, v)))
    BY <1>3, <1>6, <1>10 DEF Lanes!PipelineCellGet, Lanes!Loaded
  <2>3. \A l \in 0 .. 7 : l < w => Lanes!applyTo(op, word, v)[l] = word[c + l]
    BY <1>4, <1>5 DEF Lanes!applyTo, Lanes!BusLane
  <2>4. \A l \in 0 .. 7 : l < w => Lanes!Low(4, Lanes!applyTo(op, word, v))[l] = word[c + l]
    BY <1>4, <2>1, <2>3 DEF Lanes!Low, Lanes!BusLane
  <2>5. Lanes!Low(w, Lanes!Low(4, Lanes!applyTo(op, word, v))) = b
    BY <1>7, <2>4 DEF Lanes!Low, Lanes!BusLane
  <2> QED BY <1>1, <2>2, <2>5 DEF LanesInv
<1> QED BY <1>8, <1>9, <1>10

\* Any access by any unit.
LEMMA LanesStep == Lanes!LanesAssumption => (LanesInv /\ [Lanes!Next]_laneVars => LanesInv')
<1> SUFFICES ASSUME Lanes!LanesAssumption, LanesInv, [Lanes!Next]_laneVars PROVE LanesInv'
  OBVIOUS
<1>1. CASE UNCHANGED laneVars
  BY <1>1 DEF laneVars, LanesInv
<1>2. ASSUME NEW a \in Lanes!Addr, NEW w \in Lanes!Width, NEW v \in Data,
             \/ Lanes!CoreStore(w, a, v) \/ Lanes!BenchStore(w, a, v)
             \/ Lanes!PipelineStore(w, a, v)
      PROVE  LanesInv'
  BY <1>2, CoreStoreInv, BenchStoreInv DEF Lanes!LanesAssumption, Lanes!Addr, Lanes!PipelineStore
<1>3. ASSUME NEW a \in Lanes!Addr, NEW w \in Lanes!Width, NEW u \in BOOLEAN,
             Lanes!CoreLoad(w, a, u)
      PROVE  LanesInv'
  BY <1>3, CoreLoadInv DEF Lanes!Addr
<1>4. ASSUME NEW a \in Lanes!Addr, NEW w \in Lanes!Width, NEW v,
             \/ Lanes!BenchLoad(w, a) \/ Lanes!CellGet(w, a) \/ Lanes!PipelineLoad(w, a, v)
             \/ w \in CellWidth /\ Lanes!PipelineCellGet(w, a, v)
      PROVE  LanesInv'
  BY <1>4, BenchLoadInv DEF Lanes!Addr
<1> QED BY <1>1, <1>2, <1>3, <1>4 DEF Lanes!Next

LEMMA LanesStart == Lanes!LanesAssumption => (Lanes!Init => LanesInv)
  BY DEF Lanes!Init, LanesInv, Lanes!Zero, Lanes!Nothing, Lanes!BusLane

\* Whatever the units store and load, in any order, widths and addresses: the
\* word is the byte-addressed memory, and every load returned the bytes of its
\* block, which are its own bytes if it is aligned
\* (readdata.sv:24-115, writedata.sv:16-108, bus.h:101-260, cell.h:103-127).
THEOREM LanesRight ==
  ASSUME Lanes!LanesAssumption PROVE Lanes!Spec => [](Lanes!StoresRight /\ Lanes!LoadsRight)
<1>1. LanesInv => Lanes!StoresRight /\ Lanes!LoadsRight
  BY DEF LanesInv, Lanes!StoresRight, Lanes!LoadsRight
<1>2. Lanes!Init => LanesInv
  BY LanesStart
<1>3. LanesInv /\ [Lanes!Next]_laneVars => LanesInv'
  BY LanesStep
<1> QED BY <1>1, <1>2, <1>3, PTL DEF Lanes!Spec, Lanes!vars, laneVars

\* The other parts leave the word alone.
LEMMA LanesInSuite ==
  /\ AllInit => LanesInv
  /\ LanesInv /\ [AllNext]_allVars => LanesInv'
<1>1. Lanes!LanesAssumption
  BY SuiteAssumption
<1>2. AllInit => LanesInv
  BY <1>1, LanesStart DEF AllInit
<1>3. LanesInv /\ [AllNext]_allVars => LanesInv'
  <2> SUFFICES ASSUME LanesInv, [AllNext]_allVars PROVE LanesInv'
    OBVIOUS
  <2>1. [Lanes!Next]_laneVars
    BY DEF AllNext, allVars, LinePart, BusTick, BusCall, CellPart, LanePart, Aborted
  <2> QED BY <1>1, <2>1, LanesStep
<1> QED BY <1>2, <1>3

\* A store of any unit and width changes the bytes of the aligned block of its
\* width that holds its address, its own bytes if it is aligned, and no other
\* byte of the word (writedata.sv:16-108, bus.h:69-187,517-541).
THEOREM StoresRightHolds == AllSpec => []StoresRight
<1>1. LanesInv => StoresRight
  BY DEF LanesInv, StoresRight, Lanes!StoresRight
<1> QED BY <1>1, LanesInSuite, PTL DEF AllSpec

\* A load of any unit and width returns what was stored last, by whichever
\* unit, in the aligned block of its width that holds its address, extended as
\* the unit promises (readdata.sv:24-115, bus.h:190-260,493-509).
THEOREM LoadsRightHolds == AllSpec => []LoadsRight
<1>1. LanesInv => LoadsRight
  BY DEF LanesInv, LoadsRight, Lanes!LoadsRight
<1> QED BY <1>1, LanesInSuite, PTL DEF AllSpec

-----------------------------------------------------------------------------
(* Cells                                                                   *)

CellMem == [0 .. Size - 1 -> Nat]
CellVal == [Handle -> {Cell!Unread} \cup Cell!Word]

CellTypes ==
  /\ addr \in [Handle -> {Cell!Null} \cup Nat] /\ allocated \in 0 .. Base
  /\ cellMem \in CellMem /\ val \in CellVal

\* A cell lies in what was taken or in what the factory has given away.
CellPlaced ==
  \A h \in Handle : Cell!Bound(h) =>
    \/ addr[h] >= Base /\ addr[h] + Sizeof[h] <= Size
    \/ addr[h] + Sizeof[h] <= allocated

\* No two cells share a byte.
CellDisjoint ==
  \A g, h \in Handle : Cell!Bound(g) /\ Cell!Bound(h) /\ g # h =>
    addr[g] + Sizeof[g] <= addr[h] \/ addr[h] + Sizeof[h] <= addr[g]

\* A variable that may be read is in a cell.
Holds(m, f) ==
  \A h \in Handle : f[h] # Cell!Unread => Cell!Bound(h) /\ f[h] = Cell!Read(m, h)

CellInv == CellTypes /\ CellPlaced /\ CellDisjoint /\ Holds(cellMem, val)

\* Where the bytes of a cell are.
LEMMA CellBytes ==
  ASSUME Cell!CellsAssumption, CellTypes, CellPlaced, NEW h \in Handle, Cell!Bound(h)
  PROVE  /\ Sizeof[h] \in {1, 2, 4, 8} /\ addr[h] \in Nat /\ addr[h] + Sizeof[h] <= Size
         /\ Cell!Bytes(h) = addr[h] .. addr[h] + Sizeof[h] - 1
         /\ addr[h] \in Cell!Bytes(h) /\ Cell!Bytes(h) \subseteq 0 .. Size - 1
<1>1. Sizeof[h] \in {1, 2, 4, 8} /\ Base \in Nat /\ Size \in Nat /\ Base <= Size
  BY DEF Cell!CellsAssumption
<1>2. addr[h] \in Nat /\ allocated \in 0 .. Base
  BY DEF CellTypes, Cell!Bound
<1>3. addr[h] + Sizeof[h] <= Size
  BY <1>1, <1>2 DEF CellPlaced
<1> QED BY <1>1, <1>2, <1>3 DEF Cell!Bytes

\* A cell converts to and from its type without loss.
LEMMA CellRead ==
  ASSUME Cell!CellsAssumption, CellTypes, CellPlaced, NEW m \in CellMem,
         NEW h \in Handle, Cell!Bound(h)
  PROVE  Cell!Read(m, h) \in Cell!Word /\ Cell!As(Sizeof[h], Cell!Read(m, h)) = Cell!Read(m, h)
<1>1. Sizeof[h] \in 1 .. 8 /\ addr[h] \in Nat /\ addr[h] + Sizeof[h] <= Size /\ Size \in Nat
  BY CellBytes DEF Cell!CellsAssumption
<1>2. ASSUME NEW i \in 0 .. 7, i < Sizeof[h] PROVE m[addr[h] + i] \in Nat
  <2>1. addr[h] + i \in 0 .. Size - 1
    BY <1>1, <1>2
  <2> QED BY <2>1 DEF CellMem
<1>3. Cell!Read(m, h) \in Cell!Word
  BY <1>2 DEF Cell!Read, Cell!Word
<1>4. Cell!As(Sizeof[h], Cell!Read(m, h)) = Cell!Read(m, h)
  BY <1>1 DEF Cell!As, Cell!Read
<1> QED BY <1>3, <1>4

\* The bytes of a cell are where the cell is.
LEMMA Offsets ==
  ASSUME NEW a \in Nat, NEW w \in 1 .. 8, NEW s \in Nat, a + w <= s,
         NEW i \in 0 .. 7, i < w
  PROVE  /\ a + i \in a .. a + w - 1 /\ a + i \in 0 .. s - 1 /\ (a + i) - a = i
OBVIOUS

\* They are not where a cell beside it is.
LEMMA Apart ==
  ASSUME NEW a \in Nat, NEW w \in 1 .. 8, NEW b \in Nat, NEW u \in 1 .. 8,
         a + w <= b \/ b + u <= a, NEW i \in 0 .. 7, i < w
  PROVE  a + i \notin b .. b + u - 1
OBVIOUS

\* Writing a cell changes its own variable and no other.
LEMMA WriteHolds ==
  ASSUME Cell!CellsAssumption, CellTypes, CellPlaced, CellDisjoint,
         NEW m \in CellMem, NEW f \in CellVal, Holds(m, f),
         NEW h \in Handle, Cell!Bound(h), NEW v \in Cell!Word
  PROVE  LET e == [f EXCEPT ![h] = Cell!As(Sizeof[h], v)]
         IN  /\ Cell!Write(m, h, v) \in CellMem /\ e \in CellVal
             /\ Holds(Cell!Write(m, h, v), e)
<1> DEFINE n == Cell!Write(m, h, v)
           e == [f EXCEPT ![h] = Cell!As(Sizeof[h], v)]
<1>1. n = [b \in 0 .. Size - 1 |-> IF b \in Cell!Bytes(h) THEN v[b - addr[h]] ELSE m[b]]
  BY DEF Cell!Write, CellMem
<1>2. /\ Sizeof[h] \in 1 .. 8 /\ addr[h] \in Nat /\ addr[h] + Sizeof[h] <= Size
      /\ Cell!Bytes(h) = addr[h] .. addr[h] + Sizeof[h] - 1 /\ Size \in Nat
  BY CellBytes DEF Cell!CellsAssumption
<1>3. n \in CellMem
  <2>1. ASSUME NEW b \in Cell!Bytes(h) PROVE b - addr[h] \in 0 .. 7
    <3>1. b \in addr[h] .. addr[h] + Sizeof[h] - 1
      BY <1>2
    <3>2. PICK a, w : a = addr[h] /\ w = Sizeof[h]
      OBVIOUS
    <3>3. a \in Nat /\ w \in 1 .. 8 /\ b \in a .. a + w - 1
      BY <1>2, <3>1, <3>2
    <3>4. b - a \in 0 .. 7
      BY <3>3
    <3> QED BY <3>2, <3>4
  <2>2. \A i \in 0 .. 7 : v[i] \in Nat
    BY DEF Cell!Word
  <2>3. \A b \in 0 .. Size - 1 : m[b] \in Nat
    BY DEF CellMem
  <2> QED BY <1>1, <2>1, <2>2, <2>3 DEF CellMem
<1>4. Cell!As(Sizeof[h], v) \in Cell!Word /\ e \in CellVal
  <2>1. Cell!As(Sizeof[h], v) \in Cell!Word
    BY DEF Cell!As, Cell!Word
  <2> QED BY <2>1 DEF CellVal
<1> HIDE DEF n
<1>5. ASSUME NEW g \in Handle, e[g] # Cell!Unread
      PROVE  Cell!Bound(g) /\ e[g] = Cell!Read(n, g)
  <2>1. CASE g = h
    <3>1. e[g] = Cell!As(Sizeof[h], v)
      BY <2>1 DEF CellVal
    <3>2. ASSUME NEW i \in 0 .. 7, i < Sizeof[h] PROVE n[addr[h] + i] = v[i]
      <4>1. PICK b : b = addr[h] + i
        OBVIOUS
      <4>2. b \in addr[h] .. addr[h] + Sizeof[h] - 1 /\ b \in 0 .. Size - 1 /\ b - addr[h] = i
        BY <1>2, <3>2, <4>1, Offsets
      <4>3. n[b] = v[b - addr[h]]
        BY <1>1, <1>2, <4>2
      <4> QED BY <4>1, <4>2, <4>3
    <3>3. Cell!As(Sizeof[h], v) = Cell!Read(n, h)
      BY <3>2 DEF Cell!As, Cell!Read
    <3> QED BY <2>1, <3>1, <3>3
  <2>2. CASE g # h
    <3>1. e[g] = f[g]
      BY <2>2 DEF CellVal
    <3>2. Cell!Bound(g) /\ f[g] = Cell!Read(m, g)
      BY <1>5, <3>1 DEF Holds
    <3>3. addr[g] + Sizeof[g] <= addr[h] \/ addr[h] + Sizeof[h] <= addr[g]
      BY <2>2, <3>2 DEF CellDisjoint
    <3>4. Sizeof[g] \in 1 .. 8 /\ addr[g] \in Nat /\ addr[g] + Sizeof[g] <= Size
      BY <3>2, CellBytes
    <3>5. ASSUME NEW i \in 0 .. 7, i < Sizeof[g] PROVE n[addr[g] + i] = m[addr[g] + i]
      <4>1. PICK b : b = addr[g] + i
        OBVIOUS
      <4>2. b \notin addr[h] .. addr[h] + Sizeof[h] - 1 /\ b \in 0 .. Size - 1
        <5>1. b \in 0 .. Size - 1
          BY <1>2, <3>4, <3>5, <4>1, Offsets
        <5>2. addr[g] + i \notin addr[h] .. addr[h] + Sizeof[h] - 1
          BY <1>2, <3>3, <3>4, <3>5, Apart
        <5> QED BY <4>1, <5>1, <5>2
      <4>3. n[b] = m[b]
        BY <1>1, <1>2, <4>2
      <4> QED BY <4>1, <4>3
    <3>6. Cell!Read(n, g) = Cell!Read(m, g)
      BY <3>5 DEF Cell!Read
    <3> QED BY <3>1, <3>2, <3>6
  <2> QED BY <2>1, <2>2
<1>6. Holds(n, e)
  BY <1>5 DEF Holds
<1> QED BY <1>3, <1>4, <1>6 DEF n

\* The array's elements lie side by side.
LEMMA CellsStart == Cell!CellsAssumption => (Cell!Init => CellInv)
<1> SUFFICES ASSUME Cell!CellsAssumption, Cell!Init PROVE CellInv
  OBVIOUS
<1>1. /\ addr = [h \in Handle |-> IF h \in DOMAIN Array THEN Base + Array[h] * Sizeof[h]
                                  ELSE Cell!Null]
      /\ allocated = 0
      /\ val = [h \in Handle |-> IF h \in DOMAIN Array THEN Cell!Read(cellMem, h)
                                 ELSE Cell!Unread]
  BY DEF Cell!Init
<1>2. cellMem \in CellMem
  <2>1. PICK v \in Cell!Word : cellMem = [b \in 0 .. Size - 1 |-> v[b % 8]]
    BY DEF Cell!Init, Cell!CellsAssumption
  <2>2. \A b \in 0 .. Size - 1 : b % 8 \in 0 .. 7
    BY DEF Cell!CellsAssumption
  <2> QED BY <2>1, <2>2 DEF Cell!Word, CellMem
<1>3. Base \in Nat /\ Size \in Nat /\ Base <= Size /\ DOMAIN Array \subseteq Handle
  BY DEF Cell!CellsAssumption
<1>4. ASSUME NEW h \in DOMAIN Array
      PROVE  /\ h \in Handle /\ addr[h] = Base + Array[h] * Sizeof[h]
             /\ Array[h] \in Nat /\ Sizeof[h] \in {1, 2, 4, 8}
             /\ addr[h] \in Nat /\ addr[h] >= Base /\ addr[h] + Sizeof[h] <= Size
  <2>1. /\ h \in Handle /\ Array[h] \in Nat /\ Sizeof[h] \in {1, 2, 4, 8}
        /\ Base + (Array[h] + 1) * Sizeof[h] <= Size
    BY DEF Cell!CellsAssumption
  <2>2. addr[h] = Base + Array[h] * Sizeof[h]
    BY <1>1, <2>1
  <2> QED BY <1>3, <2>1, <2>2
<1>5. \A h \in Handle : Cell!Bound(h) => h \in DOMAIN Array
  BY <1>1 DEF Cell!Bound
<1>6. CellTypes
  <2>1. addr \in [Handle -> {Cell!Null} \cup Nat]
    BY <1>1, <1>4
  <2>2. val \in CellVal
    <3>1. ASSUME NEW h \in DOMAIN Array PROVE Cell!Read(cellMem, h) \in Cell!Word
      <4>1. \A i \in 0 .. 7 : i < Sizeof[h] => addr[h] + i \in 0 .. Size - 1
        BY <1>3, <1>4
      <4>2. \A i \in 0 .. 7 : i < Sizeof[h] => cellMem[addr[h] + i] \in Nat
        BY <1>2, <4>1 DEF CellMem
      <4> QED BY <4>2 DEF Cell!Read, Cell!Word
    <3> QED BY <1>1, <3>1 DEF CellVal
  <2> QED BY <1>1, <1>2, <1>3, <2>1, <2>2 DEF CellTypes
<1>7. CellPlaced
  BY <1>4, <1>5 DEF CellPlaced
<1>8. CellDisjoint
  <2> SUFFICES ASSUME NEW g \in DOMAIN Array, NEW h \in DOMAIN Array, g # h
               PROVE  addr[g] + Sizeof[g] <= addr[h] \/ addr[h] + Sizeof[h] <= addr[g]
    BY <1>5 DEF CellDisjoint
  <2>1. Sizeof[g] = Sizeof[h] /\ Array[g] # Array[h]
    BY DEF Cell!CellsAssumption
  <2>2. /\ addr[g] = Base + Array[g] * Sizeof[h] /\ addr[h] = Base + Array[h] * Sizeof[h]
        /\ Array[g] \in Nat /\ Array[h] \in Nat /\ Sizeof[h] \in {1, 2, 4, 8}
    BY <1>4, <2>1
  <2>3. Array[g] + 1 <= Array[h] \/ Array[h] + 1 <= Array[g]
    BY <2>1, <2>2
  <2> QED BY <1>3, <2>1, <2>2, <2>3
<1>9. Holds(cellMem, val)
  <2> SUFFICES ASSUME NEW h \in Handle, val[h] # Cell!Unread
               PROVE  Cell!Bound(h) /\ val[h] = Cell!Read(cellMem, h)
    BY DEF Holds
  <2>1. h \in DOMAIN Array
    BY <1>1
  <2>2. Cell!Bound(h)
    BY <1>4, <2>1 DEF Cell!Bound, Cell!Null
  <2> QED BY <1>1, <2>1, <2>2
<1> QED BY <1>6, <1>7, <1>8, <1>9 DEF CellInv

\* set, the copies and swap write cells that stay where they are.
LEMMA CellWriteInv ==
  ASSUME Cell!CellsAssumption, CellInv,
         \/ \E h \in Handle, v \in Value : Cell!Set(h, v)
         \/ \E x, y \in Handle : Cell!Copy(x, y) \/ Cell!Swap(x, y)
  PROVE  CellInv'
<1>1. UNCHANGED <<addr, allocated>>
  BY DEF Cell!Set, Cell!Copy, Cell!Swap
<1>2. CellPlaced' /\ CellDisjoint'
  BY <1>1 DEF CellInv, CellPlaced, CellDisjoint, Cell!Bound
<1>3. ASSUME cellMem' \in CellMem, val' \in CellVal, Holds(cellMem', val')
      PROVE  CellInv'
  <2>1. CellTypes'
    BY <1>1, <1>3 DEF CellInv, CellTypes, CellMem, CellVal
  <2>2. Holds(cellMem, val)'
    BY <1>1, <1>3 DEF Holds, Cell!Bound, Cell!Read
  <2> QED BY <1>2, <2>1, <2>2 DEF CellInv
<1>4. /\ CellTypes /\ CellPlaced /\ CellDisjoint /\ Holds(cellMem, val)
      /\ cellMem \in CellMem /\ val \in CellVal
  BY DEF CellInv, CellTypes
<1>5. ASSUME NEW h \in Handle, Cell!Bound(h), val[h] # Cell!Unread
      PROVE  /\ Cell!Read(cellMem, h) = val[h] /\ val[h] \in Cell!Word
             /\ Cell!As(Sizeof[h], val[h]) = val[h]
  <2>1. Cell!Read(cellMem, h) = val[h]
    BY <1>4, <1>5 DEF Holds
  <2> QED BY <1>4, <1>5, <2>1, CellRead
<1>6. ASSUME NEW h \in Handle, NEW v \in Value, Cell!Set(h, v) PROVE CellInv'
  <2>1. v \in Cell!Word /\ Cell!Bound(h)
    BY <1>6 DEF Cell!CellsAssumption, Cell!Set
  <2> QED BY <1>3, <1>4, <1>6, <2>1, WriteHolds DEF Cell!Set
<1>7. ASSUME NEW x \in Handle, NEW y \in Handle, Cell!Copy(x, y) PROVE CellInv'
  <2>1. Cell!Read(cellMem, y) = val[y] /\ val[y] \in Cell!Word /\ Cell!Bound(x)
    BY <1>5, <1>7 DEF Cell!Copy
  <2> QED BY <1>3, <1>4, <1>7, <2>1, WriteHolds DEF Cell!Copy
<1>8. ASSUME NEW x \in Handle, NEW y \in Handle, Cell!Swap(x, y) PROVE CellInv'
  <2>1. /\ Cell!Read(cellMem, x) = val[x] /\ val[x] \in Cell!Word /\ Cell!Bound(x)
        /\ Cell!Read(cellMem, y) = val[y] /\ val[y] \in Cell!Word /\ Cell!Bound(y)
        /\ Cell!As(Sizeof[x], val[y]) = val[y] /\ Cell!As(Sizeof[y], val[x]) = val[x]
    BY <1>5, <1>8 DEF Cell!Swap
  <2> DEFINE m == Cell!Write(cellMem, x, val[y])
             f == [val EXCEPT ![x] = val[y]]
  <2>2. m \in CellMem /\ f \in CellVal /\ Holds(m, f)
    BY <1>4, <2>1, WriteHolds
  <2>3. cellMem' = Cell!Write(m, y, val[x]) /\ val' = [f EXCEPT ![y] = val[x]]
    BY <1>8, <2>1 DEF Cell!Swap
  <2> HIDE DEF m, f
  <2> QED BY <1>3, <1>4, <2>1, <2>2, <2>3, WriteHolds
<1> QED BY <1>6, <1>7, <1>8

\* A move takes the binding with it.
LEMMA CellMoveInv ==
  ASSUME Cell!CellsAssumption, CellInv, NEW x \in Handle, NEW y \in Handle, Cell!Move(x, y)
  PROVE  CellInv'
<1>1. /\ addr' = [addr EXCEPT ![x] = addr[y], ![y] = Cell!Null]
      /\ val' = [val EXCEPT ![x] = val[y], ![y] = Cell!Unread]
      /\ UNCHANGED <<allocated, cellMem>> /\ Sizeof[x] = Sizeof[y] /\ Cell!Bound(y)
  BY DEF Cell!Move, Cell!Moved
<1>2. CellTypes'
  BY <1>1 DEF CellInv, CellTypes, CellMem, CellVal
<1> DEFINE old(h) == IF h = x THEN y ELSE h
<1>3. \A h \in Handle : h # y => /\ addr'[h] = addr[old(h)] /\ val'[h] = val[old(h)]
                                 /\ old(h) \in Handle /\ Sizeof[h] = Sizeof[old(h)]
  BY <1>1 DEF CellInv, CellTypes, CellVal
<1>4. addr'[y] = Cell!Null /\ val'[y] = Cell!Unread
  BY <1>1 DEF CellInv, CellTypes, CellVal
<1>5. CellPlaced'
  BY <1>1, <1>3, <1>4 DEF CellInv, CellPlaced, Cell!Bound
<1>6. CellDisjoint'
  <2>1. \A g, h \in Handle : g # h /\ g # y /\ h # y => old(g) # old(h)
    OBVIOUS
  <2> HIDE DEF old
  <2> QED BY <1>3, <1>4, <2>1 DEF CellInv, CellDisjoint, Cell!Bound
<1>7. Holds(cellMem, val)'
  <2> SUFFICES ASSUME NEW h \in Handle, val'[h] # Cell!Unread
               PROVE  Cell!Bound(h)' /\ val'[h] = Cell!Read(cellMem, h)'
    BY <1>1 DEF Holds
  <2>1. h # y
    BY <1>4
  <2>2. Cell!Bound(h)' <=> Cell!Bound(old(h))
    BY <1>3, <2>1 DEF Cell!Bound
  <2>3. Cell!Read(cellMem, h)' = Cell!Read(cellMem, old(h))
    <3>1. PICK o : o = old(h)
      OBVIOUS
    <3>2. addr'[h] = addr[o] /\ Sizeof[h] = Sizeof[o] /\ cellMem' = cellMem
      BY <1>1, <1>3, <2>1, <3>1
    <3>3. Cell!Read(cellMem, h)' = Cell!Read(cellMem, o)
      BY <3>2 DEF Cell!Read
    <3> QED BY <3>1, <3>3
  <2> HIDE DEF old
  <2> QED BY <1>3, <2>1, <2>2, <2>3 DEF CellInv, Holds
<1> QED BY <1>2, <1>5, <1>6, <1>7 DEF CellInv

\* The factory gives away what it has not given, and forgets only when no one
\* uses it.
LEMMA CellFactoryInv ==
  ASSUME Cell!CellsAssumption, CellInv,
         (\E h \in Handle : Cell!Allocate(h) \/ Cell!Leave(h)) \/ Cell!Reset
  PROVE  CellInv'
<1>1. Base \in Nat /\ Size \in Nat /\ Base <= Size /\ Sizeof \in [Handle -> {1, 2, 4, 8}]
  BY DEF Cell!CellsAssumption
<1>2. ASSUME NEW h \in Handle, Cell!Allocate(h) PROVE CellInv'
  <2>1. /\ addr' = [addr EXCEPT ![h] = allocated] /\ allocated' = allocated + Sizeof[h]
        /\ allocated + Sizeof[h] <= Base
        /\ val' = [val EXCEPT ![h] = Cell!Unread] /\ cellMem' = cellMem
    BY <1>2 DEF Cell!Allocate
  <2>2. CellTypes'
    <3>1. allocated \in Nat /\ Sizeof[h] \in Nat
      BY <1>1 DEF CellInv, CellTypes
    <3>2. addr' \in [Handle -> {Cell!Null} \cup Nat] /\ allocated' \in 0 .. Base
      BY <1>1, <2>1, <3>1 DEF CellInv, CellTypes
    <3>3. val' \in CellVal
      BY <2>1 DEF CellInv, CellTypes, CellVal
    <3>4. cellMem' \in CellMem
      BY <2>1 DEF CellInv, CellTypes, CellMem
    <3> QED BY <3>2, <3>3, <3>4 DEF CellTypes, CellMem, CellVal
  <2>3. allocated \in Nat /\ Sizeof[h] \in Nat /\ addr'[h] = allocated
        /\ val'[h] = Cell!Unread
    BY <1>1, <2>1 DEF CellInv, CellTypes, CellVal
  <2>4. \A g \in Handle : g # h => addr'[g] = addr[g] /\ val'[g] = val[g]
    BY <2>1 DEF CellInv, CellTypes, CellVal
  <2>5. \A g \in Handle : g # h /\ Cell!Bound(g) =>
          /\ addr[g] \in Nat /\ Sizeof[g] \in Nat
          /\ \/ addr[g] >= Base /\ addr[g] + Sizeof[g] <= Size
             \/ addr[g] + Sizeof[g] <= allocated
    BY <1>1 DEF CellInv, CellTypes, CellPlaced, Cell!Bound
  <2>6. CellPlaced'
    BY <2>1, <2>3, <2>4, <2>5 DEF CellPlaced, Cell!Bound
  <2>7. CellDisjoint'
    <3> SUFFICES ASSUME NEW f \in Handle, NEW g \in Handle, f # g,
                        Cell!Bound(f)', Cell!Bound(g)'
                 PROVE  addr'[f] + Sizeof[f] <= addr'[g] \/ addr'[g] + Sizeof[g] <= addr'[f]
      BY DEF CellDisjoint
    <3>1. CASE f # h /\ g # h
      BY <2>4, <3>1 DEF CellInv, CellDisjoint, Cell!Bound
    <3>2. CASE f = h
      <4>1. Cell!Bound(g)
        BY <2>4, <3>2 DEF Cell!Bound
      <4> QED BY <1>1, <2>1, <2>3, <2>4, <2>5, <3>2, <4>1
    <3>3. CASE g = h
      <4>1. Cell!Bound(f)
        BY <2>4, <3>3 DEF Cell!Bound
      <4> QED BY <1>1, <2>1, <2>3, <2>4, <2>5, <3>3, <4>1
    <3> QED BY <3>1, <3>2, <3>3
  <2>8. Holds(cellMem, val)'
    BY <2>1, <2>3, <2>4 DEF CellInv, Holds, Cell!Bound, Cell!Read
  <2> QED BY <2>2, <2>6, <2>7, <2>8 DEF CellInv
<1>3. ASSUME NEW h \in Handle, Cell!Leave(h) PROVE CellInv'
  <2>1. /\ addr' = [addr EXCEPT ![h] = Cell!Null] /\ val' = [val EXCEPT ![h] = Cell!Unread]
        /\ UNCHANGED <<allocated, cellMem>>
    BY <1>3 DEF Cell!Leave
  <2>2. CellTypes'
    BY <2>1 DEF CellInv, CellTypes, CellMem, CellVal
  <2>3. addr'[h] = Cell!Null /\ val'[h] = Cell!Unread
    BY <2>1 DEF CellInv, CellTypes, CellVal
  <2>4. \A g \in Handle : g # h => addr'[g] = addr[g] /\ val'[g] = val[g]
    BY <2>1 DEF CellInv, CellTypes, CellVal
  <2>5. CellPlaced' /\ CellDisjoint'
    BY <2>1, <2>3, <2>4 DEF CellInv, CellPlaced, CellDisjoint, Cell!Bound
  <2>6. Holds(cellMem, val)'
    BY <2>1, <2>3, <2>4 DEF CellInv, Holds, Cell!Bound, Cell!Read
  <2> QED BY <2>2, <2>5, <2>6 DEF CellInv
<1>4. CASE Cell!Reset
  <2>1. UNCHANGED <<addr, cellMem, val>> /\ allocated' = 0
    BY <1>4 DEF Cell!Reset
  <2>2. CellTypes' /\ CellDisjoint' /\ Holds(cellMem, val)'
    BY <1>1, <2>1 DEF CellInv, CellTypes, CellMem, CellVal, CellDisjoint, Holds,
                      Cell!Bound, Cell!Read
  <2>3. CellPlaced'
    <3> SUFFICES ASSUME NEW h \in Handle, Cell!Bound(h)
                 PROVE  addr[h] >= Base /\ addr[h] + Sizeof[h] <= Size
      BY <2>1 DEF CellPlaced, Cell!Bound
    <3>1. addr[h] >= Base
      BY <1>4 DEF Cell!Reset
    <3>2. addr[h] + Sizeof[h] <= Size
      BY CellBytes DEF CellInv
    <3> QED BY <3>1, <3>2
  <2> QED BY <2>2, <2>3 DEF CellInv
<1> QED BY <1>2, <1>3, <1>4

\* Any step of a test, and any step of another part.
LEMMA CellsStep == Cell!CellsAssumption => (CellInv /\ [Cell!Next]_cellVars => CellInv')
<1> SUFFICES ASSUME Cell!CellsAssumption, CellInv, [Cell!Next]_cellVars PROVE CellInv'
  OBVIOUS
<1>1. CASE UNCHANGED cellVars
  BY <1>1 DEF cellVars, CellInv, CellTypes, CellMem, CellVal, CellPlaced, CellDisjoint, Holds,
              Cell!Bound, Cell!Read
<1>2. CASE Cell!Next
  BY <1>2, CellWriteInv, CellMoveInv, CellFactoryInv DEF Cell!Next
<1> QED BY <1>1, <1>2

\* Every cell reads as a variable, after any program of moves, copies, swaps,
\* scopes, allocations and resets, on any array and any sizes
\* (cell.h:129-302).
THEOREM CellsRight ==
  ASSUME Cell!CellsAssumption PROVE Cell!Spec => []Cell!ReadsAsVariables
<1>1. CellInv => Cell!ReadsAsVariables
  BY DEF CellInv, Holds, Cell!ReadsAsVariables
<1>2. Cell!Init => CellInv
  BY CellsStart
<1>3. CellInv /\ [Cell!Next]_cellVars => CellInv'
  BY CellsStep
<1> QED BY <1>1, <1>2, <1>3, PTL DEF Cell!Spec, Cell!vars, cellVars

\* Cells are variables: whatever was moved, copied between types, swapped and
\* allocated, a cell reads as a variable of the same name and type would
\* (cell.h:129-302).
THEOREM ReadsAsVariablesHolds == AllSpec => []ReadsAsVariables
<1>1. CellInv => ReadsAsVariables
  BY DEF CellInv, Holds, ReadsAsVariables, Cell!ReadsAsVariables
<1>2. AllInit => CellInv
  BY SuiteAssumption, CellsStart DEF AllInit
<1>3. CellInv /\ [AllNext]_allVars => CellInv'
  <2> SUFFICES ASSUME CellInv, [AllNext]_allVars PROVE CellInv'
    OBVIOUS
  <2>1. [Cell!Next]_cellVars
    BY DEF AllNext, allVars, LinePart, BusTick, BusCall, CellPart, LanePart, Aborted
  <2> QED BY SuiteAssumption, <2>1, CellsStep
<1> QED BY <1>1, <1>2, <1>3, PTL DEF AllSpec

-----------------------------------------------------------------------------
(* DBusPipeline: a queue of tasks, run one after the other                 *)

Less == {p \in Nat \X Nat : p[1] < p[2]}

\* Induction on the numbers, for a set.
LEMMA NumberInduction ==
  ASSUME NEW T \in SUBSET Nat, 0 \in T, \A n \in T : n + 1 \in T
  PROVE  T = Nat
<1> SUFFICES ASSUME T # Nat PROVE FALSE
  OBVIOUS
<1>1. IsWellFoundedOn(Less, Nat)
  BY NatLessThanWellFounded DEF OpToRel, Less
<1> DEFINE U == Nat \ T
<1>2. U \subseteq Nat /\ U # {}
  OBVIOUS
<1>3. PICK x \in U : \A y \in U : ~(<<y, x>> \in Less)
  BY <1>1, <1>2, WFMin
<1>4. x \in Nat /\ x \notin T /\ x # 0
  OBVIOUS
<1>5. x - 1 \in Nat /\ (x - 1) + 1 = x
  BY <1>4
<1>6. x - 1 \in U
  BY <1>4, <1>5
<1>7. <<x - 1, x>> \in Less
  BY <1>4, <1>5 DEF Less
<1> QED BY <1>3, <1>6, <1>7

\* The largest of the first n + 1 numbers.
LEMMA LargestOf ==
  ASSUME NEW n \in Nat, NEW s \in SUBSET (1 .. n + 1), n + 1 \in s
  PROVE  Bus!Max(s) = n + 1
<1>1. \A y \in s : n + 1 >= y
  OBVIOUS
<1>2. \A x \in s : (\A y \in s : x >= y) => x = n + 1
  OBVIOUS
<1> QED BY <1>1, <1>2 DEF Bus!Max

\* FoldLeft, as the library defines it: over all sets of places of the queue.
FoldOver(f, s0, q, n) ==
  [s \in SUBSET (1 .. n) |->
     IF s = {} THEN s0 ELSE Bus!RunTask(f[s \ {Bus!Max(s)}], q[Bus!Max(s)])]

LEMMA FoldDefined ==
  ASSUME NEW s0, NEW q, NEW n \in Nat
  PROVE  \E f : f = FoldOver(f, s0, q, n)
<1> DEFINE T == {m \in Nat : \E f : f = FoldOver(f, s0, q, m)}
<1>1. 0 \in T
  <2> DEFINE f == [s \in SUBSET (1 .. 0) |-> s0]
  <2>1. \A s \in SUBSET (1 .. 0) : s = {}
    OBVIOUS
  <2>2. f = FoldOver(f, s0, q, 0)
    BY <2>1 DEF FoldOver
  <2> QED BY <2>2
<1>2. ASSUME NEW m \in T PROVE m + 1 \in T
  <2>1. PICK f : f = FoldOver(f, s0, q, m)
    OBVIOUS
  <2> DEFINE g == [s \in SUBSET (1 .. m + 1) |->
                     IF m + 1 \in s THEN Bus!RunTask(f[s \ {m + 1}], q[m + 1]) ELSE f[s]]
             r(s) == IF s = {} THEN s0
                     ELSE Bus!RunTask(g[s \ {Bus!Max(s)}], q[Bus!Max(s)])
  <2>2. \A s \in SUBSET (1 .. m) : g[s] = f[s]
    OBVIOUS
  <2>3. ASSUME NEW s \in SUBSET (1 .. m + 1) PROVE g[s] = r(s)
    <3>1. CASE m + 1 \in s
      <4>1. Bus!Max(s) = m + 1 /\ s # {}
        BY <3>1, LargestOf
      <4>2. s \ {m + 1} \in SUBSET (1 .. m)
        OBVIOUS
      <4>3. g[s \ {m + 1}] = f[s \ {m + 1}]
        BY <2>2, <4>2
      <4> QED BY <3>1, <4>1, <4>3
    <3>2. CASE m + 1 \notin s
      <4>1. s \in SUBSET (1 .. m) /\ s \ {Bus!Max(s)} \in SUBSET (1 .. m)
        <5>1. m \in Nat
          OBVIOUS
        <5>2. \A x \in s : x \in 1 .. m
          BY <3>2, <5>1
        <5> QED BY <5>2
      <4>2. g[s] = f[s] /\ g[s \ {Bus!Max(s)}] = f[s \ {Bus!Max(s)}]
        BY <2>2, <4>1
      <4>3. f[s] = IF s = {} THEN s0
                   ELSE Bus!RunTask(f[s \ {Bus!Max(s)}], q[Bus!Max(s)])
        BY <2>1, <4>1 DEF FoldOver
      <4> QED BY <4>2, <4>3
    <3> QED BY <3>1, <3>2
  <2>4. g = [s \in SUBSET (1 .. m + 1) |-> g[s]]
    OBVIOUS
  <2> HIDE DEF g
  <2>5. g = FoldOver(g, s0, q, m + 1)
    BY <2>3, <2>4 DEF FoldOver
  <2> QED BY <2>5
<1>3. T = Nat
  <2> HIDE DEF T
  <2>1. T \in SUBSET Nat
    BY DEF T
  <2> QED BY <1>1, <1>2, <2>1, NumberInduction
<1> QED BY <1>3

\* The states between the tasks, from the first to the last.
RunOf(st, s0, q) ==
  st[0] = s0 /\ \A i \in 1 .. Len(q) : st[i] = Bus!RunTask(st[i - 1], q[i])

Fold(s0, q) == Bus!FoldLeft(Bus!RunTask, s0, q)

\* Folding a queue is running it.
LEMMA FoldRuns ==
  ASSUME NEW q \in Seq(Tasks), NEW s0
  PROVE  \E st : RunOf(st, s0, q) /\ Fold(s0, q) = st[Len(q)]
<1> DEFINE n == Len(q)
           f == CHOOSE g : g = FoldOver(g, s0, q, n)
           st == [i \in 0 .. n |-> f[1 .. i]]
<1>1. n \in Nat /\ DOMAIN q = 1 .. n
  OBVIOUS
<1>2. f = FoldOver(f, s0, q, n)
  BY <1>1, FoldDefined
<1>3. Fold(s0, q) = f[1 .. n]
  BY <1>1 DEF Fold, Bus!FoldLeft, Bus!MapThenFoldSet, FoldOver
<1> HIDE DEF f
<1>4. \A s \in SUBSET (1 .. n) :
        f[s] = IF s = {} THEN s0 ELSE Bus!RunTask(f[s \ {Bus!Max(s)}], q[Bus!Max(s)])
  BY <1>2 DEF FoldOver
<1>5. st[0] = s0
  <2>1. 1 .. 0 = {} /\ 1 .. 0 \in SUBSET (1 .. n) /\ 0 \in 0 .. n
    BY <1>1
  <2> QED BY <1>4, <2>1
<1>6. ASSUME NEW i \in 1 .. n PROVE st[i] = Bus!RunTask(st[i - 1], q[i])
  <2>1. i \in Nat /\ i - 1 \in Nat /\ (i - 1) + 1 = i /\ i \in 1 .. i
    <3>1. i \in Nat /\ i >= 1
      BY <1>1
    <3> QED BY <3>1
  <2>2. Bus!Max(1 .. i) = i
    <3>1. 1 .. i \in SUBSET (1 .. (i - 1) + 1) /\ (i - 1) + 1 \in 1 .. i
      BY <2>1
    <3> QED BY <2>1, <3>1, LargestOf
  <2>3. (1 .. i) \ {i} = 1 .. (i - 1) /\ 1 .. i \in SUBSET (1 .. n)
    BY <1>1, <2>1
  <2>4. st[i] = f[1 .. i] /\ st[i - 1] = f[1 .. (i - 1)]
    BY <1>1
  <2> QED BY <1>4, <2>1, <2>2, <2>3, <2>4
<1>7. st[n] = f[1 .. n]
  BY <1>1
<1> QED BY <1>3, <1>5, <1>6, <1>7 DEF RunOf

\* There is one run only.
LEMMA RunIsOne ==
  ASSUME NEW q \in Seq(Tasks), NEW s0, NEW st, NEW su, RunOf(st, s0, q), RunOf(su, s0, q)
  PROVE  st[Len(q)] = su[Len(q)]
<1> DEFINE T == {i \in Nat : i <= Len(q) => st[i] = su[i]}
<1>1. 0 \in T
  BY DEF RunOf
<1>2. ASSUME NEW i \in T PROVE i + 1 \in T
  <2> SUFFICES ASSUME i + 1 <= Len(q) PROVE st[i + 1] = su[i + 1]
    OBVIOUS
  <2>1. i \in Nat /\ Len(q) \in Nat /\ i + 1 \in 1 .. Len(q) /\ (i + 1) - 1 = i
    OBVIOUS
  <2>2. st[i] = su[i]
    BY <2>1
  <2>3. /\ st[i + 1] = Bus!RunTask(st[(i + 1) - 1], q[i + 1])
        /\ su[i + 1] = Bus!RunTask(su[(i + 1) - 1], q[i + 1])
    BY <2>1 DEF RunOf
  <2> QED BY <2>1, <2>2, <2>3
<1>3. T = Nat
  <2> HIDE DEF T
  <2>1. T \in SUBSET Nat
    BY DEF T
  <2> QED BY <1>1, <1>2, <2>1, NumberInduction
<1>4. Len(q) \in Nat /\ Len(q) <= Len(q)
  OBVIOUS
<1> QED BY <1>3, <1>4

\* A task at the back runs last, the one at the front first.
LEMMA FoldFacts ==
  /\ \A s0 : Fold(s0, <<>>) = s0
  /\ \A s0 : \A q \in Seq(Tasks), t \in Tasks :
       Fold(s0, Append(q, t)) = Bus!RunTask(Fold(s0, q), t)
  /\ \A s0 : \A q \in Seq(Tasks) :
       q # <<>> => Fold(s0, q) = Fold(Bus!RunTask(s0, Head(q)), Tail(q))
<1>1. ASSUME NEW s0 PROVE Fold(s0, <<>>) = s0
  <2>1. <<>> \in Seq(Tasks) /\ Len(<<>>) = 0
    OBVIOUS
  <2>2. PICK st : RunOf(st, s0, <<>>) /\ Fold(s0, <<>>) = st[Len(<<>>)]
    BY <2>1, FoldRuns
  <2> QED BY <2>1, <2>2 DEF RunOf
<1>2. ASSUME NEW s0, NEW q \in Seq(Tasks), NEW t \in Tasks
      PROVE  Fold(s0, Append(q, t)) = Bus!RunTask(Fold(s0, q), t)
  <2> DEFINE p == Append(q, t)
  <2>1. /\ p \in Seq(Tasks) /\ Len(q) \in Nat /\ Len(p) = Len(q) + 1 /\ p[Len(p)] = t
        /\ \A i \in 1 .. Len(q) : p[i] = q[i]
    OBVIOUS
  <2> HIDE DEF p
  <2>2. PICK st : RunOf(st, s0, p) /\ Fold(s0, p) = st[Len(p)]
    BY <2>1, FoldRuns
  <2>3. PICK su : RunOf(su, s0, q) /\ Fold(s0, q) = su[Len(q)]
    BY FoldRuns
  <2>4. RunOf(st, s0, q)
    BY <2>1, <2>2 DEF RunOf
  <2>5. st[Len(q)] = su[Len(q)]
    BY <2>3, <2>4, RunIsOne
  <2>6. st[Len(p)] = Bus!RunTask(st[Len(p) - 1], p[Len(p)])
    BY <2>1, <2>2 DEF RunOf
  <2>7. Len(p) - 1 = Len(q)
    BY <2>1
  <2>8. Fold(s0, p) = Bus!RunTask(Fold(s0, q), t)
    BY <2>1, <2>2, <2>3, <2>5, <2>6, <2>7
  <2> QED BY <2>8 DEF p
<1>3. ASSUME NEW s0, NEW q \in Seq(Tasks), q # <<>>
      PROVE  Fold(s0, q) = Fold(Bus!RunTask(s0, Head(q)), Tail(q))
  <2> DEFINE r == Tail(q)
             s1 == Bus!RunTask(s0, Head(q))
  <2>1. /\ r \in Seq(Tasks) /\ Len(q) \in Nat /\ Len(q) >= 1 /\ Len(r) = Len(q) - 1
        /\ Head(q) = q[1] /\ \A i \in 1 .. Len(r) : r[i] = q[i + 1]
    BY <1>3
  <2> HIDE DEF r
  <2>2. PICK st : RunOf(st, s0, q) /\ Fold(s0, q) = st[Len(q)]
    BY FoldRuns
  <2>3. PICK su : RunOf(su, s1, r) /\ Fold(s1, r) = su[Len(r)]
    BY <2>1, FoldRuns
  <2> DEFINE sv == [i \in 0 .. Len(r) |-> st[i + 1]]
  <2>4. st[0] = s0 /\ \A i \in 1 .. Len(q) : st[i] = Bus!RunTask(st[i - 1], q[i])
    BY <2>2 DEF RunOf
  <2>5. sv[0] = s1
    <3>1. 1 \in 1 .. Len(q) /\ 0 \in 0 .. Len(r) /\ 0 + 1 = 1 /\ 1 - 1 = 0
      BY <2>1
    <3> QED BY <2>1, <2>4, <3>1
  <2>6. ASSUME NEW i \in 1 .. Len(r) PROVE sv[i] = Bus!RunTask(sv[i - 1], r[i])
    <3>1. i + 1 \in 1 .. Len(q) /\ i \in 0 .. Len(r) /\ i - 1 \in 0 .. Len(r)
          /\ (i + 1) - 1 = i /\ (i - 1) + 1 = i
      BY <2>1
    <3>2. st[i + 1] = Bus!RunTask(st[i], q[i + 1])
      BY <2>4, <3>1
    <3> QED BY <2>1, <3>1, <3>2
  <2>7. sv[Len(r)] = st[Len(q)]
    BY <2>1
  <2> HIDE DEF sv
  <2>8. RunOf(sv, s1, r)
    BY <2>5, <2>6 DEF RunOf
  <2>9. sv[Len(r)] = su[Len(r)]
    BY <2>1, <2>3, <2>8, RunIsOne
  <2>10. Fold(s0, q) = Fold(s1, r)
    BY <2>2, <2>3, <2>7, <2>9
  <2> QED BY <2>10 DEF r
<1> QED BY <1>1, <1>2, <1>3

\* The front task is on the bus; one that is awaited is alone; and the queue,
\* run now, leads to what the test expects.
BusInv ==
  /\ ongoing \in Seq(Tasks)
  /\ busReq = [valid |-> busReq.valid, addr |-> busReq.addr,
               strobe |-> busReq.strobe, data |-> busReq.data]
  /\ busReq.valid = (ongoing # <<>>)
  /\ ongoing # <<>> =>
       /\ busReq.addr = Head(ongoing).addr /\ busReq.strobe = Head(ongoing).strobe
       /\ ~Bus!is_load(Head(ongoing)) => busReq.data = Head(ongoing).data
  /\ user = "none" => ongoing = <<>>
  /\ user = "await" => Len(ongoing) = 1
  /\ Fold(Bus!State, ongoing) = expected

\* The request of a task.
LEMMA IssueFacts ==
  ASSUME NEW t, NEW q \in Seq(Tasks), q # <<>>, Head(q) = t, ongoing' = q, busReq' = Bus!Issue(t)
  PROVE  /\ (busReq = [valid |-> busReq.valid, addr |-> busReq.addr,
                       strobe |-> busReq.strobe, data |-> busReq.data])'
         /\ (busReq.valid = (ongoing # <<>>))'
         /\ (ongoing # <<>> =>
               /\ busReq.addr = Head(ongoing).addr /\ busReq.strobe = Head(ongoing).strobe
               /\ ~Bus!is_load(Head(ongoing)) => busReq.data = Head(ongoing).data)'
<1>1. /\ busReq' = [valid |-> TRUE, addr |-> t.addr, strobe |-> t.strobe, data |-> busReq'.data]
      /\ ~Bus!is_load(t) => busReq'.data = t.data
  BY DEF Bus!Issue
<1>2. busReq'.valid = TRUE /\ (ongoing' # <<>>) = TRUE
  BY <1>1
<1>3. busReq'.addr = t.addr /\ busReq'.strobe = t.strobe
  BY <1>1
<1>4. busReq' = [valid |-> busReq'.valid, addr |-> busReq'.addr,
                 strobe |-> busReq'.strobe, data |-> busReq'.data]
  BY <1>1, <1>2, <1>3
<1>5. ~Bus!is_load(Head(ongoing'))  => busReq'.data = Head(ongoing').data
  BY <1>1
<1> QED BY <1>2, <1>3, <1>4, <1>5 DEF Bus!is_load

\* The bus is free.
LEMMA ClearFacts ==
  ASSUME BusInv, ongoing' = <<>>,
         busReq' = Bus!Clear \/ (busReq' = busReq /\ ~busReq.valid)
  PROVE  /\ ongoing' \in Seq(Tasks)
         /\ (busReq = [valid |-> busReq.valid, addr |-> busReq.addr,
                       strobe |-> busReq.strobe, data |-> busReq.data])'
         /\ (busReq.valid = (ongoing # <<>>))'
<1>1. busReq = [valid |-> busReq.valid, addr |-> busReq.addr,
                strobe |-> busReq.strobe, data |-> busReq.data]
  BY DEF BusInv
<1>2. busReq' = [valid |-> FALSE, addr |-> busReq.addr,
                 strobe |-> busReq.strobe, data |-> busReq.data]
  <2>1. CASE busReq' = Bus!Clear
    BY <1>1, <2>1 DEF Bus!Clear
  <2>2. CASE busReq' = busReq /\ ~busReq.valid
    <3>1. busReq.valid = FALSE
      BY <2>2 DEF BusInv
    <3> QED BY <1>1, <2>2, <3>1
  <2> QED BY <2>1, <2>2
<1>3. busReq'.valid = FALSE
  BY <1>2
<1>4. /\ busReq'.addr = busReq.addr /\ busReq'.strobe = busReq.strobe
      /\ busReq'.data = busReq.data
  BY <1>2
<1>5. (ongoing' # <<>>) = FALSE /\ ongoing' \in Seq(Tasks)
  OBVIOUS
<1> QED BY <1>2, <1>3, <1>4, <1>5

\* The cycle of an answer runs the front task, and no other cycle changes
\* anything.
LEMMA AnswerFacts ==
  ASSUME BusInv, Bus!MemoryTick, Bus!Answer
  PROVE  /\ ongoing' \in Seq(Tasks)
         /\ Fold(Bus!State', ongoing') = expected
         /\ Bus!Answered => ongoing # <<>> /\ ongoing' = Tail(ongoing)
         /\ ~Bus!Answered => ongoing' = ongoing
<1>1. ongoing \in Seq(Tasks) /\ busReq.valid = (ongoing # <<>>) /\ Fold(Bus!State, ongoing) = expected
  BY DEF BusInv
<1>2. CASE Bus!Answered
  <2>1. busReq.valid /\ busOk
    BY <1>2 DEF Bus!Answered
  <2>2. ongoing # <<>>
    BY <1>1, <2>1
  <2>3. PICK t : t = Head(ongoing)
    OBVIOUS
  <2>4. /\ busReq.addr = t.addr /\ busReq.strobe = t.strobe
        /\ t.strobe # {} => busReq.data = t.data
    BY <2>2, <2>3 DEF BusInv, Bus!is_load
  <2>5. Bus!MergeWord(busMem[t.addr], t.strobe, busReq.data)
          = Bus!MergeWord(busMem[t.addr], t.strobe, t.data)
    BY <2>4 DEF Bus!MergeWord
  <2>6. PICK m : m = [busMem EXCEPT ![t.addr] = Bus!MergeWord(busMem[t.addr], t.strobe, t.data)]
    OBVIOUS
  <2>7. busMem' = m
    BY <2>1, <2>4, <2>5, <2>6 DEF Bus!MemoryTick
  <2>8. /\ dests' = Bus!Apply(Bus!State, t, busMem[t.addr]).dests
        /\ busFailed' = Bus!Apply(Bus!State, t, busMem[t.addr]).failed
        /\ ongoing' = Tail(ongoing)
    BY <1>2, <2>3, <2>4 DEF Bus!Answer
  <2>9. Bus!RunTask(Bus!State, t)
          = Bus!Apply([mem |-> m, dests |-> dests, failed |-> busFailed], t, busMem[t.addr])
    BY <2>6 DEF Bus!RunTask, Bus!State
  <2>10. PICK w : w = busMem[t.addr]
    OBVIOUS
  <2>11. Bus!Apply([mem |-> m, dests |-> dests, failed |-> busFailed], t, w)
           = [mem |-> m, dests |-> Bus!Apply(Bus!State, t, w).dests,
              failed |-> Bus!Apply(Bus!State, t, w).failed]
    BY DEF Bus!Apply, Bus!State
  <2>12. Bus!State' = [mem |-> busMem', dests |-> dests', failed |-> busFailed']
    BY DEF Bus!State
  <2>13. Bus!State' = Bus!RunTask(Bus!State, t)
    BY <2>7, <2>8, <2>9, <2>10, <2>11, <2>12
  <2>14. Tail(ongoing) \in Seq(Tasks)
    BY <1>1, <2>2
  <2> QED BY <1>1, <1>2, <2>2, <2>3, <2>8, <2>13, <2>14, FoldFacts
<1>3. CASE ~Bus!Answered
  <2>1. UNCHANGED <<dests, busFailed, ongoing, busMem>>
    BY <1>3 DEF Bus!Answered, Bus!MemoryTick, Bus!Answer
  <2>2. Bus!State' = Bus!State
    BY <2>1 DEF Bus!State
  <2> QED BY <1>1, <1>3, <2>1, <2>2
<1> QED BY <1>2, <1>3

\* A cycle of the pipeline, and one of an access that is awaited.
LEMMA BusTickInv == ASSUME BusInv, Bus!Tick PROVE BusInv'
<1>1. Bus!MemoryTick /\ Bus!Answer /\ expected' = expected
  BY DEF Bus!Tick, Bus!PipelineTick, Bus!AwaitTick
<1>2. /\ ongoing' \in Seq(Tasks) /\ Fold(Bus!State', ongoing') = expected'
      /\ Bus!Answered => ongoing # <<>> /\ ongoing' = Tail(ongoing)
      /\ ~Bus!Answered => ongoing' = ongoing
  BY <1>1, AnswerFacts
<1>3. (Fold(Bus!State, ongoing) = expected)'
  BY <1>2 DEF Fold
<1>4. CASE Bus!PipelineTick
  <2>1. user' = user /\ user \notin {"none", "await"} /\ busReq' = Bus!NextRequest
    BY <1>4 DEF Bus!PipelineTick
  <2>2. CASE ongoing' = <<>>
    BY <1>3, <2>1, <2>2, ClearFacts DEF BusInv, Bus!NextRequest
  <2>3. CASE ongoing' # <<>>
    <3>1. busReq' = Bus!Issue(Head(ongoing'))
      BY <2>1, <2>3 DEF Bus!NextRequest
    <3> QED BY <1>2, <1>3, <2>1, <2>3, <3>1, IssueFacts DEF BusInv
  <2> QED BY <2>2, <2>3
<1>5. CASE Bus!AwaitTick
  <2>1. user = "await" /\ Len(ongoing) = 1 /\ ongoing \in Seq(Tasks)
    BY <1>5 DEF Bus!AwaitTick, BusInv
  <2>2. CASE Bus!Answered
    <3>1. busReq' = Bus!Clear /\ user' = "none"
      BY <1>5, <2>2 DEF Bus!AwaitTick
    <3>2. ongoing' = <<>>
      <4>1. Len(Tail(ongoing)) = 0 /\ Tail(ongoing) \in Seq(Tasks)
        BY <2>1
      <4> QED BY <1>2, <2>2, <4>1
    <3> QED BY <1>3, <3>1, <3>2, ClearFacts DEF BusInv
  <2>3. CASE ~Bus!Answered
    <3>1. UNCHANGED <<busReq, user, ongoing>>
      BY <1>2, <1>5, <2>3 DEF Bus!AwaitTick
    <3> QED BY <1>3, <3>1 DEF BusInv, Bus!is_load
  <2> QED BY <2>2, <2>3
<1> QED BY <1>4, <1>5 DEF Bus!Tick

\* A call of the test: a submitted task is expected to run after all others.
LEMMA BusCallInv == ASSUME BusInv, Bus!Call PROVE BusInv'
<1>1. UNCHANGED <<busMem, dests, busFailed>>
  BY DEF Bus!Call, Bus!Submit, Bus!LoadOrStore, Bus!Fence, Bus!FenceReturns, Bus!Construct
<1>2. Bus!State' = Bus!State
  BY <1>1 DEF Bus!State
<1>3. ongoing \in Seq(Tasks) /\ Fold(Bus!State, ongoing) = expected
      /\ busReq.valid = (ongoing # <<>>)
  BY DEF BusInv
<1>4. ASSUME NEW t \in Tasks, ongoing' = Append(ongoing, t), expected' = Bus!RunTask(expected, t)
      PROVE  /\ ongoing' \in Seq(Tasks) /\ ongoing' # <<>>
             /\ (Fold(Bus!State, ongoing) = expected)'
             /\ IF ongoing = <<>> THEN Head(ongoing') = t ELSE Head(ongoing') = Head(ongoing)
             /\ Len(ongoing') = Len(ongoing) + 1
  <2>1. /\ Append(ongoing, t) \in Seq(Tasks) /\ Append(ongoing, t) # <<>>
        /\ IF ongoing = <<>> THEN Head(Append(ongoing, t)) = t
           ELSE Head(Append(ongoing, t)) = Head(ongoing)
        /\ Len(Append(ongoing, t)) = Len(ongoing) + 1
    <3>1. /\ ongoing \in Seq(Tasks)
          /\ Append(ongoing, t) \in Seq(Tasks) /\ Append(ongoing, t) # <<>>
          /\ Len(Append(ongoing, t)) = Len(ongoing) + 1
      <4>1. ongoing \in Seq(Tasks)
        BY DEF BusInv
      <4>2. Len(Append(ongoing, t)) = Len(ongoing) + 1 /\ Len(ongoing) \in Nat
        BY <4>1
      <4>3. Append(ongoing, t) # <<>>
        BY <4>2
      <4> QED BY <4>1, <4>2, <4>3
    <3>2. Head(Append(ongoing, t)) = Append(ongoing, t)[1]
      BY <3>1
    <3>3. CASE ongoing = <<>>
      BY <3>1, <3>3
    <3>4. CASE ongoing # <<>>
      <4>1. Head(ongoing) = ongoing[1] /\ 1 \in 1 .. Len(ongoing)
        BY <3>1, <3>4
      <4> QED BY <3>1, <3>2, <3>4, <4>1
    <3> QED BY <3>1, <3>3, <3>4
  <2>2. Fold(Bus!State, Append(ongoing, t)) = Bus!RunTask(expected, t)
    BY <1>3, FoldFacts
  <2>3. Fold(Bus!State', ongoing') = expected'
    BY <1>2, <1>4, <2>2
  <2> QED BY <1>4, <2>1, <2>3 DEF Fold
<1>5. ASSUME NEW t \in Tasks, Bus!Submit(t) PROVE BusInv'
  <2>1. /\ ongoing' = Append(ongoing, t) /\ expected' = Bus!RunTask(expected, t)
        /\ user = "free" /\ user' = user
        /\ busReq' = IF busReq.valid THEN busReq ELSE Bus!Issue(t)
    BY <1>5 DEF Bus!Submit, Bus!SubmitRequest
  <2>2. CASE ongoing = <<>>
    <3>1. busReq' = Bus!Issue(t)
      BY <1>3, <2>1, <2>2
    <3> QED BY <1>4, <2>1, <2>2, <3>1, IssueFacts DEF BusInv
  <2>3. CASE ongoing # <<>>
    <3>1. busReq' = busReq
      BY <1>3, <2>1, <2>3
    <3>2. Head(ongoing') = Head(ongoing) /\ ongoing' # <<>>
      BY <1>4, <2>1, <2>3
    <3> QED BY <1>4, <2>1, <2>3, <3>1, <3>2 DEF BusInv, Bus!is_load
  <2> QED BY <2>2, <2>3
<1>6. ASSUME NEW t \in Tasks, Bus!LoadOrStore(t) PROVE BusInv'
  <2>1. /\ ongoing' = <<t>> /\ expected' = Bus!RunTask(expected, t)
        /\ user = "none" /\ user' = "await" /\ busReq' = Bus!Issue(t)
    BY <1>6 DEF Bus!LoadOrStore
  <2>2. ongoing = <<>> /\ Append(<<>>, t) = <<t>> /\ Len(<<t>>) = 1
    BY <2>1 DEF BusInv
  <2> QED BY <1>4, <2>1, <2>2, IssueFacts DEF BusInv
<1>7. ASSUME UNCHANGED <<ongoing, busReq, expected>>,
             user' = "none" => ongoing = <<>>, user' # "await"
      PROVE  BusInv'
  <2>1. (Fold(Bus!State, ongoing) = expected)'
    BY <1>2, <1>3, <1>7 DEF Fold
  <2> QED BY <1>7, <2>1 DEF BusInv, Bus!is_load
<1>8. CASE Bus!Fence \/ Bus!FenceReturns \/ Bus!Construct
  BY <1>7, <1>8 DEF Bus!Fence, Bus!FenceReturns, Bus!Construct, Bus!busVars
<1> QED BY <1>5, <1>6, <1>8 DEF Bus!Call

\* Every first state and every step, of the pipeline and of the other parts.
LEMMA BusStart == Bus!Init => BusInv
<1> SUFFICES ASSUME Bus!Init PROVE BusInv
  OBVIOUS
<1>1. /\ user = "none" /\ ongoing = <<>> /\ expected = Bus!State
      /\ busReq = [valid |-> FALSE, addr |-> busReq.addr,
                   strobe |-> busReq.strobe, data |-> busReq.data]
  BY DEF Bus!Init
<1>2. busReq.valid = FALSE /\ (ongoing # <<>>) = FALSE
  BY <1>1
<1>3. Fold(Bus!State, ongoing) = expected
  BY <1>1, FoldFacts
<1>4. ongoing \in Seq(Tasks)
  BY <1>1
<1> QED BY <1>1, <1>2, <1>3, <1>4 DEF BusInv

LEMMA BusStep == BusInv /\ [Bus!Next]_busVars => BusInv'
<1> SUFFICES ASSUME BusInv, [Bus!Next]_busVars PROVE BusInv'
  OBVIOUS
<1>1. CASE UNCHANGED busVars
  <2>1. /\ UNCHANGED <<user, ongoing, busReq, expected>>
        /\ Bus!State' = Bus!State
    BY <1>1 DEF busVars, Bus!State
  <2>2. (Fold(Bus!State, ongoing) = expected)'
    BY <2>1 DEF BusInv, Fold
  <2> QED BY <2>1, <2>2 DEF BusInv, Bus!is_load
<1> QED BY <1>1, BusTickInv, BusCallInv DEF Bus!Next

\* Whatever is submitted and whenever the bus answers, the tasks that are done
\* and those that wait make up what was submitted, in its order, with a queue
\* of any length (bus.h:647-687,862-867).
THEOREM PipelineInOrder == Bus!Spec => []Bus!InOrder
<1>1. BusInv => Bus!InOrder
  BY DEF BusInv, Fold, Bus!InOrder
<1>2. BusInv /\ [Bus!Next]_(Bus!vars) => BusInv'
  BY BusStep DEF Bus!vars, Bus!busVars, busVars
<1> QED BY <1>1, <1>2, BusStart, PTL DEF Bus!Spec

\* What is done and what is still queued make up what was submitted, in that
\* order, and so does an access that is awaited (bus.h:647-687,862-867).
THEOREM InOrderHolds == AllSpec => []InOrder
<1>1. BusInv => InOrder
  BY DEF BusInv, Fold, InOrder, Bus!InOrder
<1>2. AllInit => BusInv
  BY BusStart DEF AllInit
<1>3. BusInv /\ [AllNext]_allVars => BusInv'
  <2> SUFFICES ASSUME BusInv, [AllNext]_allVars PROVE BusInv'
    OBVIOUS
  <2>1. [Bus!Next]_busVars
    BY DEF AllNext, allVars, LinePart, BusTick, BusCall, CellPart, LanePart, Aborted, Bus!Next
  <2> QED BY <2>1, BusStep
<1> QED BY <1>1, <1>2, <1>3, PTL DEF AllSpec
=============================================================================
