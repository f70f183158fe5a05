------------------------------ MODULE RefCache ------------------------------
(***************************************************************************)
(* The test bench built with REFERENCE_CACHE (make test-refcache): the one *)
(* line buffer in the #else branch of DCache.sv that every access fills    *)
(* and every store flushes, on the burst memory, compared by CMP_TO with   *)
(* the reference model of VCacheTop/cache_ref.cpp after every access and   *)
(* at the end of the test.                                                 *)
(***************************************************************************)
EXTENDS CBusDevice

CONSTANT Accesses  \* what a test may load and store: [addr, strobe, data]

ASSUME AccessesAssumption == Accesses \subseteq [addr : Addr, strobe : Strobe, data : Word]

VARIABLES
  dreq,     \* the test's request
  state,    \* IDLE, FETCH, READY, FLUSH
  req,      \* dreq, as accepted
  offset,   \* of the word in the line
  ram,      \* the line
  refMem,   \* mem of CacheRefModel
  buffer,   \* its buffer
  failed    \* an assertion of CMP_TO or check_internal has failed

lineVars == <<state, req, offset, ram>>
refVars == <<refMem, buffer, failed>>
vars == <<dreq, lineVars, refVars, deviceVars>>

-----------------------------------------------------------------------------
(* DCache.sv:358-467                                                       *)

creq ==
  [valid |-> state \in {"FETCH", "FLUSH"}, is_write |-> state = "FLUSH", addr |-> req.addr,
   strobe |-> Lane, data |-> ram[offset], len |-> WordsPerLine]

data_ok == state = "READY"

NextOffset(o) == (o + 1) % WordsPerLine

\* Mutant: the fill begins at the start of the line, the burst does not.
start0 == 0

start == dreq.addr.offset

Accept ==
  IF dreq.valid
  THEN state' = "FETCH" /\ req' = dreq /\ offset' = start /\ UNCHANGED ram
  ELSE UNCHANGED lineVars

\* A cycle of the fill or of the flush; the device reads ram[offset] of now,
\* and in FETCH the RAM takes what is on the bus, an answer or not.
Beat(next) ==
  /\ IF cresp.ready
     THEN state' = (IF cresp.last THEN next ELSE state) /\ offset' = NextOffset(offset)
     ELSE UNCHANGED <<state, offset>>
  /\ ram' = IF state = "FETCH" THEN [ram EXCEPT ![offset] = cresp.data] ELSE ram
  /\ UNCHANGED req

\* The access itself, on the word the offset is back at.
Perform ==
  /\ ram' = [ram EXCEPT ![offset] = Merge(@, req.strobe, req.data)]
  /\ state' = IF req.strobe # {} THEN "FLUSH" ELSE "IDLE"
  /\ UNCHANGED <<req, offset>>

LineCycle ==
  \/ state = "IDLE"  /\ Accept
  \/ state = "FETCH" /\ Beat("READY")
  \/ state = "READY" /\ Perform
  \/ state = "FLUSH" /\ Beat("IDLE")

-----------------------------------------------------------------------------
(* cache_ref.cpp                                                           *)

LineOf(m, addr) == [o \in Offset |-> m[[addr EXCEPT !.offset = o]]]

\* load and store: the line of addr, and in it the store.
RefBuffer == [LineOf(refMem, dreq.addr) EXCEPT
                ![dreq.addr.offset] = Merge(@, dreq.strobe, dreq.data)]

RefStore == [refMem EXCEPT ![dreq.addr] = Merge(@, dreq.strobe, dreq.data)]

\* load compares the words; both then check_internal.
Compare(got) ==
  /\ buffer' = RefBuffer
  /\ refMem' = RefStore
  /\ failed' = \/ dreq.strobe = {} /\ got # buffer'[dreq.addr.offset]
               \/ buffer' # ram'

-----------------------------------------------------------------------------
(* The test                                                                *)

\* _TestbenchDBusWrapper::load and store begin a DBus access.
Issue(a) ==
  /\ ~dreq.valid
  /\ dreq' = [valid |-> TRUE, addr |-> a.addr, strobe |-> a.strobe, data |-> a.data]
  /\ UNCHANGED <<lineVars, refVars, deviceVars>>

\* A tick of await, or of the test itself.
Tick ==
  /\ LineCycle
  /\ DeviceCycle(creq)
  /\ IF dreq.valid /\ data_ok
     THEN dreq' = [dreq EXCEPT !.valid = FALSE] /\ Compare(ram[offset])
     ELSE UNCHANGED <<dreq, refVars>>

\* The next test: top->reset() and ref->reset().  The line keeps its words.
NextTest ==
  /\ ~dreq.valid
  /\ state' = "IDLE" /\ req' = DReq0 /\ offset' = 0
  /\ DeviceReset
  /\ refMem' = InitMem
  /\ UNCHANGED <<dreq, ram, buffer, failed>>

Init ==
  /\ dreq = DReq0 /\ req = DReq0 /\ state = "IDLE" /\ offset = 0
  /\ ram = [o \in Offset |-> Word0]
  /\ DeviceInit
  /\ refMem = InitMem /\ buffer = [o \in Offset |-> Word0] /\ failed = FALSE

Next ==
  /\ ~failed
  /\ \/ \E a \in Accesses : Issue(a)
     \/ Tick
     \/ NextTest

Spec == Init /\ [][Next]_vars

-----------------------------------------------------------------------------
(* Properties                                                              *)

\* The line buffer and the reference model agree after every access, in the
\* word that is loaded and in all words of the line, and the device sees one
\* request from the start to the end of a burst (testbench.h:185-206,
\* cache_ref.cpp:79-103, cbus_device.cpp:39-43).
RefAgrees == ~failed /\ RequestHeld(creq)
=============================================================================
