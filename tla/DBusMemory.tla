----------------------------- MODULE DBusMemory -----------------------------
(***************************************************************************)
(* What a data bus promises its master (the reference model of the test    *)
(* bench, VCacheTop/cache_ref.cpp, seen through the handshake of           *)
(* dbus_req_t and dbus_resp_t): one memory, one access at a time, each     *)
(* taking effect once, when the request is answered, and never otherwise.  *)
(***************************************************************************)
EXTENDS CBus

CONSTANTS
  InitMem,   \* the memory after a reset
  Requests,  \* the requests the master may make
  IdleReqs   \* what the master may drive without a request

VARIABLES
  dreq,   \* what the master drives
  ram,    \* the memory, as the master sees it
  rdata   \* the last answer the master took

memoryVars == <<dreq, ram, rdata>>

\* The inputs a master may drive once it waits for nothing: a new request,
\* or its last one with valid taken back (DBus::clear), or other idle inputs.
NextReq == Requests \cup IdleReqs \cup {[dreq EXCEPT !.valid = FALSE]}

MemoryInit ==
  /\ dreq = DReq0
  /\ ram = InitMem
  /\ rdata = Word0

\* A load returns the memory's word; what a store returns is not promised.
Answer ==
  /\ dreq.valid
  /\ rdata' \in Word
  /\ dreq.strobe = {} => rdata' = ram[dreq.addr]
  /\ ram' = [ram EXCEPT ![dreq.addr] = Merge(@, dreq.strobe, dreq.data)]
  /\ dreq' \in NextReq

Quiet ==
  /\ ~dreq.valid
  /\ dreq' \in NextReq
  /\ UNCHANGED <<ram, rdata>>

Restart ==
  /\ dreq' = DReq0
  /\ ram' = InitMem
  /\ UNCHANGED rdata

MemoryNext == Answer \/ Quiet \/ Restart

MemorySpec == MemoryInit /\ [][MemoryNext]_memoryVars
=============================================================================
