-------------------------------- MODULE CBus --------------------------------
(***************************************************************************)
(* The data types of the buses (vsrc/include/common.sv; on the side of the *)
(* test benches verilate/include/bus.h) as the data cache sees them:       *)
(* an address is a tag, a set index and a word offset (the three functions *)
(* at the top of DCache.sv), a word is one byte per lane.                  *)
(***************************************************************************)
EXTENDS Integers, FiniteSets

CONSTANTS
  Tag,           \* the values of addr[63 : 3+OFFSET_BITS+INDEX_BITS]
  IOTag,         \* the tags with addr[31] = 0, which bypass the cache
  Tag0,          \* the tag of address 0
  SetNum,        \* SET_NUM, a power of two
  WordsPerLine,  \* WORDS_PER_LINE, a power of two
  Lane,          \* the byte lanes of a word
  Byte,          \* the values of a byte lane
  Byte0          \* the byte 0

ASSUME TagAssumption == Tag0 \in IOTag /\ IOTag \subseteq Tag

ASSUME ByteAssumption == Byte0 \in Byte

\* The set a FLUSH cycle clears is the low INDEX_BITS of offset_cnt: there
\* must be at least as many offsets as sets (16 and 8 in the code).
ASSUME SizeAssumption ==
  /\ SetNum \in Nat \ {0}
  /\ WordsPerLine \in Nat \ {0}
  /\ WordsPerLine % SetNum = 0

Index  == 0 .. SetNum - 1
Offset == 0 .. WordsPerLine - 1
Word   == [Lane -> Byte]
Strobe == SUBSET Lane

\* get_tag, get_index and get_offset as the fields of an address.
Addr == [tag : Tag, index : Index, offset : Offset]

Addr0 == [tag |-> Tag0, index |-> 0, offset |-> 0]
Word0 == [l \in Lane |-> Byte0]

\* addr[31] is 0: the request is for a device, not for cached memory.
Uncached(addr) == addr.tag \in IOTag

\* A byte-strobed write of data over old.
Merge(old, strobe, data) ==
  [l \in Lane |-> IF l \in strobe THEN data[l] ELSE old[l]]

DReq  == [valid : BOOLEAN, addr : Addr, strobe : Strobe, data : Word]
DResp == [addr_ok : BOOLEAN, data_ok : BOOLEAN, data : Word]

\* len is the number of beats: MLEN1 or MLEN16 (one line).
CReq  == [valid : BOOLEAN, is_write : BOOLEAN, addr : Addr,
          strobe : Strobe, data : Word, len : {1, WordsPerLine}]
CResp == [ready : BOOLEAN, last : BOOLEAN, data : Word]

DReq0  == [valid |-> FALSE, addr |-> Addr0, strobe |-> {}, data |-> Word0]
CResp0 == [ready |-> FALSE, last |-> FALSE, data |-> Word0]
=============================================================================
