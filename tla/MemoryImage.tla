---------------------------- MODULE MemoryImage ----------------------------
(***************************************************************************)
(* The memory of a simulation and where its contents come from: the file   *)
(* parsers of verilate/vsrc/common.cpp and BlockMemory and MemoryRouter of *)
(* verilate/vsrc/memory.cpp.  A word is its eight bytes; a line of a file  *)
(* is a name for what trim leaves of it.                                   *)
(***************************************************************************)
EXTENDS Integers, Sequences, SequencesExt, FiniteSets

CONSTANTS
  Files,            \* [opens, suffix, header, radix, vector, body]
  Parsed,           \* a line, a base -> [count, data]: what stoull makes of it
  Size,             \* of the memory, in bytes, a multiple of 8
  Layout,           \* the router's entries, [matches, translate], in order
  Addresses, Bytes  \* of a store

VARIABLES
  file, phase,
  base, rest, seq,        \* feed: the base, what is left of the file, the result
  i, mem, saved_mem       \* BlockMemory::map's loop and the memory

parseVars == <<base, rest, seq>>
vars == <<file, phase, parseVars, i, mem, saved_mem>>

Byte == 0 .. 255
Zero == [w \in 0 .. Size \div 8 - 1 |-> [b \in 0 .. 7 |-> 0]]

-----------------------------------------------------------------------------
(* parse_memory_file                                                       *)

Stay == UNCHANGED <<file, i, mem, saved_mem>>

asserts(p, to) == phase' = IF p THEN to ELSE "aborted"

Open ==
  /\ phase = "open"
  /\ asserts(file.opens, IF file.suffix = "other" THEN "bin" ELSE file.suffix)
  /\ UNCHANGED parseVars /\ Stay

\* The two lines of the header: the first says something else, or a radix in
\* words, which stoi does not take (an exception nobody catches), or a number.
parse_coe ==
  /\ phase = "coe"
  /\ CASE file.header = "other"  -> phase' = "aborted" /\ UNCHANGED base
       [] file.header = "words"  -> phase' = "terminated" /\ UNCHANGED base
       [] file.header = "number" -> base' = file.radix /\ asserts(file.vector, "feed")
  /\ UNCHANGED <<rest, seq>> /\ Stay

parse_mif == phase = "mif" /\ base' = 2 /\ phase' = "feed" /\ UNCHANGED <<rest, seq>> /\ Stay

parse_hex == phase = "hex" /\ base' = 16 /\ phase' = "feed" /\ UNCHANGED <<rest, seq>> /\ Stay

\* One line of the file: nothing, or a number that fills the line and fits
\* 32 bits, low byte first.
feed ==
  /\ phase = "feed" /\ rest # <<>>
  /\ rest' = Tail(rest)
  /\ LET line == Head(rest) IN
     IF line = "" THEN UNCHANGED <<phase, seq>>
     ELSE LET p == Parsed[line, base] IN
          CASE p.count = "none" -> phase' = "terminated" /\ UNCHANGED seq
            [] p.count = "some" \/ Len(p.data) > 4 -> phase' = "aborted" /\ UNCHANGED seq
            [] OTHER -> seq' = seq \o p.data /\ UNCHANGED phase
  /\ UNCHANGED base /\ Stay

parse_bin ==
  /\ phase = "bin" /\ rest # <<>>
  /\ seq' = Append(seq, Head(rest)) /\ rest' = Tail(rest)
  /\ UNCHANGED <<phase, base>> /\ Stay

\* The constructor with data: the memory is zero and as large as it will be.
EndOfFile ==
  /\ phase \in {"feed", "bin"} /\ rest = <<>>
  /\ asserts(Len(seq) <= Size, "map")
  /\ UNCHANGED parseVars /\ Stay

-----------------------------------------------------------------------------
(* BlockMemory                                                             *)

\* ~(0xffu << shamt): 32 bits wide, so that no mask keeps the upper four
\* bytes.  A shift by 32 or more is undefined: it shifts by the rest modulo
\* 32, or everything out.
Kept(lane) ==
  IF lane < 4 THEN {(0 .. 3) \ {lane}} ELSE {(0 .. 3) \ {lane - 4}, 0 .. 3}

map ==
  /\ phase = "map" /\ i < Len(seq)
  /\ LET index == i \div 8
         lane == i % 8
     IN  \E kept \in Kept(lane) :
           mem' = [mem EXCEPT ![index] =
                     [b \in 0 .. 7 |-> IF b = lane THEN seq[i + 1]
                                       ELSE IF b \in kept THEN @[b] ELSE 0]]
  /\ i' = i + 1
  /\ UNCHANGED <<file, phase, parseVars, saved_mem>>

Constructed ==
  /\ phase = "map" /\ i = Len(seq)
  /\ phase' = "ready" /\ saved_mem' = mem
  /\ UNCHANGED <<file, parseVars, i, mem>>

Ready == phase = "ready" /\ UNCHANGED <<file, parseVars, i, saved_mem>>

reset == Ready /\ mem' = saved_mem /\ UNCHANGED phase

\* MemoryRouter::search: the first entry whose prefix the address has.
search(addr) == SelectInSeq(Layout, LAMBDA e : addr \in e.matches)

paddr(addr) == Layout[search(addr)].translate[addr]

store(addr, lanes, x) ==
  /\ Ready
  /\ IF search(addr) = 0 \/ paddr(addr) >= Size
     THEN phase' = "aborted" /\ UNCHANGED mem
     ELSE /\ mem' = [mem EXCEPT ![paddr(addr) \div 8] =
                       [b \in 0 .. 7 |-> IF b \in lanes THEN x ELSE @[b]]]
          /\ UNCHANGED phase

Init ==
  /\ file \in Files /\ phase = "open"
  /\ base = 0 /\ rest = file.body /\ seq = <<>>
  /\ i = 0 /\ mem = Zero /\ saved_mem = Zero

Next ==
  \/ Open \/ parse_coe \/ parse_mif \/ parse_hex \/ feed \/ parse_bin \/ EndOfFile
  \/ map \/ Constructed \/ reset
  \/ \E addr \in Addresses, lanes \in {{0}, 4 .. 7}, x \in Bytes : store(addr, lanes, x)

Spec == Init /\ [][Next]_vars

-----------------------------------------------------------------------------
(* Properties                                                              *)

\* The bytes a file stands for.
Contents(f) ==
  IF f.suffix = "other" THEN f.body
  ELSE LET b == CASE f.suffix = "coe" -> f.radix [] f.suffix = "mif" -> 2 [] f.suffix = "hex" -> 16
       IN  FlattenSeq([n \in DOMAIN f.body |->
                         IF f.body[n] = "" THEN <<>> ELSE Parsed[f.body[n], b].data])

\* The memory a program starts with, at the first run and after every reset
\* until something is stored, holds the bytes of its file
\* (runner.h:71 "File path of memory initialization file.", memory.cpp:94).
FileKept ==
  phase = "ready" =>
    \A n \in DOMAIN Contents(file) : saved_mem[(n - 1) \div 8][(n - 1) % 8] = Contents(file)[n]
=============================================================================
