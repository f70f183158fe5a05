------------------------------- MODULE Cells -------------------------------
(***************************************************************************)
(* verilate/include/cell.h: memory cells, the variables of a test that     *)
(* live behind the cache.  A cell is a handle: the address it is bound to. *)
(* Copying and swapping cells moves values through memory, moving a cell   *)
(* moves the binding, and the factory binds new ones.  The algorithms of   *)
(* the standard library mix all of them on an array of cells.              *)
(***************************************************************************)
EXTENDS Integers, FiniteSets

CONSTANTS
  Handle,     \* the cells a test declares: elements of an array, locals
  Array,      \* handles that are the elements of one array, numbered from 0
  Base,       \* where the array was taken
  Width,      \* [Handle -> sizeof(T)]
  Value,      \* words, of which a cell takes its lower bytes
  Size        \* bytes of memory that are used

Null == -1        \* addr = 0, p = nullptr
Unread == <<>>    \* a variable no program may read: moved from, not set yet

Word == [0 .. 7 -> Nat]

\* The elements of the array are of one type, and lie in memory, aligned: the
\* constructor of an array does not look.
CellsAssumption ==
  /\ Width \in [Handle -> {1, 2, 4, 8}]
  /\ DOMAIN Array \subseteq Handle
  /\ \A h \in DOMAIN Array :
       Array[h] \in Nat /\ Base % Width[h] = 0 /\ Base + (Array[h] + 1) * Width[h] <= Size
  /\ \A g, h \in DOMAIN Array :
       Width[g] = Width[h] /\ (Array[g] = Array[h] => g = h)
  /\ Value \subseteq Word
  /\ Base \in Nat /\ Size \in Nat /\ Base <= Size

VARIABLES
  addr,     \* addr and p of each handle
  offset,   \* of the factory
  mem,      \* the bytes behind the bus
  aborted,  \* an assertion has failed
  val       \* observer: the same program with variables for cells

vars == <<addr, offset, mem, aborted, val>>

Bytes(h) == addr[h] .. addr[h] + Width[h] - 1

Bound(h) == addr[h] # Null

\* The conversion to an unsigned type of w bytes.
As(w, v) == [i \in 0 .. 7 |-> IF i < w THEN v[i] ELSE 0]

\* set(): the bus writes the cell's bytes.
Write(m, h, v) == [b \in DOMAIN m |-> IF b \in Bytes(h) THEN v[b - addr[h]] ELSE m[b]]

\* get()
Read(m, h) == [i \in 0 .. 7 |-> IF i < Width[h] THEN m[addr[h] + i] ELSE 0]

-----------------------------------------------------------------------------

\* Mutant: the moved cell keeps its address.
MovedKept(dst, src) == [addr EXCEPT ![dst] = addr[src]]

\* init_cell(rhs.addr, rhs.p), then rhs is cleared, be it the same cell.
Moved(dst, src) == [addr EXCEPT ![dst] = addr[src], ![src] = Null]

\* Move constructor (dst is new) and move assignment (what dst was bound to
\* is forgotten).
Move(dst, src) ==
  /\ Bound(src) /\ Width[dst] = Width[src]
  /\ addr' = Moved(dst, src)
  /\ val' = [val EXCEPT ![dst] = val[src], ![src] = Unread]
  /\ UNCHANGED <<offset, mem, aborted>>

\* cell = value
Set(h, v) ==
  /\ Bound(h)
  /\ mem' = Write(mem, h, v)
  /\ val' = [val EXCEPT ![h] = As(Width[h], v)]
  /\ UNCHANGED <<addr, offset, aborted>>

\* cell = cell, of the same type or of another, which cuts the value or
\* fills it up with zeros.
Copy(dst, src) ==
  /\ Bound(dst) /\ Bound(src) /\ val[src] # Unread
  /\ mem' = Write(mem, dst, Read(mem, src))
  /\ val' = [val EXCEPT ![dst] = As(Width[dst], val[src])]
  /\ UNCHANGED <<addr, offset, aborted>>

\* swap(x, y): both are read before either is written.
Swap(x, y) ==
  /\ Bound(x) /\ Bound(y) /\ val[x] # Unread /\ val[y] # Unread
  /\ Width[x] = Width[y]
  /\ mem' = Write(Write(mem, x, Read(mem, y)), y, Read(mem, x))
  /\ val' = [val EXCEPT ![x] = val[y], ![y] = val[x]]
  /\ UNCHANGED <<addr, offset, aborted>>

-----------------------------------------------------------------------------
(* MemoryCellFactory                                                       *)

\* allocate: the next bytes, from which the constructor wants an aligned
\* address.
Allocate(h) ==
  /\ ~Bound(h) /\ h \notin DOMAIN Array
  /\ offset + Width[h] <= Base
  /\ offset' = offset + Width[h]
  /\ addr' = [addr EXCEPT ![h] = offset]
  /\ aborted' = (offset % Width[h] # 0)
  /\ val' = [val EXCEPT ![h] = Unread]
  /\ UNCHANGED mem

\* The end of a local's scope: a cell has no destructor.
Leave(h) ==
  /\ Bound(h) /\ h \notin DOMAIN Array
  /\ addr' = [addr EXCEPT ![h] = Null]
  /\ val' = [val EXCEPT ![h] = Unread]
  /\ UNCHANGED <<offset, mem, aborted>>

\* reset(): a test does it when it is done with what it allocated.
Reset ==
  /\ \A h \in Handle : Bound(h) => addr[h] >= Base
  /\ offset' = 0
  /\ UNCHANGED <<addr, mem, aborted, val>>

\* take<T, N>(Base): no assertion here, N bindings side by side.
Init ==
  /\ addr = [h \in Handle |-> IF h \in DOMAIN Array THEN Base + Array[h] * Width[h] ELSE Null]
  /\ offset = 0
  /\ mem \in {[b \in 0 .. Size - 1 |-> v[b % 8]] : v \in Value}
  /\ aborted = FALSE
  /\ val = [h \in Handle |-> IF h \in DOMAIN Array THEN Read(mem, h) ELSE Unread]

Next ==
  /\ ~aborted
  /\ \/ \E x, y \in Handle : Move(x, y) \/ Copy(x, y) \/ Swap(x, y)
     \/ \E h \in Handle : Allocate(h) \/ Leave(h)
     \/ \E h \in Handle, v \in Value : Set(h, v)
     \/ Reset

Spec == Init /\ [][Next]_vars

-----------------------------------------------------------------------------
(* Properties                                                              *)

\* Cells are variables: whatever was moved, copied between types, swapped and
\* allocated, a cell reads as a variable of the same name and type would
\* (cell.h:129-302; the tests sort and shuffle arrays of cells).
ReadsAsVariables ==
  ~aborted => \A h \in Handle : val[h] # Unread => Read(mem, h) = val[h]
=============================================================================
