----------------------------- MODULE MCVCacheTop -----------------------------
(***************************************************************************)
(* Small instances of VCacheTop for TLC.  Requests go to a few addresses   *)
(* (Target), and stores to some of them (StoreTo).                         *)
(***************************************************************************)
EXTENDS VCacheTop

CONSTANTS
  io, t1, t2, t3,   \* tags
  Target, StoreTo

MCTag     == {io, t1, t2, t3}
MCIOTag   == {io}
\* Words that differ along a line.
MCInitMem == [a \in Addr |-> [l \in Lane |-> IF a.offset % 2 = 0 THEN 0 ELSE 1]]

At(t, i, o) == [tag |-> t, index |-> i, offset |-> o]

\* Three lines for the two ways of a set, and a device.
OneSet       == {At(t, 0, 1) : t \in MCTag}
OneSetStores == {At(t, 0, 1) : t \in {io, t1, t2}}

\* Stores to one of the three lines.
OneSetStore == {At(t1, 0, 1)}

\* Three lines for the two ways of a set, one of their tags in another set
\* too, and a device.
TwoSets       == {At(io, 0, 0), At(t1, 0, 1), At(t2, 0, 1), At(t3, 0, 1), At(t1, 1, 0)}
TwoSetsStores == {At(io, 0, 0), At(t1, 0, 1)}

Load(a)        == [valid |-> TRUE, addr |-> a, strobe |-> {}, data |-> Word0]
Store(a, s, d) == [valid |-> TRUE, addr |-> a, strobe |-> s, data |-> d]
Idled(r)       == [r EXCEPT !.valid = FALSE]

Loads  == {Load(a) : a \in Target}
Stores == {Store(a, s, d) : a \in StoreTo, s \in Strobe \ {{}}, d \in Word}

MCRequests == Loads \cup Stores

\* Stores of one lane each, of a byte that memory does not begin with.
LaneRequests ==
  Loads \cup {Store(a, {IF a.tag = io THEN 1 ELSE 0}, [l \in Lane |-> 1 - InitMem[a][l]]) : a \in StoreTo}

\* A pipeline bubble: any address, no strobe.
MCIdleReqs == {Idled(r) : r \in Loads}

\* Also a store taken back before any clock edge saw it (test "fake store").
FakeStores == {Idled(r) : r \in MCRequests}
=============================================================================
