------------------------------- MODULE MCVTop -------------------------------
(***************************************************************************)
(* A small instance of VTop for TLC: three lines for the two ways of each  *)
(* cache, of one set, and a device for the data cache.                     *)
(***************************************************************************)
EXTENDS VTop

CONSTANTS io, t1, t2, t3, t4, t5, t6  \* tags

MCTag   == {io, t1, t2, t3, t4, t5, t6}
MCIOTag == {io}
\* Words that differ between lines and along them.
MCInitMem ==
  [a \in Addr |-> [l \in Lane |->
     IF (a.tag \in {t2, t4}) = (a.offset = 0) THEN 0 ELSE 1]]

At(t, o) == [tag |-> t, index |-> 0, offset |-> o]

MCFetches == {At(t4, 0), At(t5, 1), At(t6, 0)}

Load(a)     == [valid |-> TRUE, addr |-> a, strobe |-> {}, data |-> Word0]
Store(a, d) == [valid |-> TRUE, addr |-> a, strobe |-> Lane, data |-> d]

MCRequests ==
  {Load(At(t, 1)) : t \in {t2, t3, io}} \cup {Store(At(t1, 1), [l \in Lane |-> 1])}

\* Lines of one word for liveness: no device, and no two values of a line.
MCLiveFetches  == {At(t, 0) : t \in {t4, t5, t6}}
MCLiveRequests ==
  {Load(At(t, 0)) : t \in {t2, t3}} \cup {Store(At(t1, 0), [l \in Lane |-> 1])}
=============================================================================
