--------------------------- MODULE MCMemoryImage ---------------------------
\* Two words of memory, every kind of file and every way a line can be read,
\* and a router whose first entry moves an address down.
EXTENDS MemoryImage

MCParsed == [p \in {"10", "7f", "zz", "long"} \X {2, 16} |->
  LET whole(d) == [count |-> "all", data |-> d]
  IN  CASE p = <<"10", 2>>    -> whole(<<2, 0, 0, 0>>)
        [] p = <<"10", 16>>   -> whole(<<16, 0, 0, 0>>)
        [] p = <<"7f", 16>>   -> whole(<<127, 0, 0, 0>>)
        [] p = <<"7f", 2>>    -> [count |-> "none", data |-> <<>>]
        [] p[1] = "zz"        -> [count |-> "some", data |-> <<>>]
        [] p[1] = "long"      -> whole(<<1, 2, 3, 4, 5>>)]

Lines == {"", "10", "7f", "zz", "long"}

Bodies == UNION {[1 .. n -> Lines] : n \in 0 .. 2} \cup {<<"10", "10", "10", "10", "10">>}

File(suffix, header, radix, vector, body) ==
  [opens |-> TRUE, suffix |-> suffix, header |-> header, radix |-> radix, vector |-> vector,
   body |-> body]

MCFiles ==
  {File(s, "number", 2, TRUE, b) : s \in {"mif", "hex"}, b \in Bodies}
  \cup {File("coe", h, r, v, b) :
          h \in {"other", "words", "number"}, r \in {2, 16}, v \in BOOLEAN, b \in Bodies}
  \cup {[File("other", "number", 2, TRUE, b) EXCEPT !.opens = o] :
          o \in BOOLEAN, b \in UNION {[1 .. n -> {3, 200}] : n \in 0 .. 3}}

MCLayout == << [matches |-> 16 .. 23, translate |-> [a \in 16 .. 23 |-> a - 16]],
               [matches |-> 0 .. 31, translate |-> [a \in 0 .. 31 |-> a]] >>
=============================================================================
