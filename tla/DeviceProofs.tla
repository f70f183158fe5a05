---------------------------- MODULE DeviceProofs ----------------------------
(***************************************************************************)
(* Proofs about the devices of MCHardware.  For every alphabet and         *)
(* schedule of its threads, the serial port gives the program each         *)
(* character it was typed once and in order (SerialInv), and prints each   *)
(* character the program writes once and in order (OutputInv).  For every  *)
(* text and bit time, the transmitter of the board sends each character of *)
(* a program once and then what it makes of its own string, whatever the   *)
(* ratio of its clock to the core's (UartInv).  For every memory and order *)
(* of its channels, the bridge and the AXI memory are a burst memory       *)
(* (BridgeInv).                                                            *)
(***************************************************************************)
EXTENDS MCHardware, SequenceTheorems, WellFoundedInduction, TLAPS

-----------------------------------------------------------------------------
(* The serial port                                                         *)

Chars == Char \cup {CR!NoChar}

Contexts ==
  [uart_avail : BOOLEAN, uart_written : BOOLEAN, uart_fetched : BOOLEAN, uart_data : Chars,
   vuart_written : BOOLEAN, vuart_data : Chars, v_num_monitor : BOOLEAN, v_num : CR!Nums]

\* What the thread has pushed is what was typed and not fetched yet, behind the
\* character that is fetched in this cycle.  A cycle without an access fetches
\* nothing, and there is input as long as the status says so.
SerialInv ==
  /\ ctx \in Contexts
  /\ ififo \in Seq(Char) /\ typed \in Seq(Char) /\ got \in Seq(Char)
  /\ typed = got \o CR!popped
  /\ accessed \in BOOLEAN /\ (ctx.uart_fetched => accessed = TRUE)
  /\ ctx.uart_avail \/ ctx.uart_fetched => ififo # <<>>
  /\ aborted # "UART input FIFO should not be empty"

LEMMA SerialInit ==
  CR!Init => SerialInv
<1> HAVE CR!Init
<1>1. CR!Context0 \in Contexts
  BY SuiteAssumption DEF CR!Context0, Contexts, Chars, CR!Nums, CR!ConfregAssumption
<1>2. CR!popped = <<>>
  BY DEF CR!Init, CR!Context0, CR!popped
<1>3. <<>> \in Seq(Char) /\ <<>> \o <<>> = <<>>
  OBVIOUS
<1> QED BY <1>1, <1>2, <1>3 DEF CR!Init, CR!Context0, SerialInv

LEMMA TailFacts ==
  ASSUME NEW S, NEW s \in Seq(S), s # <<>>
  PROVE  /\ Head(s) \in S /\ SubSeq(s, 2, Len(s)) \in Seq(S)
         /\ s = <<Head(s)>> \o SubSeq(s, 2, Len(s))
         /\ \A x \in S : SubSeq(Append(s, x), 2, Len(Append(s, x)))
                           = Append(SubSeq(s, 2, Len(s)), x)
  BY EmptySeq, HeadTailProperties, SubSeqProperties, ConcatProperties

\* One element more, at the end of either part.
LEMMA AppendFacts ==
  ASSUME NEW S, NEW s \in Seq(S), NEW x \in S
  PROVE  Append(s, x) \in Seq(S) /\ Append(s, x) # <<>>
<1>1. Append(s, x) \in Seq(S) /\ Len(Append(s, x)) = Len(s) + 1 /\ Len(s) \in Nat
  BY AppendProperties, LenProperties
<1>2. Len(<<>>) = 0
  OBVIOUS
<1> QED BY <1>1, <1>2

LEMMA SerialNext ==
  SerialInv /\ [CR!Next]_(CR!vars) => SerialInv'
<1>1. SUFFICES ASSUME SerialInv, [CR!Next]_(CR!vars) PROVE SerialInv'
  OBVIOUS
<1>2. /\ ctx \in Contexts /\ ififo \in Seq(Char) /\ typed \in Seq(Char) /\ got \in Seq(Char)
      /\ typed = got \o CR!popped
      /\ accessed \in BOOLEAN /\ (ctx.uart_fetched => accessed = TRUE)
      /\ ctx.uart_avail \/ ctx.uart_fetched => ififo # <<>>
      /\ aborted # "UART input FIFO should not be empty"
  BY <1>1 DEF SerialInv
\* A step that leaves the input alone, or takes up that there is none fetched.
<1>3. ASSUME ctx' \in Contexts, UNCHANGED <<ififo, typed, got>>,
             ctx'.uart_fetched = ctx.uart_fetched, ctx'.uart_avail = ctx.uart_avail,
             accessed' \in BOOLEAN, accessed = TRUE => accessed' = TRUE,
             aborted' # "UART input FIFO should not be empty"
      PROVE  SerialInv'
  <2>1. CR!popped' = CR!popped
    BY <1>3 DEF CR!popped
  <2> QED BY <1>2, <1>3, <2>1 DEF SerialInv
<1>4. CASE CR!Bus
  <2>1. /\ aborted = "" /\ ~accessed /\ accessed' = TRUE /\ UNCHANGED <<ififo, typed, aborted>>
        /\ ctx.uart_fetched = FALSE
    BY <1>2, <1>4 DEF CR!Bus, CR!LoadLSR, CR!_uart_get_char, CR!_uart_put_char,
       CR!StoreVirtualUart, CR!StoreNum, CR!StoreNumMonitor, CR!Access, CR!history, Contexts
  <2>2. CASE CR!LoadLSR
    <3>1. UNCHANGED <<ctx, got>>
      BY <2>2 DEF CR!LoadLSR, CR!history
    <3> QED BY <1>2, <1>3, <2>1, <3>1
  <2>3. CASE CR!_uart_get_char
    <3>1. /\ ctx.uart_avail /\ ctx' = [ctx EXCEPT !.uart_fetched = TRUE]
          /\ got' = Append(got, IF ififo = <<>> THEN CR!NoChar ELSE Head(ififo))
      BY <2>3 DEF CR!_uart_get_char
    <3>2. ctx' \in Contexts /\ ctx'.uart_fetched = TRUE
      BY <1>2, <3>1 DEF Contexts
    <3>3. ififo # <<>> /\ CR!popped = ififo /\ CR!popped' = SubSeq(ififo, 2, Len(ififo))
      BY <1>2, <2>1, <3>1, <3>2 DEF CR!popped
    <3>4. Head(ififo) \in Char /\ ififo = <<Head(ififo)>> \o CR!popped' /\ CR!popped' \in Seq(Char)
      BY <1>2, <3>3, TailFacts
    <3>5. got' = Append(got, Head(ififo)) /\ got' \in Seq(Char)
      BY <1>2, <3>1, <3>3, <3>4, AppendFacts
    <3>6. typed = got' \o CR!popped'
      <4>1. PICK x \in Char, s \in Seq(Char) : x = Head(ififo) /\ s = CR!popped'
        BY <3>4
      <4>3. got \in Seq(Char)
        BY <1>2
      <4>2. got \o (<<x>> \o s) = Append(got, x) \o s
        BY <4>1, <4>3
      <4> QED BY <1>2, <3>3, <3>4, <3>5, <4>1, <4>2
    <3> QED BY <1>2, <2>1, <3>2, <3>3, <3>5, <3>6 DEF SerialInv
  <2>4. CASE \E char \in Char : CR!_uart_put_char(char) \/ CR!StoreVirtualUart(char)
    <3>1. PICK char \in Char :
            /\ \/ ctx' = [ctx EXCEPT !.uart_written = TRUE, !.uart_data = char]
               \/ ctx' = [ctx EXCEPT !.vuart_written = TRUE, !.vuart_data = char]
            /\ UNCHANGED got
      BY <2>4 DEF CR!_uart_put_char, CR!StoreVirtualUart
    <3>2. ctx' \in Contexts /\ ctx'.uart_fetched = ctx.uart_fetched
          /\ ctx'.uart_avail = ctx.uart_avail
      BY <1>2, <3>1 DEF Contexts, Chars
    <3> QED BY <1>2, <1>3, <2>1, <3>1, <3>2
  <2>5. CASE (\E n \in CR!Nums : CR!StoreNum(n)) \/ (\E m \in BOOLEAN : CR!StoreNumMonitor(m))
    <3>1. /\ \/ \E n \in CR!Nums : ctx' = [ctx EXCEPT !.v_num = n]
             \/ \E m \in BOOLEAN : ctx' = [ctx EXCEPT !.v_num_monitor = m]
          /\ UNCHANGED got
      BY <2>5 DEF CR!StoreNum, CR!StoreNumMonitor, CR!history
    <3>2. ctx' \in Contexts /\ ctx'.uart_fetched = ctx.uart_fetched
          /\ ctx'.uart_avail = ctx.uart_avail
      BY <1>2, <3>1 DEF Contexts
    <3> QED BY <1>2, <1>3, <2>1, <3>1, <3>2
  <2> QED BY <1>4, <2>2, <2>3, <2>4, <2>5 DEF CR!Bus
<1>5. CASE \E char \in Char : CR!Type(char)
  <2>1. PICK char \in Char :
          /\ ififo' = Append(ififo, char) /\ typed' = Append(typed, char)
          /\ UNCHANGED <<ctx, accessed, got, aborted>>
    BY <1>5 DEF CR!Type
  <2>2. CR!popped \in Seq(Char) /\ CR!popped' = Append(CR!popped, char)
    <3>1. CASE ctx.uart_fetched
      BY <1>2, <2>1, <3>1, TailFacts DEF CR!popped
    <3>2. CASE ~ctx.uart_fetched
      BY <1>2, <2>1, <3>2 DEF CR!popped
    <3> QED BY <3>1, <3>2
  <2>3. typed' = got \o CR!popped'
    <3>1. PICK s \in Seq(Char) : s = CR!popped
      BY <2>2
    <3>3. got \in Seq(Char)
      BY <1>2
    <3>2. Append(got \o s, char) = got \o Append(s, char)
      BY <3>1, <3>3
    <3> QED BY <1>2, <2>1, <2>2, <3>1, <3>2
  <2>4. ififo' \in Seq(Char) /\ typed' \in Seq(Char) /\ ififo' # <<>>
    BY <1>2, <2>1, AppendFacts
  <2> QED BY <1>2, <2>1, <2>3, <2>4 DEF SerialInv
<1>6. CASE CR!sync
  <2>1. ~(ctx.uart_fetched /\ ififo = <<>>)
    BY <1>2
  <2>2. /\ ififo' = CR!popped /\ accessed' = FALSE /\ UNCHANGED <<aborted, typed, got>>
        /\ ctx' = [ctx EXCEPT !.uart_avail = CR!available, !.uart_written = FALSE,
                              !.uart_fetched = FALSE, !.vuart_written = FALSE,
                              !.uart_data = CR!NoChar, !.vuart_data = CR!NoChar]
    BY <1>6, <2>1 DEF CR!sync, CR!history
  <2>3. CR!available \in BOOLEAN /\ CR!NoChar \in Chars
    BY DEF CR!available, Chars
  <2>4. ctx' \in Contexts /\ ctx'.uart_fetched = FALSE /\ ctx'.uart_avail = CR!available
    BY <1>2, <2>2, <2>3 DEF Contexts
  <2>5. CR!popped \in Seq(Char) /\ CR!popped' = CR!popped
    <3>1. CR!popped' = ififo'
      BY <2>4 DEF CR!popped
    <3>2. CASE ctx.uart_fetched
      BY <1>2, <2>2, <3>1, <3>2, TailFacts DEF CR!popped
    <3>3. CASE ~ctx.uart_fetched
      BY <1>2, <2>2, <3>1, <3>3 DEF CR!popped
    <3> QED BY <3>2, <3>3
  <2> QED BY <1>2, <2>2, <2>4, <2>5 DEF SerialInv, CR!available
<1>7. CASE CR!checkout_confreg
  <2>1. UNCHANGED <<ctx, ififo, accessed, typed, got>>
        /\ aborted' # "UART input FIFO should not be empty"
    BY <1>2, <1>7 DEF CR!checkout_confreg, CR!history
  <2> QED BY <1>2, <1>3, <2>1
<1>8. CASE UNCHANGED CR!vars
  <2>1. UNCHANGED <<ctx, ififo, accessed, typed, got, aborted>>
    BY <1>8 DEF CR!vars, CR!history
  <2> QED BY <1>2, <1>3, <2>1
<1> QED BY <1>1, <1>4, <1>5, <1>6, <1>7, <1>8 DEF CR!Next

LEMMA SerialImplies ==
  SerialInv => CR!InputOnce
  BY DEF SerialInv, CR!InputOnce

\* What the program has read is what was typed, once each and in order, but for
\* what still waits in the FIFO, however the input thread and the cycles of the
\* model interleave (confreg.h, confreg.cpp).
THEOREM SerialInput == CR!Spec => []CR!InputOnce
  BY SerialInit, SerialNext, SerialImplies, PTL DEF CR!Spec

\* InputOnce of the suite, in which another part may run.
THEOREM InputOnceHolds == AllSpec => []InputOnce
<1>1. AllInit => SerialInv
  BY SerialInit DEF AllInit
<1>2. SerialInv /\ [AllNext]_allVars => SerialInv'
  <2>1. [AllNext]_allVars => [CR!Next]_(CR!vars)
    BY DEF AllNext, AluPart, UartPart, BridgePart, ConfregPart, Aborted, allVars, confregVars,
       CR!vars, CR!outputs, CR!history
  <2> QED BY <2>1, SerialNext
<1> QED BY <1>1, <1>2, SerialImplies, PTL DEF AllSpec, InputOnce

-----------------------------------------------------------------------------
(* What the program writes                                                 *)

Pending(context) == IF context.vuart_written THEN CR!Printed(context.vuart_data) ELSE <<>>

\* What is written and not out yet is in the contexts: on its way to the
\* terminal in ctx, on its way to the console in ctx or, until the model has
\* looked at it, in ctx0.
OutputInv ==
  /\ ctx \in Contexts /\ ctx0 \in Contexts
  /\ sent \in Seq(Chars) /\ pty \in Seq(Chars)
  /\ stored \in Seq(Chars) /\ console \in Seq(Chars)
  /\ accessed \in BOOLEAN /\ checked \in BOOLEAN
  /\ ~accessed => ~ctx.uart_written /\ ~ctx.vuart_written
  /\ sent = pty \o (IF ctx.uart_written THEN <<ctx.uart_data>> ELSE <<>>)
  /\ aborted = "" =>
       stored = console \o (IF ~checked THEN Pending(ctx0) ELSE <<>>) \o Pending(ctx)

LEMMA OutputInit ==
  CR!Init => OutputInv
<1> HAVE CR!Init
<1>1. CR!Context0 \in Contexts
  BY SuiteAssumption DEF CR!Context0, Contexts, Chars, CR!Nums, CR!ConfregAssumption
<1>2. <<>> \in Seq(Chars) /\ <<>> \o <<>> = <<>>
  OBVIOUS
<1> QED BY <1>1, <1>2 DEF CR!Init, CR!Context0, OutputInv, Pending

LEMMA PrintedType ==
  ASSUME NEW x \in Chars
  PROVE  CR!Printed(x) \in Seq(Chars)
  BY DEF CR!Printed

LEMMA PendingType ==
  ASSUME NEW context \in Contexts
  PROVE  Pending(context) \in Seq(Chars)
  BY PrintedType DEF Pending, Contexts

\* Nothing added at either end, and grouping.
LEMMA Joined ==
  ASSUME NEW S, NEW s \in Seq(S), NEW t \in Seq(S), NEW u \in Seq(S)
  PROVE  /\ s \o <<>> = s /\ <<>> \o s = s
         /\ (s \o t) \o u = s \o (t \o u) /\ s \o t \in Seq(S)
  OBVIOUS

LEMMA OutputNext ==
  OutputInv /\ [CR!Next]_(CR!vars) => OutputInv'
<1>1. SUFFICES ASSUME OutputInv, [CR!Next]_(CR!vars) PROVE OutputInv'
  OBVIOUS
<1>2. /\ ctx \in Contexts /\ ctx0 \in Contexts
      /\ sent \in Seq(Chars) /\ pty \in Seq(Chars)
      /\ stored \in Seq(Chars) /\ console \in Seq(Chars)
      /\ accessed \in BOOLEAN /\ checked \in BOOLEAN
      /\ ~accessed => ~ctx.uart_written /\ ~ctx.vuart_written
  BY <1>1 DEF OutputInv
<1>3. sent = pty \o (IF ctx.uart_written THEN <<ctx.uart_data>> ELSE <<>>)
  BY <1>1 DEF OutputInv
<1>4. aborted = "" => stored = console \o (IF ~checked THEN Pending(ctx0) ELSE <<>>) \o Pending(ctx)
  BY <1>1 DEF OutputInv
<1>5. /\ Pending(ctx) \in Seq(Chars) /\ Pending(ctx0) \in Seq(Chars) /\ <<>> \in Seq(Chars)
      /\ (IF ~checked THEN Pending(ctx0) ELSE <<>>) \in Seq(Chars)
  BY <1>2, PendingType
\* A step that neither writes nor prints.
<1>6. ASSUME ctx' \in Contexts, UNCHANGED <<ctx0, sent, pty, stored, console, checked, aborted>>,
             ctx'.uart_written = ctx.uart_written, ctx'.uart_data = ctx.uart_data,
             ctx'.vuart_written = ctx.vuart_written, ctx'.vuart_data = ctx.vuart_data,
             accessed' \in BOOLEAN, accessed = TRUE => accessed' = TRUE
      PROVE  OutputInv'
  <2>1. Pending(ctx') = Pending(ctx) /\ Pending(ctx0') = Pending(ctx0)
    BY <1>6 DEF Pending
  <2> QED BY <1>2, <1>3, <1>4, <1>6, <2>1 DEF OutputInv
<1>7. CASE CR!Bus
  <2>1. /\ aborted = "" /\ ~accessed /\ accessed' = TRUE /\ checked = TRUE
        /\ UNCHANGED <<ctx0, pty, console, checked, aborted>>
        /\ ctx.uart_written = FALSE /\ ctx.vuart_written = FALSE
    BY <1>2, <1>7 DEF CR!Bus, CR!LoadLSR, CR!_uart_get_char, CR!_uart_put_char,
       CR!StoreVirtualUart, CR!StoreNum, CR!StoreNumMonitor, CR!Access, CR!outputs, Contexts
  <2>2. sent = pty /\ stored = console /\ Pending(ctx) = <<>>
    BY <1>2, <1>3, <1>4, <2>1, Joined DEF Pending
  <2>3. CASE \/ CR!LoadLSR \/ CR!_uart_get_char \/ \E n \in CR!Nums : CR!StoreNum(n)
             \/ \E m \in BOOLEAN : CR!StoreNumMonitor(m)
    <3>1. /\ \/ UNCHANGED ctx
             \/ ctx' = [ctx EXCEPT !.uart_fetched = TRUE]
             \/ \E n \in CR!Nums : ctx' = [ctx EXCEPT !.v_num = n]
             \/ \E m \in BOOLEAN : ctx' = [ctx EXCEPT !.v_num_monitor = m]
          /\ UNCHANGED <<sent, stored>>
      BY <2>3 DEF CR!LoadLSR, CR!_uart_get_char, CR!StoreNum, CR!StoreNumMonitor, CR!history
    <3>2. /\ ctx' \in Contexts
          /\ ctx'.uart_written = ctx.uart_written /\ ctx'.uart_data = ctx.uart_data
          /\ ctx'.vuart_written = ctx.vuart_written /\ ctx'.vuart_data = ctx.vuart_data
      BY <1>2, <3>1 DEF Contexts
    <3> QED BY <1>6, <2>1, <3>1, <3>2
  <2>4. CASE \E char \in Char : CR!_uart_put_char(char)
    <3>1. PICK char \in Char :
            /\ ctx' = [ctx EXCEPT !.uart_written = TRUE, !.uart_data = char]
            /\ sent' = Append(sent, char) /\ stored' = stored
      BY <2>4 DEF CR!_uart_put_char
    <3>2. /\ ctx' \in Contexts /\ ctx'.uart_written = TRUE /\ ctx'.uart_data = char
          /\ ctx'.vuart_written = FALSE /\ char \in Chars
      BY <1>2, <2>1, <3>1 DEF Contexts, Chars
    <3>3. sent' \in Seq(Chars) /\ sent' = pty \o <<char>>
      BY <1>2, <2>2, <3>1, <3>2
    <3>4. Pending(ctx') = <<>>
      BY <3>2 DEF Pending
    <3>5. stored' = console \o <<>> \o Pending(ctx')
      BY <1>2, <2>2, <3>1, <3>4, Joined
    <3> QED BY <1>2, <2>1, <3>1, <3>2, <3>3, <3>5 DEF OutputInv
  <2>5. CASE \E char \in Char : CR!StoreVirtualUart(char)
    <3>1. PICK char \in Char :
            /\ ctx' = [ctx EXCEPT !.vuart_written = TRUE, !.vuart_data = char]
            /\ stored' = stored \o CR!Printed(char) /\ sent' = sent
      BY <2>5 DEF CR!StoreVirtualUart
    <3>2. /\ ctx' \in Contexts /\ ctx'.uart_written = FALSE /\ ctx'.vuart_written = TRUE
          /\ ctx'.vuart_data = char /\ char \in Chars
      BY <1>2, <2>1, <3>1 DEF Contexts, Chars
    <3>3. Pending(ctx') = CR!Printed(char) /\ CR!Printed(char) \in Seq(Chars)
      BY <3>2, PrintedType DEF Pending
    <3>4. stored' = console \o <<>> \o Pending(ctx') /\ stored' \in Seq(Chars)
      BY <1>2, <2>2, <3>1, <3>3, Joined
    <3>5. sent' = pty \o <<>>
      BY <1>2, <2>2, <3>1, Joined
    <3> QED BY <1>2, <2>1, <3>1, <3>2, <3>4, <3>5 DEF OutputInv
  <2> QED BY <1>7, <2>3, <2>4, <2>5 DEF CR!Bus
<1>8. CASE \E char \in Char : CR!Type(char)
  <2>1. UNCHANGED <<ctx, ctx0, sent, pty, stored, console, checked, aborted, accessed>>
    BY <1>8 DEF CR!Type, CR!outputs
  <2> QED BY <1>2, <1>6, <2>1
<1>9. CASE CR!sync /\ ctx.uart_fetched /\ ififo = <<>>
  <2>1. /\ UNCHANGED <<ctx, ctx0, sent, pty, stored, console, checked, accessed>>
        /\ aborted' # ""
    BY <1>9 DEF CR!sync, CR!history
  <2> QED BY <1>2, <1>3, <2>1 DEF OutputInv
<1>10. CASE CR!sync /\ ~(ctx.uart_fetched /\ ififo = <<>>)
  <2>1. /\ aborted = "" /\ checked /\ ctx0' = ctx /\ accessed' = FALSE /\ checked' = FALSE
        /\ pty' = IF ctx.uart_written THEN Append(pty, ctx.uart_data) ELSE pty
        /\ ctx' = [ctx EXCEPT !.uart_avail = CR!available, !.uart_written = FALSE,
                              !.uart_fetched = FALSE, !.vuart_written = FALSE,
                              !.uart_data = CR!NoChar, !.vuart_data = CR!NoChar]
        /\ UNCHANGED <<console, sent, stored, aborted>>
    BY <1>10 DEF CR!sync, CR!history, CR!kept
  <2>2. CR!available \in BOOLEAN /\ CR!NoChar \in Chars
    BY DEF CR!available, Chars
  <2>3. ctx' \in Contexts /\ ctx'.uart_written = FALSE /\ ctx'.vuart_written = FALSE
    BY <1>2, <2>1, <2>2 DEF Contexts
  <2>4. ctx.uart_data \in Chars
    BY <1>2 DEF Contexts
  <2>5. pty' \in Seq(Chars) /\ sent' = pty' \o <<>>
    <3>1. CASE ctx.uart_written
      <4>1. PICK char \in Chars : char = ctx.uart_data
        BY <2>4
      <4>2. pty' = Append(pty, char) /\ sent = pty \o <<char>> /\ pty \in Seq(Chars)
        BY <1>2, <1>3, <2>1, <3>1, <4>1
      <4>3. Append(pty, char) = pty \o <<char>> /\ Append(pty, char) \in Seq(Chars)
        BY <4>1, <4>2
      <4> QED BY <2>1, <4>2, <4>3, Joined
    <3>2. CASE ~ctx.uart_written
      BY <1>2, <1>3, <2>1, <3>2, Joined
    <3> QED BY <3>1, <3>2
  <2>6. Pending(ctx') = <<>> /\ Pending(ctx0') = Pending(ctx)
    BY <2>1, <2>3 DEF Pending
  <2>7. stored' = console' \o Pending(ctx0') \o Pending(ctx')
    <3>1. stored = console \o <<>> \o Pending(ctx)
      BY <1>4, <2>1
    <3>2. console \o <<>> = console /\ console \o Pending(ctx) \in Seq(Chars)
      BY <1>2, <1>5, Joined
    <3>3. (console \o Pending(ctx)) \o <<>> = console \o Pending(ctx)
      BY <3>2, Joined
    <3> QED BY <2>1, <2>6, <3>1, <3>2, <3>3
  <2> QED BY <1>2, <2>1, <2>3, <2>5, <2>7 DEF OutputInv
<1>11. CASE CR!checkout_confreg
  <2>1. /\ aborted = "" /\ ~checked /\ checked' = TRUE
        /\ UNCHANGED <<ctx, ctx0, accessed, pty, sent, stored>>
        /\ \/ aborted' # "" /\ console' = console
           \/ /\ aborted' = aborted
              /\ console' = IF ctx0.vuart_written
                            THEN console \o CR!Printed(ctx0.vuart_data) ELSE console
    BY <1>11 DEF CR!checkout_confreg, CR!history
  <2>2. CASE aborted' # "" /\ console' = console
    BY <1>2, <1>3, <2>1, <2>2 DEF OutputInv
  <2>3. CASE aborted' = aborted /\ console' = IF ctx0.vuart_written
                            THEN console \o CR!Printed(ctx0.vuart_data) ELSE console
    <3>1. console' = console \o Pending(ctx0)
      BY <1>2, <2>3, Joined DEF Pending
    <3>2. console' \in Seq(Chars) /\ console' \o <<>> = console'
      BY <1>2, <1>5, <3>1, Joined
    <3>3. stored = console \o Pending(ctx0) \o Pending(ctx)
      BY <1>4, <2>1
    <3>4. stored' = console' \o <<>> \o Pending(ctx')
      BY <2>1, <3>1, <3>2, <3>3
    <3> QED BY <1>2, <1>3, <2>1, <3>2, <3>4 DEF OutputInv
  <2> QED BY <2>1, <2>2, <2>3
<1>12. CASE UNCHANGED CR!vars
  <2>1. UNCHANGED <<ctx, ctx0, sent, pty, stored, console, checked, aborted, accessed>>
    BY <1>12 DEF CR!vars, CR!history, CR!outputs
  <2> QED BY <1>2, <1>6, <2>1
<1> QED BY <1>1, <1>7, <1>8, <1>9, <1>10, <1>11, <1>12 DEF CR!Next

LEMMA OutputImplies ==
  OutputInv => CR!OutputOnce
<1> HAVE OutputInv
<1>1. ctx0 \in Contexts
  BY DEF OutputInv
<1>2. (IF ~checked THEN Pending(ctx0) ELSE <<>>)
        = (IF ~checked /\ ctx0.vuart_written THEN CR!Printed(ctx0.vuart_data) ELSE <<>>)
  BY <1>1 DEF Pending
<1>3. Pending(ctx) = IF ctx.vuart_written THEN CR!Printed(ctx.vuart_data) ELSE <<>>
  BY DEF Pending
<1> QED BY <1>2, <1>3 DEF OutputInv, CR!OutputOnce

\* Every character the program has written to the serial port is printed once, in
\* order, or is still to be printed at the next checkout, whether the terminal or
\* the comparison with the reference model is in between (confreg.h).
THEOREM OutputOnceHolds == AllSpec => []OutputOnce
<1>1. AllInit => OutputInv
  BY OutputInit DEF AllInit
<1>2. OutputInv /\ [AllNext]_allVars => OutputInv'
  <2>1. [AllNext]_allVars => [CR!Next]_(CR!vars)
    BY DEF AllNext, AluPart, UartPart, BridgePart, ConfregPart, Aborted, allVars, confregVars,
       CR!vars, CR!outputs, CR!history
  <2> QED BY <2>1, OutputNext
<1> QED BY <1>1, <1>2, OutputImplies, PTL DEF AllSpec, OutputOnce

-----------------------------------------------------------------------------
(* The transmitter: times                                                  *)

B == U!bitTime
FrameLen == U!BIT_INDEX_MAX
Middle == (B + 1) \div 2

LEMMA Times ==
  /\ B \in Nat /\ B >= 2 /\ Middle \in 1 .. B - 1 /\ FrameLen \in Nat /\ FrameLen >= 3
  /\ BIT_TMR_MAX = B - 1 /\ BIT_TMR_MAX \in Nat /\ Bits \in Nat \ {0} /\ FrameLen = Bits + 2
  /\ K \in Nat /\ K > 1
<1>1. /\ BIT_TMR_MAX \in Nat \ {0} /\ Bits \in Nat \ {0} /\ K \in Nat /\ K > 1
  BY SuiteAssumption DEF U!UartAssumption
<1>2. B = BIT_TMR_MAX + 1 /\ FrameLen = Bits + 2
  BY DEF B, FrameLen, U!bitTime, U!BIT_INDEX_MAX
<1>3. Middle \in 1 .. B - 1
  BY <1>1, <1>2 DEF Middle
<1> QED BY <1>1, <1>2, <1>3

LEMMA Strings == Str \in Seq(U!Character) /\ Len(Str) \in Nat /\ Len(Str) > 1
  BY SuiteAssumption DEF U!UartAssumption

\* Where a cycle of a frame is in its bit.
LEMMA InBit ==
  ASSUME NEW k \in Nat, NEW t \in 0 .. B - 1
  PROVE  (k * B + t) % B = t /\ k * B \in Nat /\ (k >= 1 => k * B >= B)
<1>1. B \in Nat /\ B >= 2
  BY Times
<1>2. PICK n \in Nat : n = B /\ n >= 2
  BY <1>1
<1>3. k * n \in Nat /\ (k >= 1 => k * n >= n)
  BY <1>2
<1>4. PICK x \in Nat : x = k * n + t
  BY <1>2, <1>3
<1>5. x % n = t
  <2> DEFINE v == x \div n
             s == x % n
  <2>1. v \in Int /\ s \in 0 .. n - 1 /\ x = v * n + s
    BY <1>2
  <2> HIDE DEF v, s
  <2>2. (k - v) * n = s - t
    BY <1>2, <1>4, <2>1
  <2>3. s - t < n /\ s - t > 0 - n
    BY <1>2, <2>1
  <2>4. k - v = 0
    <3>1. CASE k - v >= 1
      <4>1. (k - v) * n >= n
        BY <1>2, <2>1, <3>1
      <4> QED BY <1>2, <2>1, <2>2, <2>3, <4>1
    <3>2. CASE k - v <= -1
      <4>1. (k - v) * n <= 0 - n
        BY <1>2, <2>1, <3>2
      <4> QED BY <1>2, <2>1, <2>2, <2>3, <4>1
    <3> QED BY <2>1, <3>1, <3>2
  <2>5. s = t
    BY <1>2, <2>1, <2>2, <2>4
  <2> QED BY <2>5 DEF s
<1> QED BY <1>2, <1>3, <1>4, <1>5

\* A frame: a start bit, the character, a stop bit.
LEMMA FramedFacts ==
  ASSUME NEW ch \in U!Character
  PROVE  /\ U!Framed(ch) \in Seq({0, 1}) /\ Len(U!Framed(ch)) = FrameLen
         /\ U!Framed(ch)[1] = 0 /\ U!Framed(ch)[FrameLen] = 1
<1>1. Bits \in Nat \ {0} /\ FrameLen = Bits + 2
  BY Times
<1>2. ch \in Seq({0, 1}) /\ Len(ch) = Bits
  BY <1>1 DEF U!Character
<1>3. \A x \in {0, 1} : <<x>> \in Seq({0, 1}) /\ Len(<<x>>) = 1 /\ <<x>>[1] = x
  OBVIOUS
<1>4. PICK one \in Seq({0, 1}) : one = <<1>> /\ Len(one) = 1 /\ one[1] = 1
  BY <1>3, 1 \in {0, 1}
<1>5. PICK zero \in Seq({0, 1}) : zero = <<0>> /\ Len(zero) = 1 /\ zero[1] = 0
  BY <1>3, 0 \in {0, 1}
<1>6. <<0>> \o ch \in Seq({0, 1}) /\ Len(<<0>> \o ch) = Bits + 1 /\ (<<0>> \o ch)[1] = 0
  <2>1. /\ zero \o ch \in Seq({0, 1}) /\ Len(zero \o ch) = Len(zero) + Len(ch)
        /\ \A i \in 1 .. Len(zero) + Len(ch) :
             (zero \o ch)[i] = IF i <= Len(zero) THEN zero[i] ELSE ch[i - Len(zero)]
    BY <1>2, ConcatProperties
  <2>2. /\ zero \o ch \in Seq({0, 1}) /\ Len(zero \o ch) = Bits + 1 /\ (zero \o ch)[1] = 0
    BY <1>1, <1>2, <1>5, <2>1
  <2> QED BY ONLY <1>5, <2>2
<1>7. PICK fr \in Seq({0, 1}) : fr = <<0>> \o ch /\ Len(fr) = Bits + 1 /\ fr[1] = 0
  BY <1>6
<1>8. /\ fr \o one \in Seq({0, 1}) /\ Len(fr \o one) = Bits + 2
      /\ (fr \o one)[1] = 0 /\ (fr \o one)[Bits + 2] = 1
  <2>1. /\ fr \o one \in Seq({0, 1}) /\ Len(fr \o one) = Len(fr) + Len(one)
        /\ \A i \in 1 .. Len(fr) + Len(one) :
             (fr \o one)[i] = IF i <= Len(fr) THEN fr[i] ELSE one[i - Len(fr)]
    BY ConcatProperties
  <2> QED BY <1>1, <1>4, <1>7, <2>1
<1> QED BY <1>1, <1>4, <1>7, <1>8 DEF U!Framed

-----------------------------------------------------------------------------
(* The transmitter's invariant                                             *)

\* The characters whose frames have begun.
Started ==
  IF finish THEN Len(text) + Len(Str) - idx
  ELSE IF valid /\ wrote < Len(text) /\ (txState # "RDY" \/ ~putchar) THEN wrote + 1 ELSE wrote

\* What the device sends of itself: its string, and str[1] a second time.
Greeted == [n \in 1 .. Len(Str) |-> IF n < Len(Str) THEN Str[Len(Str) + 1 - n] ELSE Str[2]]

\* The i-th frame of the line.
Expected(i) == U!Framed(IF i <= Len(text) THEN text[i] ELSE Greeted[i - Len(text)])

\* The receiver has the character on the line before its stop bit is over.
Past == txState = "SEND_BIT" /\ bitIndex = FrameLen /\ bitTmr > Middle

Ended == IF txState = "RDY" \/ Past THEN Started ELSE Started - 1

UType ==
  /\ text \in Seq(U!Character) /\ wrote \in Nat /\ idx \in 0 .. Len(Str) /\ phase \in 0 .. K - 1
  /\ valid \in BOOLEAN /\ putchar \in BOOLEAN /\ finish \in BOOLEAN
  /\ txState \in {"RDY", "LOAD_BIT", "SEND_BIT"}

\* The core's store and the device's handshake with it.
Handshake ==
  /\ ~finish => idx = Len(Str) /\ wrote <= Len(text)
  /\ finish => wrote >= Len(text) /\ putchar
  /\ ~finish /\ txState # "RDY" => valid /\ wrote < Len(text)
  /\ finish /\ txState # "RDY" => idx < Len(Str)
  /\ ~finish /\ valid /\ wrote < Len(text) /\ putchar =>
       IF txState = "RDY" THEN phase = 0 ELSE txState = "LOAD_BIT" /\ bitIndex = 0
  /\ ~finish /\ valid /\ wrote = Len(text) => putchar /\ phase = 0
  /\ ~finish /\ ~valid /\ phase >= 1 => putchar
  /\ wrote > Len(text) => finish /\ ~valid

\* What is in the shift register while a frame is on the line.
Loaded ==
  txState # "RDY" =>
    /\ txData[1] = 0
    /\ ~(finish /\ txState = "LOAD_BIT" /\ bitIndex = 0 /\ idx # 0) => txData = Expected(Started)

\* The receiver's place in the frame, by the transmitter's.
Line ==
  /\ rx \in Nat /\ frame \in Seq({0, 1}) /\ bitTmr \in 0 .. B - 1 /\ bitIndex \in 0 .. FrameLen
  /\ txState = "RDY" => bitTmr = 0 /\ txBit = 1 /\ rx = 0 /\ frame = <<>>
  /\ txState = "LOAD_BIT" =>
       /\ bitTmr = 0 /\ bitIndex < FrameLen
       /\ Len(frame) = bitIndex
       /\ IF bitIndex = 0 THEN txBit = 1 /\ rx = 0
          ELSE txBit = Expected(Started)[bitIndex] /\ rx = bitIndex * B - 1
  /\ txState = "SEND_BIT" =>
       /\ bitTmr > 0 /\ bitIndex > 0
       /\ txBit = Expected(Started)[bitIndex]
       /\ IF Past THEN rx = 0 /\ frame = <<>>
          ELSE /\ rx = (bitIndex - 1) * B + bitTmr - 1
               /\ Len(frame) = IF bitTmr > Middle THEN bitIndex ELSE bitIndex - 1
  /\ \A i \in 1 .. Len(frame) : frame[i] = Expected(Started)[i]

Received ==
  /\ received \in Seq(Seq({0, 1})) /\ Len(received) = Ended
  /\ \A i \in 1 .. Len(received) : received[i] = Expected(i)

UartInv == UType /\ Handshake /\ Loaded /\ Line /\ Received

LEMMA Phases == phase \in 0 .. K - 1 => /\ (phase + 1) % K \in 0 .. K - 1
                                        /\ phase = K - 1 => (phase + 1) % K = 0
                                        /\ phase # K - 1 => (phase + 1) % K = phase + 1
<1>1. K \in Nat /\ K > 1
  BY Times
<1> QED BY <1>1

\* What a cycle does to the core, the handshake and the count of frames.
LEMMA ControlStep ==
  ASSUME UType, Handshake, U!Tick
  PROVE  /\ UType' /\ Handshake' /\ text' = text
         /\ IF txState = "RDY" /\ U!send /\ putchar
            THEN txState' = "LOAD_BIT" /\ Started' = Started + 1
            ELSE Started' = Started /\ (txState = "RDY" => txState' = "RDY")
<1> USE Strings, Times
<1>1. /\ text' = text /\ text \in Seq(U!Character) /\ Len(text) \in Nat
      /\ phase' \in 0 .. K - 1
      /\ (phase = K - 1 => phase' = 0) /\ (phase # K - 1 => phase' = phase + 1)
  BY Phases DEF UType, U!Tick, U!Core
<1>2. /\ finish' <=> (finish \/ (valid /\ wrote = Len(text)))
      /\ putchar' <=> (~valid \/ (putchar /\ ~(valid /\ wrote < Len(text) /\ txState # "RDY")))
      /\ idx' = IF U!send /\ finish /\ txState = "RDY" THEN idx - 1 ELSE idx
      /\ U!send <=> ((idx # 0 /\ finish) \/ (valid /\ wrote < Len(text)))
      /\ finish' \in BOOLEAN /\ putchar' \in BOOLEAN
  BY DEF U!Tick, U!Transmitter, U!Putchar, U!toData, U!toFinish, U!send, U!tx_ready
<1>3. /\ txState = "RDY" => txState' = (IF U!send /\ putchar THEN "LOAD_BIT" ELSE "RDY") /\ bitIndex' = 0
      /\ txState = "LOAD_BIT" => txState' = "SEND_BIT"
      /\ txState = "SEND_BIT" => txState' \in {"RDY", "LOAD_BIT", "SEND_BIT"}
  BY DEF U!Tick, U!Transmitter, U!TxState
<1>4. /\ phase # K - 1 => (valid' <=> valid) /\ wrote' = wrote
      /\ phase = K - 1 /\ valid /\ txState = "RDY" => ~valid' /\ wrote' = wrote + 1
      /\ phase = K - 1 /\ valid /\ txState # "RDY" => valid' /\ wrote' = wrote
      /\ phase = K - 1 /\ ~valid => (valid' => wrote <= Len(text)) /\ wrote' = wrote
      /\ wrote' = wrote \/ wrote' = wrote + 1
  BY DEF U!Tick, U!Core, U!tx_ready
<1>5. /\ wrote \in Nat /\ idx \in 0 .. Len(Str) /\ phase \in 0 .. K - 1
      /\ valid \in BOOLEAN /\ putchar \in BOOLEAN /\ finish \in BOOLEAN
      /\ txState \in {"RDY", "LOAD_BIT", "SEND_BIT"}
  BY DEF UType
<1> USE <1>1, <1>3, <1>5
<1>6. UType'
  <2>1. valid' \in BOOLEAN
    <3>1. U!Core /\ valid \in BOOLEAN
      BY DEF U!Tick
    <3>2. PICK room \in BOOLEAN : room = (wrote <= Len(text))
      <4>1. CASE wrote <= Len(text)
        <5>1. (wrote <= Len(text)) = TRUE
          BY <4>1
        <5> QED BY ONLY <5>1
      <4>2. CASE ~(wrote <= Len(text))
        <5>1. (wrote <= Len(text)) = FALSE
          BY <4>2
        <5> QED BY ONLY <5>1
      <4> QED BY <4>1, <4>2
    <3>3. valid' = valid \/ valid' = (~(txState = "RDY")) \/ valid' \in {FALSE, room}
      BY <3>1, <3>2 DEF U!Core, U!tx_ready
    <3> QED BY ONLY <3>1, <3>2, <3>3
  <2>2. wrote' \in Nat
    BY <1>4
  <2>3. idx' \in 0 .. Len(Str)
    <3>1. finish /\ U!send => idx # 0
      BY <1>2 DEF Handshake
    <3> QED BY <1>2, <3>1
  <2>4. txState' \in {"RDY", "LOAD_BIT", "SEND_BIT"}
    OBVIOUS
  <2> QED BY <1>2, <2>1, <2>2, <2>3, <2>4 DEF UType
<1>7. CASE finish
  <2>1. finish' /\ putchar /\ putchar' /\ wrote >= Len(text)
    BY <1>2, <1>7 DEF Handshake
  <2>2. U!send <=> idx # 0
    BY <1>2, <1>7, <2>1
  <2>3. /\ (txState = "RDY" /\ idx # 0) => idx' = idx - 1 /\ txState' = "LOAD_BIT"
        /\ ~(txState = "RDY" /\ idx # 0) => idx' = idx
        /\ (txState = "RDY" /\ idx = 0) => txState' = "RDY"
    BY <1>2, <1>7, <2>1, <2>2
  <2>4. (txState' # "RDY" => idx' < Len(Str)) /\ wrote' >= Len(text)
    BY <1>4, <1>7, <2>1, <2>3 DEF Handshake
  <2>5. wrote' > Len(text) => ~valid'
    <3>1. wrote > Len(text) => ~valid
      BY DEF Handshake
    <3> QED BY <1>4, <2>1, <3>1
  <2>6. Handshake'
    BY <2>1, <2>4, <2>5 DEF Handshake
  <2>7. Started = Len(text) + Len(Str) - idx /\ Started' = Len(text) + Len(Str) - idx'
    BY <1>7, <2>1 DEF Started
  <2>8. IF txState = "RDY" /\ idx # 0 THEN Started' = Started + 1 ELSE Started' = Started
    BY <2>3, <2>7
  <2> QED BY <1>6, <2>1, <2>2, <2>3, <2>6, <2>8
<1>8. CASE ~finish /\ txState # "RDY"
  <2>1. valid /\ wrote < Len(text) /\ idx = Len(Str)
    BY <1>8 DEF Handshake
  <2>2. ~putchar' /\ valid' /\ wrote' = wrote /\ ~finish' /\ idx' = idx
    <3>1. ~putchar' /\ ~finish'
      BY <1>2, <1>8, <2>1
    <3>2. valid' /\ wrote' = wrote
      BY <1>4, <1>8, <2>1
    <3>3. idx' = idx
      BY <1>2, <1>8
    <3> QED BY <3>1, <3>2, <3>3
  <2>3. Handshake'
    BY <1>1, <2>1, <2>2 DEF Handshake
  <2>4. Started' = Started
    BY <1>1, <1>8, <2>1, <2>2 DEF Started
  <2> QED BY <1>1, <1>6, <1>8, <2>3, <2>4
<1>9. CASE ~finish /\ txState = "RDY" /\ ~valid
  <2>1. ~U!send /\ ~finish' /\ putchar' /\ wrote' = wrote /\ wrote <= Len(text)
        /\ idx = Len(Str) /\ idx' = idx
    BY <1>2, <1>4, <1>9 DEF Handshake
  <2>2. txState' = "RDY" /\ (valid' => phase' = 0)
    BY <1>1, <1>3, <1>4, <1>9, <2>1
  <2>3. Handshake'
    BY <1>1, <1>5, <2>1, <2>2 DEF Handshake
  <2>4. Started' = Started
    BY <1>1, <1>9, <2>1, <2>2 DEF Started
  <2> QED BY <1>1, <1>6, <2>1, <2>2, <2>3, <2>4
<1>10. CASE ~finish /\ txState = "RDY" /\ valid /\ wrote = Len(text)
  <2>1. putchar /\ phase = 0 /\ finish' /\ putchar' /\ valid' /\ wrote' = wrote /\ ~U!send
        /\ idx = Len(Str) /\ idx' = idx
    BY <1>1, <1>2, <1>4, <1>5, <1>10 DEF Handshake
  <2>2. txState' = "RDY"
    BY <1>3, <1>10, <2>1
  <2>3. Handshake'
    BY <1>1, <1>5, <1>10, <2>1, <2>2 DEF Handshake
  <2>4. Started' = Started
    BY <1>1, <1>5, <1>10, <2>1, <2>2 DEF Started
  <2> QED BY <1>1, <1>6, <2>1, <2>2, <2>3, <2>4
<1>11. CASE ~finish /\ txState = "RDY" /\ valid /\ wrote < Len(text)
  <2>1. ~finish' /\ U!send /\ idx = Len(Str) /\ idx' = idx /\ putchar' = putchar
    BY <1>1, <1>2, <1>5, <1>11 DEF Handshake
  <2>2. CASE putchar
    <3>1. phase = 0 /\ valid' /\ wrote' = wrote /\ txState' = "LOAD_BIT" /\ bitIndex' = 0
      BY <1>3, <1>4, <1>5, <1>11, <2>1, <2>2 DEF Handshake
    <3>2. Handshake'
      BY <1>1, <1>5, <1>11, <2>1, <2>2, <3>1 DEF Handshake
    <3>3. Started' = Started + 1
      BY <1>1, <1>11, <2>1, <2>2, <3>1 DEF Started
    <3> QED BY <1>1, <1>6, <1>11, <2>1, <2>2, <3>1, <3>2, <3>3
  <2>3. CASE ~putchar
    <3>1. txState' = "RDY"
      BY <1>3, <1>11, <2>3
    <3>2. /\ phase = K - 1 => ~valid' /\ wrote' = wrote + 1
          /\ phase # K - 1 => valid' /\ wrote' = wrote
      BY <1>4, <1>11
    <3>3. Handshake'
      BY <1>1, <1>5, <1>11, <2>1, <2>3, <3>1, <3>2 DEF Handshake
    <3>4. Started' = Started
      BY <1>1, <1>5, <1>11, <2>1, <2>3, <3>1, <3>2 DEF Started
    <3> QED BY <1>1, <1>6, <1>11, <2>1, <2>3, <3>1, <3>3, <3>4
  <2> QED BY <1>5, <2>2, <2>3
<1>12. wrote <= Len(text) \/ finish
  BY <1>1, <1>5 DEF Handshake
<1> QED BY <1>1, <1>5, <1>7, <1>8, <1>9, <1>10, <1>11, <1>12

-----------------------------------------------------------------------------
(* What is on the line                                                     *)

LEMMA ExpectedSame ==
  ASSUME text' = text
  PROVE  \A i : Expected(i)' = Expected(i)
BY DEF Expected, Greeted

LEMMA ExpectedFrame ==
  ASSUME UType, NEW i \in 1 .. Len(text) + Len(Str)
  PROVE  /\ Expected(i) \in Seq({0, 1}) /\ Len(Expected(i)) = FrameLen
         /\ Expected(i)[1] = 0 /\ Expected(i)[FrameLen] = 1
<1>1. text \in Seq(U!Character) /\ Len(text) \in Nat
  BY DEF UType
<1>2. PICK ch : ch = IF i <= Len(text) THEN text[i] ELSE Greeted[i - Len(text)]
  OBVIOUS
<1>3. ch \in U!Character
  <2>1. CASE i <= Len(text)
    BY <1>1, <1>2, <2>1
  <2>2. CASE i > Len(text)
    <3>1. PICK n \in 1 .. Len(Str) : n = i - Len(text)
      <4>1. i - Len(text) \in 1 .. Len(Str)
        BY <1>1, <2>2, Strings
      <4> QED BY ONLY <4>1
    <3>2. Greeted[n] = IF n < Len(Str) THEN Str[Len(Str) + 1 - n] ELSE Str[2]
      BY Strings DEF Greeted
    <3>3. Greeted[n] \in U!Character
      BY <3>2, Strings
    <3>4. ch = Greeted[n]
      BY <1>1, <1>2, <2>2, <3>1
    <3> QED BY <3>3, <3>4
  <2> QED BY <1>1, <2>1, <2>2
<1> QED BY <1>2, <1>3, FramedFacts DEF Expected

LEMMA StartedRange ==
  ASSUME UType, Handshake
  PROVE  /\ Started \in 0 .. Len(text) + Len(Str)
         /\ txState # "RDY" => Started >= 1
         /\ wrote <= Len(text) => Started >= wrote
         /\ wrote >= Len(text) => Started >= Len(text)
         /\ txState # "RDY" => /\ wrote <= Len(text) => Started - 1 >= wrote
                               /\ wrote >= Len(text) => Started - 1 >= Len(text)
<1>1. /\ Len(text) \in Nat /\ wrote \in Nat /\ idx \in 0 .. Len(Str) /\ Len(Str) \in Nat
      /\ Len(Str) > 1
  BY Strings DEF UType
<1>2. CASE finish
  BY <1>1, <1>2 DEF Started, Handshake
<1>3. CASE ~finish
  <2>1. wrote <= Len(text) /\ (txState # "RDY" => valid /\ wrote < Len(text))
    BY <1>3 DEF Handshake
  <2>2. CASE valid /\ wrote < Len(text) /\ (txState # "RDY" \/ ~putchar)
    <3>1. Started = wrote + 1
      BY <1>3, <2>2 DEF Started
    <3> QED BY <1>1, <2>2, <3>1
  <2>3. CASE ~(valid /\ wrote < Len(text) /\ (txState # "RDY" \/ ~putchar))
    <3>1. Started = wrote /\ txState = "RDY"
      BY <1>3, <2>1, <2>3 DEF Started
    <3> QED BY <1>1, <2>1, <3>1
  <2> QED BY <2>2, <2>3
<1> QED BY <1>2, <1>3

\* The character that the device takes, and the frame it belongs to.
LEMMA LoadedStep ==
  ASSUME UType, Handshake, Loaded, U!Tick
  PROVE  /\ Loaded'
         /\ txState # "RDY" /\ txState' # "RDY" => txData' = Expected(Started)
<1>1. /\ text \in Seq(U!Character) /\ Len(text) \in Nat /\ wrote \in Nat /\ idx \in 0 .. Len(Str)
      /\ Str \in Seq(U!Character) /\ Len(Str) \in Nat /\ Len(Str) > 1
  BY Strings DEF UType
<1>2. /\ text' = text
      /\ \A i : Expected(i)' = Expected(i)
      /\ IF txState = "RDY" /\ U!send /\ putchar
         THEN txState' = "LOAD_BIT" /\ Started' = Started + 1
         ELSE Started' = Started /\ (txState = "RDY" => txState' = "RDY")
  BY ControlStep, ExpectedSame
<1>3. /\ U!send => txData' = U!Framed(U!char_data)
      /\ ~U!send => txData' = txData
      /\ (finish' <=> finish \/ (valid /\ wrote = Len(text)))
      /\ idx' = IF U!send /\ finish /\ txState = "RDY" THEN idx - 1 ELSE idx
      /\ txState = "RDY" => bitIndex' = 0
      /\ txState = "LOAD_BIT" => txState' = "SEND_BIT"
      /\ (U!send <=> (idx # 0 /\ finish) \/ (valid /\ wrote < Len(text)))
  BY DEF U!Tick, U!Transmitter, U!TxState, U!send, U!Framed, U!toData, U!toFinish, U!tx_ready
<1>4. finish => (~(valid /\ wrote < Len(text)) /\ finish')
  <2>1. finish => wrote >= Len(text)
    BY DEF Handshake
  <2> QED BY <1>1, <1>3, <2>1
<1>5. Expected(Started') = Expected(Started)'
  <2>1. PICK s : s = Started'
    OBVIOUS
  <2>2. Expected(s)' = Expected(s)
    BY <1>2
  <2> QED BY <1>2, <2>1, <2>2 DEF Expected, Greeted
<1>6. ~finish => U!char_data = text[wrote + 1]
  BY DEF U!char_data
<1>7. /\ finish /\ idx < Len(Str) => U!char_data = Str[idx + 1]
      /\ finish /\ idx = Len(Str) => U!char_data = Str[Len(Str)]
  BY <1>1 DEF U!char_data
<1>8. ASSUME NEW i \in 0 .. Len(Str) - 1
      PROVE  /\ i > 0 => Expected(Len(text) + Len(Str) - i) = U!Framed(Str[i + 1])
             /\ i = 0 => Expected(Len(text) + Len(Str) - i) = U!Framed(Str[2])
  <2>1. PICK n \in 1 .. Len(Str) : n = Len(Str) - i
    <3>1. Len(Str) - i \in 1 .. Len(Str)
      BY <1>1
    <3> QED BY ONLY <3>1
  <2>2. Greeted[n] = IF n < Len(Str) THEN Str[Len(Str) + 1 - n] ELSE Str[2]
    BY <1>1 DEF Greeted
  <2>3. (i > 0 => Greeted[n] = Str[i + 1]) /\ (i = 0 => Greeted[n] = Str[2])
    BY <1>1, <2>1, <2>2
  <2>4. ~(Len(text) + Len(Str) - i <= Len(text)) /\ (Len(text) + Len(Str) - i) - Len(text) = n
    BY <1>1, <2>1
  <2>5. Expected(Len(text) + Len(Str) - i) = U!Framed(Greeted[n])
    BY <2>4 DEF Expected
  <2> QED BY <2>3, <2>5
<1>9. CASE txState = "RDY" /\ txState' # "RDY"
  <2>1. U!send /\ putchar /\ txState' = "LOAD_BIT" /\ Started' = Started + 1 /\ bitIndex' = 0
        /\ txData' = U!Framed(U!char_data)
    BY <1>2, <1>3, <1>9
  <2>2. Started' \in 1 .. Len(text) + Len(Str)
    <3>1. UType' /\ Handshake'
      BY ControlStep
    <3>2. (/\ Started \in 0 .. Len(text) + Len(Str)
           /\ txState # "RDY" => Started >= 1)'
      BY <3>1, StartedRange, PTL
    <3> QED BY <1>1, <1>2, <1>9, <3>2
  <2>3. CASE finish
    <3>1. idx # 0 /\ idx' = idx - 1 /\ finish'
      BY <1>3, <1>4, <1>9, <2>1, <2>3
    <3>2. Started' = Len(text) + Len(Str) - idx'
      BY <1>2, <3>1 DEF Started
    <3>3. U!char_data \in U!Character
      BY <1>1, <1>7, <2>3
    <3>4. txData'[1] = 0
      BY <2>1, <3>3, FramedFacts
    <3>5. idx' = 0 => txData' = Expected(Started')
      <4>1. idx' = 0 => U!char_data = Str[2]
        BY <1>1, <1>7, <2>3, <3>1
      <4>2. 0 \in 0 .. Len(Str) - 1
        BY <1>1
      <4>3. idx' = 0 => Expected(Len(text) + Len(Str) - 0) = U!Framed(Str[2])
        BY <1>8, <4>2
      <4> QED BY <2>1, <3>2, <4>1, <4>3
    <3> QED BY <1>5, <1>9, <2>1, <3>1, <3>4, <3>5 DEF Loaded
  <2>4. CASE ~finish
    <3>1. valid /\ wrote < Len(text)
      BY <1>3, <2>1, <2>4
    <3>2. Started = wrote
      BY <1>9, <2>1, <2>4 DEF Started
    <3>3. Expected(wrote + 1) = U!Framed(text[wrote + 1])
      BY <1>1, <3>1 DEF Expected
    <3>4. txData' = Expected(Started')
      BY <1>6, <2>1, <2>4, <3>2, <3>3
    <3>5. txData'[1] = 0
      BY <2>2, <3>4, ExpectedFrame
    <3> QED BY <1>5, <1>9, <3>4, <3>5 DEF Loaded
  <2> QED BY <2>3, <2>4
<1>10. CASE txState # "RDY" /\ txState' # "RDY"
  <2>1. Started' = Started /\ Started \in 1 .. Len(text) + Len(Str) /\ idx' = idx
    BY <1>1, <1>2, <1>3, <1>10, StartedRange
  <2>2. txData' = Expected(Started)
    <3>1. CASE finish
      <4>1. idx < Len(Str) /\ Started = Len(text) + Len(Str) - idx /\ (U!send <=> idx # 0)
        BY <1>3, <1>4, <1>10, <3>1 DEF Handshake, Started
      <4>2. CASE idx = 0
        BY <1>3, <1>10, <4>1, <4>2 DEF Loaded
      <4>3. CASE idx # 0
        <5>1. idx \in 0 .. Len(Str) - 1 /\ idx > 0
          BY <1>1, <4>1, <4>3
        <5>2. Expected(Started) = U!Framed(Str[idx + 1])
          BY <1>8, <4>1, <5>1
        <5> QED BY <1>3, <1>7, <3>1, <4>1, <4>3, <5>2
      <4> QED BY <4>2, <4>3
    <3>2. CASE ~finish
      <4>1. valid /\ wrote < Len(text) /\ Started = wrote + 1
        BY <1>10, <3>2 DEF Handshake, Started
      <4>2. Expected(wrote + 1) = U!Framed(text[wrote + 1])
        BY <1>1, <4>1 DEF Expected
      <4> QED BY <1>3, <1>6, <3>2, <4>1, <4>2
    <3> QED BY <3>1, <3>2
  <2>3. txData'[1] = 0
    BY <2>1, <2>2, ExpectedFrame
  <2> QED BY <1>5, <2>1, <2>2, <2>3 DEF Loaded
<1>11. CASE txState' = "RDY"
  BY <1>11 DEF Loaded
<1> QED BY <1>9, <1>10, <1>11

\* The receiver's cycle of a frame and the bits it has after it.
InFrame == IF rx = 0 THEN (IF txBit = 0 THEN 1 ELSE 0) ELSE rx + 1
Sampled == IF InFrame > 0 /\ InFrame % B = Middle THEN Append(frame, txBit) ELSE frame

LEMMA ReceiverStep ==
  ASSUME U!Tick
  PROVE  /\ Len(Sampled) = FrameLen =>
              rx' = 0 /\ frame' = <<>> /\ received' = Append(received, Sampled)
         /\ Len(Sampled) # FrameLen => rx' = InFrame /\ frame' = Sampled /\ received' = received
BY DEF U!Tick, U!Receiver, InFrame, Sampled, B, Middle, FrameLen

\* A sampled bit is the next of the frame.
LEMMA NextBit ==
  ASSUME NEW s \in Seq({0, 1}), NEW fr \in Seq({0, 1}), Len(s) < Len(fr),
         \A i \in 1 .. Len(s) : s[i] = fr[i],
         NEW v, v = fr[Len(s) + 1]
  PROVE  /\ Append(s, v) \in Seq({0, 1}) /\ Len(Append(s, v)) = Len(s) + 1
         /\ \A i \in 1 .. Len(s) + 1 : Append(s, v)[i] = fr[i]
<1>1. v \in {0, 1}
  OBVIOUS
<1> QED BY <1>1

LEMMA SameBits ==
  ASSUME NEW s \in Seq({0, 1}), NEW fr \in Seq({0, 1}), Len(s) = Len(fr),
         \A i \in 1 .. Len(s) : s[i] = fr[i]
  PROVE  s = fr
OBVIOUS

LEMMA LineStep ==
  ASSUME UType, Handshake, Loaded, Line, U!Tick
  PROVE  /\ Line'
         /\ IF txState # "RDY" /\ ~Past /\ (txState' = "RDY" \/ Past')
            THEN received' = Append(received, Expected(Started))
            ELSE received' = received
         /\ txState # "RDY" /\ Past => txState' = "RDY" \/ Past'
         /\ ~(txState = "RDY" /\ Past')
<1>1. /\ B \in Nat /\ B >= 2 /\ Middle \in 1 .. B - 1 /\ FrameLen \in Nat /\ FrameLen >= 3
      /\ BIT_TMR_MAX = B - 1
  BY Times
<1>2. /\ text' = text /\ UType'
      /\ \A i : Expected(i)' = Expected(i)
      /\ txState # "RDY" => Started' = Started
      /\ (txState = "RDY" => txState' \in {"RDY", "LOAD_BIT"})
  BY ControlStep, ExpectedSame
<1>3. txState # "RDY" /\ txState' # "RDY" => txData' = Expected(Started)
  BY LoadedStep
<1>4. txState # "RDY" => Expected(Started)' = Expected(Started)
  <2>1. PICK s : s = Started
    OBVIOUS
  <2>2. Expected(s)' = Expected(s)
    BY <1>2
  <2> QED BY <1>2, <2>1, <2>2 DEF Expected, Greeted
<1>5. txState # "RDY" =>
        /\ Expected(Started) \in Seq({0, 1}) /\ Len(Expected(Started)) = FrameLen
        /\ Expected(Started)[1] = 0 /\ Expected(Started)[FrameLen] = 1
  <2>1. txState # "RDY" => Started \in 1 .. Len(text) + Len(Str)
    BY Strings, StartedRange DEF UType
  <2> QED BY <2>1, ExpectedFrame
<1>6. /\ txState = "RDY" => bitTmr' = 0 /\ bitIndex' = 0 /\ txBit' = 1
      /\ txState = "LOAD_BIT" => /\ txState' = "SEND_BIT" /\ bitIndex' = bitIndex + 1
                                 /\ txBit' = txData[bitIndex + 1]
      /\ txState = "SEND_BIT" =>
           /\ bitIndex' = bitIndex /\ txBit' = txBit
           /\ bitTmr # BIT_TMR_MAX => txState' = "SEND_BIT"
           /\ bitTmr = BIT_TMR_MAX =>
                txState' = IF bitIndex = FrameLen THEN "RDY" ELSE "LOAD_BIT"
      /\ txState # "RDY" => bitTmr' = IF bitTmr = BIT_TMR_MAX THEN 0 ELSE bitTmr + 1
  BY DEF U!Tick, U!Transmitter, U!TxState, U!bitDone, FrameLen
<1>7. /\ rx \in Nat /\ frame \in Seq({0, 1}) /\ bitTmr \in 0 .. B - 1 /\ bitIndex \in 0 .. FrameLen
      /\ txState \in {"RDY", "LOAD_BIT", "SEND_BIT"}
  BY DEF Line, UType
<1>8. CASE txState = "RDY"
  <2>1. rx = 0 /\ txBit = 1 /\ frame = <<>> /\ Len(frame) = 0
    BY <1>8 DEF Line
  <2>2. InFrame = 0 /\ Sampled = <<>> /\ Len(Sampled) # FrameLen
    BY <1>1, <2>1 DEF InFrame, Sampled
  <2>3. rx' = 0 /\ frame' = <<>> /\ received' = received /\ Len(frame') = 0
    BY <2>2, ReceiverStep
  <2>4. bitTmr' = 0 /\ bitIndex' = 0 /\ txBit' = 1 /\ txState' \in {"RDY", "LOAD_BIT"}
    BY <1>2, <1>6, <1>8
  <2>5. Line'
    BY <1>1, <2>3, <2>4 DEF Line
  <2>6. ~Past'
    BY <2>4 DEF Past
  <2> QED BY <1>8, <2>3, <2>5, <2>6
<1>9. CASE txState = "LOAD_BIT"
  <2>1. PICK fr \in Seq({0, 1}) : fr = Expected(Started) /\ Len(fr) = FrameLen /\ fr[1] = 0
    BY <1>5, <1>9
  <2>2. PICK k \in 0 .. FrameLen - 1 : k = bitIndex
    <3>1. bitIndex \in 0 .. FrameLen - 1
      BY <1>1, <1>7, <1>9 DEF Line
    <3> QED BY ONLY <3>1
  <2>3. /\ bitTmr = 0 /\ Len(frame) = k
        /\ (k = 0 => txBit = 1 /\ rx = 0) /\ (k # 0 => rx = k * B - 1)
        /\ \A i \in 1 .. Len(frame) : frame[i] = fr[i]
    BY <1>9, <2>1, <2>2 DEF Line
  <2>4. txBit' = fr[k + 1]
    <3>1. txData[1] = 0 /\ (k # 0 => txData = fr)
      BY <1>9, <2>1, <2>2 DEF Loaded
    <3> QED BY <1>6, <1>9, <2>1, <2>2, <3>1
  <2>5. PICK y \in Nat : y = k * B /\ y % B = 0 /\ (k >= 1 => y >= B) /\ (k = 0 => y = 0)
    <3>1. 0 \in 0 .. B - 1 /\ k \in Nat
      BY <1>1, <2>2
    <3>2. (k * B + 0) % B = 0 /\ k * B \in Nat /\ (k >= 1 => k * B >= B)
      BY <3>1, InBit
    <3>3. k * B + 0 = k * B /\ (k = 0 => k * B = 0)
      BY <1>1, <3>2
    <3>4. k * B \in Nat /\ (k * B) % B = 0 /\ (k >= 1 => k * B >= B) /\ (k = 0 => k * B = 0)
      BY <3>2, <3>3
    <3> QED BY ONLY <3>4
  <2>6. InFrame = y
    BY <1>1, <2>2, <2>3, <2>5 DEF InFrame
  <2>7. Sampled = frame /\ Len(Sampled) # FrameLen
    BY <1>1, <2>2, <2>3, <2>5, <2>6 DEF Sampled
  <2>8. rx' = y /\ frame' = frame /\ received' = received
    BY <2>6, <2>7, ReceiverStep
  <2>9. bitTmr' = 1 /\ bitIndex' = k + 1 /\ txState' = "SEND_BIT" /\ ~Past'
    <3>1. bitTmr' = 1 /\ bitIndex' = k + 1 /\ txState' = "SEND_BIT"
      BY <1>1, <1>6, <1>9, <2>2, <2>3
    <3>2. ~(bitTmr' > Middle)
      BY <1>1, <3>1
    <3> QED BY <3>1, <3>2 DEF Past
  <2>10. rx' = (bitIndex' - 1) * B + bitTmr' - 1
    <3>1. bitIndex' - 1 = k
      BY <2>2, <2>9
    <3>2. (bitIndex' - 1) * B = y
      BY <2>5, <3>1
    <3> QED BY <2>5, <2>8, <2>9, <3>2
  <2>11. Expected(Started)' = fr
    BY <1>4, <1>9, <2>1
  <2>12. Line'
    <3>1. /\ rx' \in Nat /\ frame' \in Seq({0, 1}) /\ bitTmr' \in 0 .. B - 1
          /\ bitIndex' \in 0 .. FrameLen /\ bitTmr' > 0 /\ bitIndex' > 0
      BY <1>1, <1>7, <2>2, <2>5, <2>8, <2>9
    <3>2. Len(frame') = (IF bitTmr' > Middle THEN bitIndex' ELSE bitIndex' - 1)
      BY <1>1, <2>2, <2>3, <2>8, <2>9
    <3>3. \A i \in 1 .. Len(frame') : frame'[i] = fr[i]
      BY <2>3, <2>8
    <3>4. txBit' = fr[bitIndex']
      BY <2>4, <2>9
    <3> QED BY <2>9, <2>10, <2>11, <3>1, <3>2, <3>3, <3>4 DEF Line
  <2> QED BY <1>9, <2>8, <2>9, <2>12 DEF Past
<1>10. CASE txState = "SEND_BIT" /\ Past
  <2>1. /\ rx = 0 /\ frame = <<>> /\ bitIndex = FrameLen /\ bitTmr > Middle
        /\ txBit = Expected(Started)[FrameLen]
    BY <1>10 DEF Line, Past
  <2>2. txBit = 1
    BY <1>5, <1>10, <2>1
  <2>3. InFrame = 0 /\ Sampled = <<>> /\ Len(Sampled) # FrameLen
    BY <1>1, <2>1, <2>2 DEF InFrame, Sampled
  <2>4. rx' = 0 /\ frame' = <<>> /\ received' = received /\ Len(frame') = 0
    BY <2>3, ReceiverStep
  <2>5. bitIndex' = FrameLen /\ txBit' = 1
    BY <1>6, <1>10, <2>1, <2>2
  <2>6. CASE bitTmr = BIT_TMR_MAX
    <3>1. txState' = "RDY" /\ bitTmr' = 0
      BY <1>6, <1>10, <2>1, <2>6
    <3>2. Line'
      BY <1>1, <2>4, <2>5, <3>1 DEF Line
    <3> QED BY <1>10, <2>4, <3>1, <3>2
  <2>7. CASE bitTmr # BIT_TMR_MAX
    <3>1. txState' = "SEND_BIT" /\ bitTmr' = bitTmr + 1
      BY <1>6, <1>10, <2>7
    <3>2. Past'
      BY <1>1, <1>7, <2>1, <2>5, <3>1 DEF Past
    <3>3. txBit' = Expected(Started)'[bitIndex']
      BY <1>4, <1>10, <2>1, <2>2, <2>5
    <3>4. bitTmr' \in 0 .. B - 1 /\ bitTmr' > 0
      BY <1>1, <1>7, <2>7, <3>1
    <3>5. Line'
      BY <1>1, <2>4, <2>5, <3>1, <3>2, <3>3, <3>4 DEF Line
    <3> QED BY <1>10, <2>4, <3>2, <3>5
  <2> QED BY <2>6, <2>7
<1>11. CASE txState = "SEND_BIT" /\ ~Past
  <2>1. PICK fr \in Seq({0, 1}) : fr = Expected(Started) /\ Len(fr) = FrameLen /\ fr[1] = 0
                                /\ fr[FrameLen] = 1
    BY <1>5, <1>11
  <2>2. PICK k \in 1 .. FrameLen, t \in 1 .. B - 1 : k = bitIndex /\ t = bitTmr
    <3>1. bitIndex \in 1 .. FrameLen /\ bitTmr \in 1 .. B - 1
      BY <1>1, <1>7, <1>11 DEF Line
    <3> QED BY ONLY <3>1
  <2>3. /\ txBit = fr[k] /\ rx = (k - 1) * B + t - 1
        /\ Len(frame) = (IF t > Middle THEN k ELSE k - 1)
        /\ \A i \in 1 .. Len(frame) : frame[i] = fr[i]
    BY <1>11, <2>1, <2>2 DEF Line
  <2>4. k < FrameLen \/ t <= Middle
    BY <1>1, <1>11, <2>2 DEF Past
  <2>5. PICK y \in Nat : y = (k - 1) * B /\ (y + t) % B = t /\ (k > 1 => y >= B) /\ (k = 1 => y = 0)
    <3>1. t \in 0 .. B - 1 /\ k - 1 \in Nat
      BY <1>1, <2>2
    <3>2. ((k - 1) * B + t) % B = t /\ (k - 1) * B \in Nat /\ (k - 1 >= 1 => (k - 1) * B >= B)
      BY <3>1, InBit
    <3>3. (k = 1 => (k - 1) * B = 0) /\ (k > 1 => k - 1 >= 1)
      BY <1>1, <2>2
    <3>4. /\ (k - 1) * B \in Nat /\ ((k - 1) * B + t) % B = t /\ (k > 1 => (k - 1) * B >= B)
          /\ (k = 1 => (k - 1) * B = 0)
      BY <3>2, <3>3
    <3> QED BY ONLY <3>4
  <2>6. InFrame = y + t /\ InFrame > 0 /\ InFrame % B = t
    <3>1. CASE rx = 0
      <4>1. k = 1 /\ t = 1
        BY <1>1, <2>2, <2>3, <2>5, <3>1
      <4>2. txBit = 0
        BY <2>1, <2>3, <4>1
      <4> QED BY <2>5, <3>1, <4>1, <4>2 DEF InFrame
    <3>2. CASE rx # 0
      <4>1. InFrame = y + t
        BY <2>2, <2>3, <2>5, <3>2 DEF InFrame
      <4> QED BY <2>2, <2>5, <4>1
    <3> QED BY <3>1, <3>2
  <2>7. /\ Sampled \in Seq({0, 1})
        /\ Len(Sampled) = (IF t >= Middle THEN k ELSE k - 1)
        /\ \A i \in 1 .. Len(Sampled) : Sampled[i] = fr[i]
    <3>1. CASE t = Middle
      <4>1. Len(frame) = k - 1 /\ txBit = fr[Len(frame) + 1] /\ Len(frame) < Len(fr)
            /\ Len(frame) + 1 = k
        BY <1>1, <2>1, <2>2, <2>3, <3>1
      <4>2. Sampled = Append(frame, txBit)
        BY <2>6, <3>1 DEF Sampled
      <4>3. /\ Append(frame, txBit) \in Seq({0, 1}) /\ Len(Append(frame, txBit)) = Len(frame) + 1
            /\ \A i \in 1 .. Len(frame) + 1 : Append(frame, txBit)[i] = fr[i]
        BY <1>7, <2>1, <2>3, <4>1, NextBit
      <4> QED BY <1>1, <3>1, <4>1, <4>2, <4>3
    <3>2. CASE t # Middle
      <4>1. Sampled = frame
        BY <2>6, <3>2 DEF Sampled
      <4> QED BY <1>1, <1>7, <2>2, <2>3, <3>2, <4>1
    <3> QED BY <3>1, <3>2
  <2>8. Expected(Started)' = fr /\ bitIndex' = k /\ txBit' = fr[k]
    BY <1>4, <1>6, <1>11, <2>1, <2>2, <2>3
  <2>9. /\ t = B - 1 => bitTmr' = 0 /\ txState' = IF k = FrameLen THEN "RDY" ELSE "LOAD_BIT"
        /\ t # B - 1 => bitTmr' = t + 1 /\ txState' = "SEND_BIT"
    BY <1>1, <1>6, <1>11, <2>2
  <2>10. CASE Len(Sampled) = FrameLen
    <3>1. k = FrameLen /\ t = Middle
      BY <1>1, <2>2, <2>4, <2>7, <2>10
    <3>2. Sampled = fr
      BY <2>1, <2>7, <2>10, SameBits
    <3>3. rx' = 0 /\ frame' = <<>> /\ received' = Append(received, fr) /\ Len(frame') = 0
      BY <2>10, <3>2, ReceiverStep
    <3>4. txState' = "RDY" \/ Past'
      BY <1>1, <2>8, <2>9, <3>1 DEF Past
    <3>5. txBit' = 1
      BY <2>1, <2>8, <3>1
    <3>6. CASE t = B - 1
      <4>1. txState' = "RDY" /\ bitTmr' = 0
        BY <2>9, <3>1, <3>6
      <4>2. Line'
        BY <1>1, <2>8, <3>1, <3>3, <3>5, <4>1 DEF Line
      <4> QED BY <1>11, <2>1, <3>3, <3>4, <4>2
    <3>7. CASE t # B - 1
      <4>1. txState' = "SEND_BIT" /\ bitTmr' = t + 1 /\ Past'
        BY <2>9, <3>4, <3>7
      <4>2. bitTmr' \in 0 .. B - 1 /\ bitTmr' > 0
        BY <1>1, <2>2, <3>7, <4>1
      <4>3. Line'
        BY <1>1, <2>8, <3>1, <3>3, <4>1, <4>2 DEF Line
      <4> QED BY <1>11, <2>1, <3>3, <3>4, <4>3
    <3> QED BY <3>6, <3>7
  <2>11. CASE Len(Sampled) # FrameLen
    <3>1. k < FrameLen \/ t < Middle
      BY <1>1, <2>2, <2>4, <2>7, <2>11
    <3>2. rx' = y + t /\ frame' = Sampled /\ received' = received
      BY <2>6, <2>11, ReceiverStep
    <3>3. txState' # "RDY" /\ ~Past'
      <4>1. CASE t = B - 1
        <5>1. txState' = "LOAD_BIT"
          BY <1>1, <2>2, <2>9, <3>1, <4>1
        <5> QED BY <5>1 DEF Past
      <4>2. CASE t # B - 1
        <5>1. txState' = "SEND_BIT" /\ ~(bitIndex' = FrameLen /\ bitTmr' > Middle)
          BY <1>1, <2>2, <2>8, <2>9, <3>1, <4>2
        <5> QED BY <5>1 DEF Past
      <4> QED BY <4>1, <4>2
    <3>4. rx' \in Nat /\ frame' \in Seq({0, 1}) /\ bitTmr' \in 0 .. B - 1 /\ bitIndex' \in 0 .. FrameLen
          /\ bitIndex' > 0
      BY <1>1, <2>2, <2>5, <2>7, <2>8, <2>9, <3>2
    <3>5. \A i \in 1 .. Len(frame') : frame'[i] = fr[i]
      BY <2>7, <3>2
    <3>6. CASE t = B - 1
      <4>1. txState' = "LOAD_BIT" /\ bitTmr' = 0 /\ k < FrameLen
        BY <1>1, <2>2, <2>9, <3>1, <3>6
      <4>2. Len(frame') = k
        BY <1>1, <2>7, <3>2, <3>6
      <4>3. rx' = k * B - 1
        <5>1. PICK n \in Nat : n = B
          BY <1>1
        <5>2. k * n = (k - 1) * n + n
          BY <2>2, <5>1
        <5> QED BY <2>5, <3>2, <3>6, <5>1, <5>2
      <4>4. Line'
        BY <2>8, <3>4, <3>5, <4>1, <4>2, <4>3 DEF Line
      <4> QED BY <1>11, <3>2, <3>3, <4>4
    <3>7. CASE t # B - 1
      <4>1. txState' = "SEND_BIT" /\ bitTmr' = t + 1 /\ bitTmr' > 0
        BY <2>2, <2>9, <3>7
      <4>2. Len(frame') = IF bitTmr' > Middle THEN bitIndex' ELSE bitIndex' - 1
        BY <1>1, <2>2, <2>7, <2>8, <3>2, <4>1
      <4>3. rx' = (bitIndex' - 1) * B + bitTmr' - 1
        <5>1. (bitIndex' - 1) * B = y
          BY <2>5, <2>8
        <5> QED BY <2>2, <2>5, <3>2, <4>1, <5>1
      <4>4. Line'
        BY <2>8, <3>3, <3>4, <3>5, <4>1, <4>2, <4>3 DEF Line
      <4> QED BY <1>11, <3>2, <3>3, <4>4
    <3> QED BY <3>6, <3>7
  <2> QED BY <2>10, <2>11
<1> QED BY <1>7, <1>8, <1>9, <1>10, <1>11

\* Sequences with the same first elements have the same prefix.
LEMMA FirstOnes ==
  ASSUME NEW S, NEW s \in Seq(S), NEW u \in Seq(S), NEW n \in 0 .. Len(s), n <= Len(u),
         \A i \in 1 .. n : s[i] = u[i]
  PROVE  SubSeq(s, 1, n) = SubSeq(u, 1, n)
<1>1. /\ SubSeq(s, 1, n) \in Seq(S) /\ Len(SubSeq(s, 1, n)) = n
      /\ \A i \in 1 .. n : SubSeq(s, 1, n)[i] = s[i]
  OBVIOUS
<1>2. /\ SubSeq(u, 1, n) \in Seq(S) /\ Len(SubSeq(u, 1, n)) = n
      /\ \A i \in 1 .. n : SubSeq(u, 1, n)[i] = u[i]
  OBVIOUS
<1> QED BY <1>1, <1>2

LEMMA ReceivedStep ==
  ASSUME UartInv, U!Tick
  PROVE  Received'
<1>1. /\ UType /\ Handshake /\ Loaded /\ Line
      /\ received \in Seq(Seq({0, 1})) /\ Len(received) = Ended /\ Ended \in Int
      /\ \A i \in 1 .. Len(received) : received[i] = Expected(i)
  BY DEF UartInv, Received
<1>2. /\ \A i : Expected(i)' = Expected(i)
      /\ IF txState = "RDY" /\ U!send /\ putchar
         THEN txState' = "LOAD_BIT" /\ Started' = Started + 1
         ELSE Started' = Started /\ (txState = "RDY" => txState' = "RDY")
  BY <1>1, ControlStep, ExpectedSame
<1>3. /\ IF txState # "RDY" /\ ~Past /\ (txState' = "RDY" \/ Past')
         THEN received' = Append(received, Expected(Started))
         ELSE received' = received
      /\ txState # "RDY" /\ Past => txState' = "RDY" \/ Past'
      /\ ~(txState = "RDY" /\ Past')
  BY <1>1, LineStep
<1>4. Started \in Nat /\ (txState # "RDY" => Started \in 1 .. Len(text) + Len(Str))
  BY <1>1, Strings, StartedRange DEF UType
<1>5. CASE txState # "RDY" /\ ~Past /\ (txState' = "RDY" \/ Past')
  <2>1. Ended = Started - 1 /\ Ended' = Started
    BY <1>2, <1>5 DEF Ended
  <2>2. PICK e \in Seq({0, 1}) : e = Expected(Started)
    BY <1>1, <1>4, <1>5, ExpectedFrame
  <2>3. received' = Append(received, e) /\ Len(received) = Started - 1 /\ Len(received) \in Nat
    BY <1>1, <1>3, <1>5, <2>1, <2>2
  <2>4. /\ received' \in Seq(Seq({0, 1})) /\ Len(received') = Started
        /\ received'[Started] = e /\ \A i \in 1 .. Started - 1 : received'[i] = received[i]
    BY <1>1, <1>4, <2>3
  <2>5. ASSUME NEW i \in 1 .. Len(received')
        PROVE  received'[i] = Expected(i)'
    <3>1. CASE i = Started
      <4>1. received'[i] = Expected(i)
        BY <2>2, <2>4, <3>1
      <4> QED BY <1>2, <4>1
    <3>2. CASE i # Started
      <4>1. i \in 1 .. Started - 1 /\ i \in 1 .. Len(received)
        BY <1>4, <2>3, <2>4, <3>2
      <4>2. received'[i] = Expected(i)
        BY <1>1, <2>4, <4>1
      <4> QED BY <1>2, <4>2
    <3> QED BY <3>1, <3>2
  <2> QED BY <2>1, <2>4, <2>5 DEF Received
<1>6. CASE ~(txState # "RDY" /\ ~Past /\ (txState' = "RDY" \/ Past'))
  <2>1. received' = received
    BY <1>3, <1>6
  <2>2. Ended' = Ended
    <3>1. CASE txState = "RDY" /\ txState' = "RDY"
      BY <1>2, <3>1 DEF Ended
    <3>2. CASE txState = "RDY" /\ txState' # "RDY"
      <4>1. Ended = Started /\ Ended' = Started' - 1 /\ Started' = Started + 1
        BY <1>2, <1>3, <3>2 DEF Ended
      <4> QED BY <1>4, <4>1
    <3>3. CASE txState # "RDY"
      BY <1>2, <1>3, <1>6, <3>3 DEF Ended
    <3> QED BY <3>1, <3>2, <3>3
  <2> QED BY <1>1, <1>2, <2>1, <2>2 DEF Received
<1> QED BY <1>5, <1>6

LEMMA UartInitially == U!Init => UartInv
<1> SUFFICES ASSUME U!Init PROVE UartInv
  OBVIOUS
<1>1. /\ K \in Nat /\ K > 1 /\ B \in Nat /\ B >= 2 /\ FrameLen \in Nat /\ FrameLen >= 3
      /\ Len(Str) \in Nat
  BY Times, Strings
<1>2. text \in Seq(U!Character)
  BY SuiteAssumption DEF U!Init, U!UartAssumption
<1>3. /\ valid = FALSE /\ wrote = 0 /\ phase = 0 /\ txState = "RDY" /\ txBit = 1 /\ bitTmr = 0
      /\ bitIndex = 0 /\ putchar = TRUE /\ finish = FALSE /\ idx = Len(Str)
      /\ rx = 0 /\ frame = <<>> /\ received = <<>> /\ Len(frame) = 0 /\ Len(received) = 0
  BY DEF U!Init
<1>4. UType
  <2>1. wrote \in Nat /\ idx \in 0 .. Len(Str) /\ phase \in 0 .. K - 1
    BY <1>1, <1>3
  <2>2. /\ valid \in BOOLEAN /\ putchar \in BOOLEAN /\ finish \in BOOLEAN
        /\ txState \in {"RDY", "LOAD_BIT", "SEND_BIT"}
    BY <1>3
  <2> QED BY <1>2, <2>1, <2>2 DEF UType
<1>5. Handshake
  BY <1>1, <1>2, <1>3 DEF Handshake
<1>6. Loaded
  BY <1>3 DEF Loaded
<1>7. Line
  BY <1>1, <1>3 DEF Line
<1>8. Ended = 0
  BY <1>3 DEF Ended, Started
<1>9. Received
  BY <1>3, <1>8 DEF Received
<1> QED BY <1>4, <1>5, <1>6, <1>7, <1>9 DEF UartInv

LEMMA UartNext == UartInv /\ [U!Next]_(U!vars) => UartInv'
<1> SUFFICES ASSUME UartInv, [U!Next]_(U!vars) PROVE UartInv'
  OBVIOUS
<1>1. CASE U!Next
  <2>1. U!Tick
    BY <1>1 DEF U!Next
  <2>2. UType /\ Handshake /\ Loaded /\ Line
    BY DEF UartInv
  <2>3. UType' /\ Handshake'
    BY <2>1, <2>2, ControlStep
  <2>4. Loaded' /\ Line'
    BY <2>1, <2>2, LoadedStep, LineStep
  <2> QED BY <2>1, <2>3, <2>4, ReceivedStep DEF UartInv
<1>2. CASE UNCHANGED U!vars
  <2>1. UNCHANGED <<text, valid, wrote, phase, txState, txData, txBit, bitTmr, bitIndex, putchar,
                    finish, idx, rx, frame, received>>
    BY <1>2 DEF U!vars, U!cpuVars, U!uartVars, U!receiverVars
  <2>2. \A i : Expected(i)' = Expected(i)
    BY <2>1, ExpectedSame
  <2>3. Started' = Started /\ (Past' <=> Past)
    BY <2>1 DEF Started, Past
  <2>4. Expected(Started)' = Expected(Started)
    BY <2>1, <2>3 DEF Expected, Greeted
  <2>5. UType'
    BY <2>1 DEF UartInv, UType
  <2>6. Handshake'
    BY <2>1 DEF UartInv, Handshake
  <2>7. Loaded'
    BY <2>1, <2>4 DEF UartInv, Loaded
  <2>8. Line'
    BY <2>1, <2>3, <2>4 DEF UartInv, Line
  <2>9. Received'
    BY <2>1, <2>2, <2>3 DEF UartInv, Received, Ended
  <2> QED BY <2>5, <2>6, <2>7, <2>8, <2>9 DEF UartInv
<1> QED BY <1>1, <1>2

\* The characters of the line, by their places.
LEMMA SentText ==
  ASSUME UType
  PROVE  LET whole == text \o U!Greeting \o <<U!Surplus>>
         IN  /\ DOMAIN whole = 1 .. Len(text) + Len(Str)
             /\ \A i \in 1 .. Len(text) + Len(Str) :
                  whole[i] = IF i <= Len(text) THEN text[i] ELSE Greeted[i - Len(text)]
<1>1. /\ text \in Seq(U!Character) /\ Len(text) \in Nat
      /\ Str \in Seq(U!Character) /\ Len(Str) \in Nat /\ Len(Str) > 1
  BY Strings DEF UType
<1>2. PICK t, l : t = Len(text) /\ l = Len(Str) - 1
  OBVIOUS
<1>3. t \in Nat /\ l \in Nat /\ l > 0 /\ Len(Str) = l + 1
  BY <1>1, <1>2
<1>4. /\ U!Greeting \in Seq(U!Character) /\ Len(U!Greeting) = l
      /\ \A n \in 1 .. l : U!Greeting[n] = Str[Len(Str) + 1 - n]
  BY <1>1, <1>2 DEF U!Greeting
<1>5. PICK last : last = <<U!Surplus>>
  OBVIOUS
<1>6. last \in Seq(U!Character) /\ Len(last) = 1 /\ last[1] = U!Surplus
  BY <1>1, <1>5 DEF U!Surplus
<1>7. PICK both : both = text \o U!Greeting
  OBVIOUS
<1>8. /\ both \in Seq(U!Character) /\ Len(both) = t + l
      /\ \A i \in 1 .. t + l : both[i] = IF i <= t THEN text[i] ELSE U!Greeting[i - t]
  <2>1. /\ text \o U!Greeting \in Seq(U!Character)
        /\ Len(text \o U!Greeting) = Len(text) + Len(U!Greeting)
        /\ \A i \in 1 .. Len(text) + Len(U!Greeting) :
             (text \o U!Greeting)[i] =
               IF i <= Len(text) THEN text[i] ELSE U!Greeting[i - Len(text)]
    BY <1>1, <1>4, ConcatProperties, ZenonT(30)
  <2> QED BY <1>2, <1>4, <1>7, <2>1, ZenonT(30)
<1>9. PICK whole : whole = both \o last
  OBVIOUS
<1>10. /\ whole \in Seq(U!Character) /\ Len(whole) = t + l + 1
       /\ \A i \in 1 .. t + l + 1 : whole[i] = IF i <= t + l THEN both[i] ELSE last[i - (t + l)]
  <2>1. /\ both \o last \in Seq(U!Character) /\ Len(both \o last) = Len(both) + Len(last)
        /\ \A i \in 1 .. Len(both) + Len(last) :
             (both \o last)[i] = IF i <= Len(both) THEN both[i] ELSE last[i - Len(both)]
    BY <1>6, <1>8, ConcatProperties, ZenonT(30)
  <2> QED BY <1>6, <1>8, <1>9, <2>1, ZenonT(30)
<1>11. ASSUME NEW i \in 1 .. t + l + 1
       PROVE  whole[i] = IF i <= t THEN text[i] ELSE Greeted[i - t]
  <2>1. CASE i <= t
    BY <1>3, <1>8, <1>10, <2>1
  <2>2. CASE t < i /\ i <= t + l
    <3>1. PICK n \in 1 .. l : n = i - t
      <4>1. i - t \in 1 .. l
        BY <1>3, <2>2
      <4> QED BY ONLY <4>1
    <3>2. whole[i] = U!Greeting[n]
      BY <1>3, <1>8, <1>10, <2>2, <3>1
    <3>3. Greeted[n] = Str[Len(Str) + 1 - n]
      BY <1>3, <3>1 DEF Greeted
    <3> QED BY <1>3, <1>4, <2>2, <3>1, <3>2, <3>3
  <2>3. CASE i = t + l + 1
    <3>1. i - t = Len(Str) /\ i - (t + l) = 1 /\ ~(i <= t)
      BY <1>3, <2>3
    <3>2. whole[i] = U!Surplus
      BY <1>3, <1>6, <1>10, <2>3, <3>1
    <3>3. Greeted[Len(Str)] = Str[2]
      BY <1>3 DEF Greeted
    <3> QED BY <3>1, <3>2, <3>3 DEF U!Surplus
  <2> QED BY <1>3, <2>1, <2>2, <2>3
<1>12. t + l + 1 = Len(text) + Len(Str) /\ DOMAIN whole = 1 .. t + l + 1
  BY <1>2, <1>3, <1>10
<1> QED BY <1>2, <1>5, <1>7, <1>9, <1>11, <1>12

LEMMA UartCharactersSent == UartInv => U!CharactersSent
<1> SUFFICES ASSUME UartInv PROVE U!CharactersSent
  OBVIOUS
<1>1. /\ text \in Seq(U!Character) /\ Len(text) \in Nat /\ wrote \in Nat
      /\ Str \in Seq(U!Character) /\ Len(Str) \in Nat
  BY Strings DEF UartInv, UType
<1>2. /\ Started \in 0 .. Len(text) + Len(Str)
      /\ txState # "RDY" => Started >= 1
      /\ wrote <= Len(text) => Started >= wrote
      /\ wrote >= Len(text) => Started >= Len(text)
      /\ txState # "RDY" => /\ wrote <= Len(text) => Started - 1 >= wrote
                            /\ wrote >= Len(text) => Started - 1 >= Len(text)
  BY StartedRange DEF UartInv
<1>3. Len(received) \in 0 .. Len(text) + Len(Str)
      /\ Len(received) >= IF wrote <= Len(text) THEN wrote ELSE Len(text)
  <2>1. Len(received) = Ended
    BY DEF UartInv, Received
  <2>2. CASE txState = "RDY" \/ Past
    <3>1. Ended = Started
      BY <2>2 DEF Ended
    <3> QED BY <1>1, <1>2, <2>1, <3>1
  <2>3. CASE ~(txState = "RDY" \/ Past)
    <3>1. Ended = Started - 1 /\ txState # "RDY"
      BY <2>3 DEF Ended
    <3> QED BY <1>1, <1>2, <2>1, <3>1
  <2> QED BY <2>2, <2>3
<1> DEFINE whole == text \o U!Greeting \o <<U!Surplus>>
           expected == [n \in DOMAIN whole |-> U!Framed(whole[n])]
<1>4. /\ DOMAIN whole = 1 .. Len(text) + Len(Str)
      /\ \A i \in 1 .. Len(text) + Len(Str) :
           whole[i] = IF i <= Len(text) THEN text[i] ELSE Greeted[i - Len(text)]
  BY SentText DEF UartInv
<1> HIDE DEF whole
<1>5. expected \in Seq(Seq({0, 1})) /\ Len(expected) = Len(text) + Len(Str)
  <2>1. PICK n \in Nat : n = Len(text) + Len(Str)
    BY <1>1
  <2>2. expected = [i \in 1 .. n |-> Expected(i)]
    BY <1>4, <2>1 DEF Expected
  <2>3. \A i \in 1 .. n : Expected(i) \in Seq({0, 1})
    BY <2>1, ExpectedFrame DEF UartInv
  <2> QED BY <2>1, <2>2, <2>3
<1>6. \A i \in 1 .. Len(text) + Len(Str) : expected[i] = Expected(i)
  BY <1>4 DEF Expected
<1> HIDE DEF expected
<1>7. PICK n \in 0 .. Len(expected) : n = Len(received)
  <2>1. Len(received) \in 0 .. Len(expected)
    BY <1>3, <1>5
  <2> QED BY ONLY <2>1
<1>8. ASSUME NEW i \in 1 .. n PROVE received[i] = expected[i]
  <2>1. i \in 1 .. Len(received) /\ i \in 1 .. Len(text) + Len(Str)
    BY <1>1, <1>5, <1>7
  <2>2. received[i] = Expected(i)
    BY <2>1 DEF UartInv, Received
  <2> QED BY <1>6, <2>1, <2>2
<1>9. SubSeq(received, 1, n) = SubSeq(expected, 1, n)
  <2>1. received \in Seq(Seq({0, 1})) /\ n \in 0 .. Len(received) /\ n <= Len(expected)
    BY <1>3, <1>5, <1>7 DEF UartInv, Received
  <2> QED BY <1>5, <1>8, <2>1, FirstOnes
<1>10. U!IsPrefix(received, expected)
  BY <1>3, <1>5, <1>7, <1>9 DEF U!IsPrefix
<1> QED BY <1>3, <1>10, Zenon DEF U!CharactersSent, expected, whole

\* CharactersSent for every text, string, bit time and ratio of the clocks: the
\* line carries each of the program's characters once, whenever the core looks
\* at ready, then the device's string to str[1], and str[1] twice
\* (device.sv:126-195).
THEOREM CharactersSentHolds == AllSpec => []CharactersSent
<1>1. AllInit => U!Init
  BY DEF AllInit
<1>2. [AllNext]_allVars => [U!Next]_(U!vars)
  BY DEF AllNext, AluPart, UartPart, BridgePart, ConfregPart, Aborted, allVars, uartVars,
     U!vars, U!cpuVars, U!uartVars, U!receiverVars
<1> QED BY <1>1, <1>2, UartInitially, UartNext, UartCharactersSent, PTL DEF AllSpec, CharactersSent

-----------------------------------------------------------------------------
(* What a write makes of the memory, beat by beat                          *)

Less == {pair \in Nat \X Nat : pair[1] < pair[2]}

\* Induction on the numbers, for a set.
LEMMA NumberInduction ==
  ASSUME NEW T \in SUBSET Nat, 0 \in T, \A n \in T : n + 1 \in T
  PROVE  T = Nat
<1> SUFFICES ASSUME T # Nat PROVE FALSE
  OBVIOUS
<1>1. IsWellFoundedOn(Less, Nat)
  BY NatLessThanWellFounded DEF OpToRel, Less
<1> DEFINE Rest == Nat \ T
<1>2. Rest \subseteq Nat /\ Rest # {}
  OBVIOUS
<1>3. PICK x \in Rest : \A y \in Rest : ~(<<y, x>> \in Less)
  BY <1>1, <1>2, WFMin
<1>4. x \in Nat /\ x \notin T /\ x # 0
  OBVIOUS
<1>5. x - 1 \in Nat /\ (x - 1) + 1 = x
  BY <1>4
<1>6. x - 1 \in Rest
  BY <1>4, <1>5
<1>7. <<x - 1, x>> \in Less
  BY <1>4, <1>5 DEF Less
<1> QED BY <1>3, <1>6, <1>7

\* The largest of the first n + 1 numbers.
LEMMA LargestOf ==
  ASSUME NEW n \in Nat, NEW s \in SUBSET (1 .. n + 1), n + 1 \in s
  PROVE  AX!Max(s) = n + 1
<1>1. \A y \in s : n + 1 >= y
  OBVIOUS
<1>2. \A x \in s : (\A y \in s : x >= y) => x = n + 1
  OBVIOUS
<1> QED BY <1>1, <1>2 DEF AX!Max
\* Beat n of a write.
BeatWritten(m, req, n, x) ==
  [m EXCEPT ![AX!BeatAddr(req.addr, n - 1, req.len)] = AX!Merge(@, x.strobe, x.data)]

\* The fold of Written, as the library defines it: over all sets of beats, with
\* the beat d[i] at place i.
FoldOver(f, m, req, w, fr, n) ==
  [s \in SUBSET (1 .. n) |->
     IF s = {} THEN m
     ELSE BeatWritten(f[s \ {AX!Max(s)}], req, fr[AX!Max(s)], w[fr[AX!Max(s)]])]

LEMMA WrittenFold ==
  ASSUME NEW a0, NEW n, DOMAIN a0.w = 1 .. n, NEW fr, fr = [i \in 1 .. n |-> i],
         NEW f, f = CHOOSE g : g = FoldOver(g, a0.mem, a0.aw[1], a0.w, fr, n)
  PROVE  AX!Written(a0) = f[1 .. n]
<1> DEFINE Beat(m, i) == BeatWritten(m, a0.aw[1], i, a0.w[i])
<1>1. AX!Written(a0) = AX!FoldLeftDomain(Beat, a0.mem, a0.w)
  BY DEF AX!Written, BeatWritten
<1>2. AX!FoldLeftDomain(Beat, a0.mem, a0.w) = AX!FoldLeft(Beat, a0.mem, fr)
  BY DEF AX!FoldLeftDomain
<1>3. AX!FoldLeft(Beat, a0.mem, fr)
        = AX!MapThenFoldSet(LAMBDA i, m : Beat(m, i), a0.mem, LAMBDA i : fr[i],
                            LAMBDA s : AX!Max(s), 1 .. n)
  BY DEF AX!FoldLeft
<1>4. AX!MapThenFoldSet(LAMBDA i, m : Beat(m, i), a0.mem, LAMBDA i : fr[i],
                        LAMBDA s : AX!Max(s), 1 .. n) = f[1 .. n]
  BY DEF AX!MapThenFoldSet, FoldOver
<1> QED BY <1>1, <1>2, <1>3, <1>4

LEMMA FoldDefined ==
  ASSUME NEW m, NEW req, NEW w, NEW fr, NEW n \in Nat
  PROVE  \E f : f = FoldOver(f, m, req, w, fr, n)
<1> DEFINE T == {k \in Nat : \E f : f = FoldOver(f, m, req, w, fr, k)}
<1>1. 0 \in T
  <2> DEFINE f == [s \in SUBSET (1 .. 0) |-> m]
  <2>1. \A s \in SUBSET (1 .. 0) : s = {}
    OBVIOUS
  <2>2. f = FoldOver(f, m, req, w, fr, 0)
    BY <2>1 DEF FoldOver
  <2> QED BY <2>2
<1>2. ASSUME NEW k \in T PROVE k + 1 \in T
  <2>1. PICK f : f = FoldOver(f, m, req, w, fr, k)
    OBVIOUS
  <2> DEFINE g == [s \in SUBSET (1 .. k + 1) |->
                     IF k + 1 \in s THEN BeatWritten(f[s \ {k + 1}], req, fr[k + 1], w[fr[k + 1]]) ELSE f[s]]
             r(s) == IF s = {} THEN m
                     ELSE BeatWritten(g[s \ {AX!Max(s)}], req, fr[AX!Max(s)], w[fr[AX!Max(s)]])
  <2>2. \A s \in SUBSET (1 .. k) : g[s] = f[s]
    OBVIOUS
  <2>3. ASSUME NEW s \in SUBSET (1 .. k + 1) PROVE g[s] = r(s)
    <3>1. CASE k + 1 \in s
      <4>1. AX!Max(s) = k + 1 /\ s # {}
        BY <3>1, LargestOf
      <4>2. s \ {k + 1} \in SUBSET (1 .. k)
        OBVIOUS
      <4>3. g[s \ {k + 1}] = f[s \ {k + 1}]
        BY <2>2, <4>2
      <4> QED BY <3>1, <4>1, <4>3
    <3>2. CASE k + 1 \notin s
      <4>1. s \in SUBSET (1 .. k) /\ s \ {AX!Max(s)} \in SUBSET (1 .. k)
        <5>1. k \in Nat
          OBVIOUS
        <5>2. \A x \in s : x \in 1 .. k
          BY <3>2, <5>1
        <5> QED BY <5>2
      <4>2. g[s] = f[s] /\ g[s \ {AX!Max(s)}] = f[s \ {AX!Max(s)}]
        BY <2>2, <4>1
      <4>3. f[s] = IF s = {} THEN m
                   ELSE BeatWritten(f[s \ {AX!Max(s)}], req, fr[AX!Max(s)], w[fr[AX!Max(s)]])
        BY <2>1, <4>1 DEF FoldOver
      <4> QED BY <4>2, <4>3
    <3> QED BY <3>1, <3>2
  <2>4. g = [s \in SUBSET (1 .. k + 1) |-> g[s]]
    OBVIOUS
  <2> HIDE DEF g
  <2>5. g = FoldOver(g, m, req, w, fr, k + 1)
    BY <2>3, <2>4 DEF FoldOver
  <2> QED BY <2>5
<1>3. T = Nat
  <2> HIDE DEF T
  <2>1. T \in SUBSET Nat
    BY DEF T
  <2> QED BY <1>1, <1>2, <2>1, NumberInduction
<1> QED BY <1>3

\* The memories between the beats, from the first to the last.
RunOf(st, m, req, w) ==
  st[0] = m /\ \A i \in 1 .. Len(w) : st[i] = BeatWritten(st[i - 1], req, i, w[i])

Beats == [data : AX!Word, strobe : AX!Strobe, last : BOOLEAN]

\* Writing is writing one beat after the other.
LEMMA WrittenRuns ==
  ASSUME NEW a0, a0.w \in Seq(Beats)
  PROVE  \E st : RunOf(st, a0.mem, a0.aw[1], a0.w) /\ AX!Written(a0) = st[Len(a0.w)]
<1> DEFINE n == Len(a0.w)
           m == a0.mem
           req == a0.aw[1]
           w == a0.w
           fr == [i \in 1 .. n |-> i]
           f == CHOOSE g : g = FoldOver(g, m, req, w, fr, n)
           st == [i \in 0 .. n |-> f[1 .. i]]
<1>1. n \in Nat /\ DOMAIN w = 1 .. n
  OBVIOUS
<1>2. f = FoldOver(f, m, req, w, fr, n)
  <2> HIDE DEF fr, m, req, w, n
  <2>1. \E g : g = FoldOver(g, m, req, w, fr, n)
    BY <1>1, FoldDefined
  <2> QED BY <2>1
<1>3. AX!Written(a0) = f[1 .. n]
  BY <1>1, WrittenFold
<1> HIDE DEF f, m, req, w
<1>4. \A s \in SUBSET (1 .. n) :
        f[s] = IF s = {} THEN m
               ELSE BeatWritten(f[s \ {AX!Max(s)}], req, fr[AX!Max(s)], w[fr[AX!Max(s)]])
  BY <1>2 DEF FoldOver
<1> HIDE DEF n
<1>5. st[0] = m
  <2>1. 1 .. 0 = {} /\ 1 .. 0 \in SUBSET (1 .. n) /\ 0 \in 0 .. n
    BY <1>1
  <2> QED BY <1>4, <2>1
<1>6. ASSUME NEW i \in 1 .. n PROVE st[i] = BeatWritten(st[i - 1], req, i, w[i])
  <2>1. i \in Nat /\ i - 1 \in Nat /\ (i - 1) + 1 = i /\ i \in 1 .. i
    <3>1. i \in Nat /\ i >= 1
      BY <1>1
    <3> QED BY <3>1
  <2>2. AX!Max(1 .. i) = i
    <3>1. 1 .. i \in SUBSET (1 .. (i - 1) + 1) /\ (i - 1) + 1 \in 1 .. i
      BY <2>1
    <3> QED BY <2>1, <3>1, LargestOf
  <2>3. (1 .. i) \ {i} = 1 .. (i - 1) /\ 1 .. i \in SUBSET (1 .. n)
    BY <1>1, <2>1
  <2>4. st[i] = f[1 .. i] /\ st[i - 1] = f[1 .. (i - 1)]
    BY <1>1
  <2>5. fr[i] = i
    OBVIOUS
  <2> HIDE DEF st, fr
  <2>6. f[1 .. i] = BeatWritten(f[(1 .. i) \ {AX!Max(1 .. i)}], req, fr[AX!Max(1 .. i)], w[fr[AX!Max(1 .. i)]])
    BY <1>4, <2>1, <2>3
  <2> QED BY <2>2, <2>3, <2>4, <2>5, <2>6
<1>7. st[n] = f[1 .. n]
  BY <1>1
<1> QED BY <1>3, <1>5, <1>6, <1>7 DEF RunOf, n, m, req, w

\* There is one run only.
LEMMA RunIsOne ==
  ASSUME NEW w \in Seq(Beats), NEW m, NEW req, NEW st, NEW su,
         RunOf(st, m, req, w), RunOf(su, m, req, w)
  PROVE  st[Len(w)] = su[Len(w)]
<1> DEFINE T == {i \in Nat : i <= Len(w) => st[i] = su[i]}
<1>1. 0 \in T
  BY DEF RunOf
<1>2. ASSUME NEW i \in T PROVE i + 1 \in T
  <2> SUFFICES ASSUME i + 1 <= Len(w) PROVE st[i + 1] = su[i + 1]
    OBVIOUS
  <2>1. i \in Nat /\ Len(w) \in Nat /\ i + 1 \in 1 .. Len(w) /\ (i + 1) - 1 = i
    OBVIOUS
  <2>2. st[i] = su[i]
    BY <2>1
  <2>3. /\ st[i + 1] = BeatWritten(st[(i + 1) - 1], req, i + 1, w[i + 1])
        /\ su[i + 1] = BeatWritten(su[(i + 1) - 1], req, i + 1, w[i + 1])
    BY <2>1 DEF RunOf
  <2> QED BY <2>1, <2>2, <2>3
<1>3. T = Nat
  <2> HIDE DEF T
  <2>1. T \in SUBSET Nat
    BY DEF T
  <2> QED BY <1>1, <1>2, <2>1, NumberInduction
<1>4. Len(w) \in Nat /\ Len(w) <= Len(w)
  OBVIOUS
<1> QED BY <1>3, <1>4

\* Without data nothing is written.
LEMMA WrittenNone ==
  ASSUME NEW a0, a0.w = <<>>
  PROVE  AX!Written(a0) = a0.mem
<1>1. <<>> \in Seq(Beats) /\ Len(<<>>) = 0
  OBVIOUS
<1>2. PICK st : RunOf(st, a0.mem, a0.aw[1], a0.w) /\ AX!Written(a0) = st[Len(a0.w)]
  BY <1>1, WrittenRuns
<1> QED BY <1>1, <1>2 DEF RunOf

\* What is written depends on the memory, the request and the data alone.
LEMMA WrittenSame ==
  ASSUME NEW a0, NEW a1, a0.w \in Seq(Beats),
         a1.mem = a0.mem, a1.aw[1] = a0.aw[1], a1.w = a0.w
  PROVE  AX!Written(a1) = AX!Written(a0)
<1>1. PICK st : RunOf(st, a0.mem, a0.aw[1], a0.w) /\ AX!Written(a0) = st[Len(a0.w)]
  BY WrittenRuns
<1>2. a1.w \in Seq(Beats)
  OBVIOUS
<1>3. PICK su : RunOf(su, a1.mem, a1.aw[1], a1.w) /\ AX!Written(a1) = su[Len(a1.w)]
  BY <1>2, WrittenRuns
<1>4. RunOf(su, a0.mem, a0.aw[1], a0.w)
  BY <1>3
<1>5. st[Len(a0.w)] = su[Len(a0.w)]
  BY <1>1, <1>4, RunIsOne
<1> QED BY <1>1, <1>3, <1>5

\* The last beat is written last.
LEMMA WrittenOne ==
  ASSUME NEW a0, NEW a1, NEW x \in Beats, a0.w \in Seq(Beats),
         a1.mem = a0.mem, a1.aw[1] = a0.aw[1], a1.w = Append(a0.w, x)
  PROVE  AX!Written(a1) = BeatWritten(AX!Written(a0), a0.aw[1], Len(a0.w) + 1, x)
<1> DEFINE w == a0.w
           more == a1.w
<1>1. /\ w \in Seq(Beats) /\ more \in Seq(Beats) /\ Len(w) \in Nat /\ Len(more) = Len(w) + 1
      /\ more[Len(more)] = x /\ \A i \in 1 .. Len(w) : more[i] = w[i]
  OBVIOUS
<1>2. PICK st : RunOf(st, a1.mem, a1.aw[1], more) /\ AX!Written(a1) = st[Len(more)]
  BY <1>1, WrittenRuns
<1>3. PICK su : RunOf(su, a0.mem, a0.aw[1], w) /\ AX!Written(a0) = su[Len(w)]
  BY WrittenRuns
<1> HIDE DEF w, more
<1>4. RunOf(st, a0.mem, a0.aw[1], w)
  BY <1>1, <1>2 DEF RunOf
<1>5. st[Len(w)] = su[Len(w)]
  BY <1>1, <1>3, <1>4, RunIsOne
<1>6. st[Len(more)] = BeatWritten(st[Len(more) - 1], a0.aw[1], Len(more), more[Len(more)])
  BY <1>1, <1>2 DEF RunOf
<1>7. Len(more) - 1 = Len(w)
  BY <1>1
<1>8. AX!Written(a1) = BeatWritten(AX!Written(a0), a0.aw[1], Len(w) + 1, x)
  BY <1>1, <1>2, <1>3, <1>5, <1>6, <1>7
<1> QED BY <1>8 DEF w

-----------------------------------------------------------------------------
(* The bridge                                                              *)

AxiFields == {"mem", "ar", "r", "aw", "w", "done"}
AxiRecord(a0) == a0 = [x \in AxiFields |-> a0[x]]

\* The channels that are out, and what the memory has of the transaction: a read
\* that has its address is being made; a write that has its address waits for
\* its data, one that has its data waits for its address, and one that has both
\* is made and waits for its response.
BridgeInv ==
  /\ creq \in AX!CReq /\ saved_req \in AX!CReq /\ count \in Int
  /\ in_issue \subseteq (IF saved_req.is_write THEN {"AW", "W", "B"} ELSE {"AR", "R"})
  /\ "AR" \in in_issue => "R" \in in_issue
  /\ "AW" \in in_issue \/ "W" \in in_issue => "B" \in in_issue
  /\ AX!InData => count \in 0 .. saved_req.len - 1
  /\ sig \in AX!Possible(axi)
  /\ AxiRecord(axi)
  /\ axi.w \in Seq(Beats)
  /\ axi.ar = IF "R" \in in_issue /\ "AR" \notin in_issue THEN <<saved_req>> ELSE <<>>
  /\ axi.r = IF "R" \in in_issue THEN saved_req.len - 1 - count ELSE 0
  /\ axi.aw = IF "W" \in in_issue /\ "AW" \notin in_issue THEN <<saved_req>> ELSE <<>>
  /\ IF "W" \in in_issue
     THEN Len(axi.w) = saved_req.len - 1 - count
          /\ (axi.w # <<>> => axi.w[Len(axi.w)].last = FALSE)
     ELSE IF "AW" \in in_issue THEN axi.w # <<>> /\ axi.w[Len(axi.w)].last = TRUE
     ELSE axi.w = <<>>
  /\ axi.done = ("B" \in in_issue /\ "W" \notin in_issue /\ "AW" \notin in_issue)

LEMMA BridgeInit == AX!Init => BridgeInv
<1> HAVE AX!Init
<1>1. /\ Tag0 \in Tag /\ Byte0 \in Byte /\ SetNum \in Nat \ {0} /\ WordsPerLine \in Nat \ {0}
      /\ IOTag \subseteq Tag
  BY SuiteAssumption DEF AX!BridgeAssumption, AX!SizeAssumption, AX!TagAssumption, AX!ByteAssumption
<1>2. AX!Addr0 \in AX!Addr
  BY <1>1 DEF AX!Addr0, AX!Addr, AX!Index, AX!Offset
<1>3. AX!Word0 \in AX!Word
  BY <1>1 DEF AX!Word0, AX!Word
<1>4. {} \in AX!Strobe
  BY DEF AX!Strobe
<1>5. creq \in AX!CReq /\ saved_req \in AX!CReq
  BY <1>1, <1>2, <1>3, <1>4 DEF AX!Init, AX!CReq
<1>6. <<>> \in Seq(Beats) /\ Len(<<>>) = 0
  OBVIOUS
<1>7. /\ in_issue = {} /\ count = 0 /\ sig \in AX!Possible(axi)
      /\ axi = [mem |-> InitMem, ar |-> <<>>, r |-> 0, aw |-> <<>>, w |-> <<>>, done |-> FALSE]
  BY DEF AX!Init
<1>8. ~AX!InData
  BY <1>7 DEF AX!InData
<1>9. /\ axi.mem = InitMem /\ axi.ar = <<>> /\ axi.r = 0 /\ axi.aw = <<>> /\ axi.w = <<>>
      /\ axi.done = FALSE
  BY <1>7
<1>10. axi.done = ("B" \in in_issue /\ "W" \notin in_issue /\ "AW" \notin in_issue)
  BY <1>7, <1>9
<1>11. AxiRecord(axi)
  BY <1>7 DEF AxiRecord, AxiFields
<1>12. axi.w \in Seq(Beats)
  BY <1>6, <1>9
<1>13. in_issue = {} /\ count = 0 /\ sig \in AX!Possible(axi)
  BY <1>7
<1> QED BY <1>5, <1>8, <1>9, <1>10, <1>11, <1>12, <1>13 DEF BridgeInv

\* The handshakes of a cycle.
LEMMA Handshakes ==
  ASSUME BridgeInv
  PROVE  /\ AX!handshake \subseteq in_issue
         /\ "R" \in AX!handshake => axi.ar = <<saved_req>> /\ "AR" \notin in_issue
         /\ "B" \in AX!handshake => axi.done
<1>1. sig \in AX!Signals /\ (sig.rvalid => axi.ar # <<>>) /\ (sig.bvalid => axi.done)
  BY DEF BridgeInv, AX!Possible
<1>2. AX!handshake \subseteq in_issue
  BY DEF AX!handshake
<1>3. "R" \in AX!handshake => sig.rvalid
  BY DEF AX!handshake
<1>4. "B" \in AX!handshake => sig.bvalid
  BY DEF AX!handshake
<1>5. "R" \in AX!handshake => axi.ar # <<>> /\ "R" \in in_issue
  BY <1>1, <1>2, <1>3
<1> QED BY <1>1, <1>2, <1>4, <1>5 DEF BridgeInv

\* The last beat of a read is the last one the bridge counts.
LEMMA LastOfRead ==
  ASSUME BridgeInv, "R" \in AX!handshake
  PROVE  /\ AX!rlast <=> count = 0
         /\ axi.r = saved_req.len - 1 - count /\ axi.ar[1] = saved_req /\ axi.ar # <<>>
         /\ saved_req.len \in Int /\ axi.ar[1].len = saved_req.len
<1>1. axi.ar = <<saved_req>> /\ "R" \in in_issue
  BY Handshakes
<1>2. axi.r = saved_req.len - 1 - count /\ count \in Int /\ saved_req \in AX!CReq
  BY <1>1 DEF BridgeInv
<1>3. saved_req.len \in Int
  BY <1>2, SuiteAssumption DEF AX!CReq, AX!BridgeAssumption, AX!SizeAssumption
<1>4. axi.ar[1] = saved_req /\ axi.ar # <<>>
  BY <1>1
<1> QED BY <1>2, <1>3, <1>4 DEF AX!rlast

\* What the master is told.
LEMMA Told ==
  ASSUME BridgeInv
  PROVE  /\ AX!cresp.ready = ("R" \in AX!handshake \/ "W" \in AX!handshake)
         /\ AX!cresp.last = (AX!cresp.ready /\ count = 0)
         /\ AX!cresp.data = IF "R" \in AX!handshake THEN AX!rdata ELSE AX!Word0
         /\ AX!cresp = [ready |-> AX!cresp.ready, last |-> AX!cresp.last, data |-> AX!cresp.data]
<1>1. "R" \in in_issue => "W" \notin in_issue
  BY DEF BridgeInv
<1>2. "W" \in AX!handshake => "R" \notin in_issue
  BY <1>1, Handshakes
<1>3. (AX!handshake \cap {"W", "R"} # {}) <=> ("R" \in AX!handshake \/ "W" \in AX!handshake)
  OBVIOUS
<1>4. AX!is_last <=> count = 0
  BY DEF AX!is_last
<1>5. "R" \in AX!handshake => (AX!rlast <=> count = 0)
  BY LastOfRead
<1> QED BY <1>2, <1>3, <1>4, <1>5 DEF AX!cresp

\* The cycle of the memory, field by field.
Taken ==
  [axi EXCEPT
     !.ar = IF "AR" \in AX!handshake THEN <<saved_req>> ELSE
            IF "R" \in AX!handshake /\ axi.r + 1 = axi.ar[1].len THEN <<>> ELSE @,
     !.r  = IF "R" \in AX!handshake
            THEN IF axi.r + 1 = axi.ar[1].len THEN 0 ELSE @ + 1 ELSE @,
     !.aw = IF "AW" \in AX!handshake THEN <<saved_req>> ELSE @,
     !.w  = IF "W" \in AX!handshake
            THEN Append(@, [data |-> creq.data, strobe |-> creq.strobe, last |-> AX!is_last])
            ELSE @,
     !.done = IF "B" \in AX!handshake THEN FALSE ELSE @]

LEMMA MemoryCycle ==
  ASSUME BridgeInv, AX!Tick
  PROVE  axi' = IF AX!Complete(Taken)
                THEN [Taken EXCEPT !.mem = AX!Written(Taken), !.aw = <<>>, !.w = <<>>, !.done = TRUE]
                ELSE Taken
  BY DEF AX!Tick, AX!AxiCycle, Taken

LEMMA TakenFields ==
  ASSUME BridgeInv
  PROVE  /\ AxiRecord(Taken)
         /\ Taken.mem = axi.mem
         /\ Taken.ar = IF "AR" \in AX!handshake THEN <<saved_req>> ELSE
                       IF "R" \in AX!handshake /\ axi.r + 1 = axi.ar[1].len THEN <<>> ELSE axi.ar
         /\ Taken.r = IF "R" \in AX!handshake
                      THEN IF axi.r + 1 = axi.ar[1].len THEN 0 ELSE axi.r + 1 ELSE axi.r
         /\ Taken.aw = IF "AW" \in AX!handshake THEN <<saved_req>> ELSE axi.aw
         /\ Taken.w = IF "W" \in AX!handshake
                      THEN Append(axi.w, [data |-> creq.data, strobe |-> creq.strobe,
                                          last |-> AX!is_last])
                      ELSE axi.w
         /\ Taken.done = IF "B" \in AX!handshake THEN FALSE ELSE axi.done
<1>1. AxiRecord(axi)
  BY DEF BridgeInv
<1> DEFINE ar == IF "AR" \in AX!handshake THEN <<saved_req>> ELSE
                 IF "R" \in AX!handshake /\ axi.r + 1 = axi.ar[1].len THEN <<>> ELSE axi.ar
           r == IF "R" \in AX!handshake
                THEN IF axi.r + 1 = axi.ar[1].len THEN 0 ELSE axi.r + 1 ELSE axi.r
           aw == IF "AW" \in AX!handshake THEN <<saved_req>> ELSE axi.aw
           w == IF "W" \in AX!handshake
                THEN Append(axi.w, [data |-> creq.data, strobe |-> creq.strobe,
                                    last |-> AX!is_last])
                ELSE axi.w
           isDone == IF "B" \in AX!handshake THEN FALSE ELSE axi.done
<1>2. Taken = [axi EXCEPT !.ar = ar, !.r = r, !.aw = aw, !.w = w, !.done = isDone]
  BY DEF Taken
<1> HIDE DEF ar, r, aw, w, isDone
<1>3. /\ AxiRecord(Taken) /\ Taken.mem = axi.mem
      /\ Taken.ar = ar /\ Taken.r = r /\ Taken.aw = aw /\ Taken.w = w /\ Taken.done = isDone
  BY <1>1, <1>2 DEF AxiRecord, AxiFields
<1> QED BY <1>3 DEF ar, r, aw, w, isDone

\* A request is issued, on all its channels.
LEMMA IdleStep ==
  ASSUME BridgeInv, AX!Tick, in_issue = {}
  PROVE  /\ axi' = axi /\ saved_req' = creq /\ count' = creq.len - 1
         /\ in_issue' = IF creq.valid THEN AX!next_issue ELSE {}
         /\ AX!handshake = {}
<1>1. AX!handshake = {}
  BY Handshakes
<1>2. Taken.aw = <<>>
  BY <1>1, TakenFields DEF BridgeInv
<1>3. axi' = Taken
  BY <1>2, MemoryCycle DEF AX!Complete
<1>4. Taken = axi
  <2>1. AxiRecord(axi) /\ AxiRecord(Taken)
    BY TakenFields DEF BridgeInv
  <2>2. /\ Taken.mem = axi.mem /\ Taken.ar = axi.ar /\ Taken.r = axi.r
        /\ Taken.aw = axi.aw /\ Taken.w = axi.w /\ Taken.done = axi.done
    BY <1>1, TakenFields
  <2>3. \A x \in AxiFields : Taken[x] = axi[x]
    BY <2>2 DEF AxiFields
  <2> QED BY <2>1, <2>3 DEF AxiRecord
<1> QED BY <1>1, <1>3, <1>4 DEF AX!Tick, AX!Bridge, AX!busy

\* What ends in a cycle, and the beats that are left.
LEMMA BusyStep ==
  ASSUME BridgeInv, AX!Tick, in_issue # {}
  PROVE  /\ saved_req' = saved_req
         /\ count' = IF ("R" \in AX!handshake \/ "W" \in AX!handshake) /\ count # 0
                     THEN count - 1 ELSE count
         /\ in_issue' =
              {ch \in in_issue : ~(ch \in AX!handshake /\ (ch \in {"R", "W"} => count = 0))}
<1>1. /\ saved_req' = saved_req /\ in_issue' = in_issue \ AX!ended
      /\ count' = IF AX!cresp.ready /\ ~AX!cresp.last THEN count - 1 ELSE count
  BY DEF AX!Tick, AX!Bridge, AX!busy
<1>2. "R" \in AX!handshake => (AX!rlast <=> count = 0)
  BY LastOfRead
<1>3. AX!ended = {ch \in AX!handshake : ch \in {"R", "W"} => count = 0}
  BY <1>2 DEF AX!ended, AX!is_last
<1> QED BY <1>1, <1>3, Told

\* A read.
LEMMA ReadStep ==
  ASSUME BridgeInv, AX!Tick, "R" \in in_issue
  PROVE  /\ axi' = Taken /\ "W" \notin AX!handshake /\ saved_req.is_write = FALSE
         /\ AxiRecord(axi') /\ axi'.mem = axi.mem
         /\ axi'.aw = <<>> /\ axi'.w = <<>> /\ axi'.done = FALSE
         /\ axi.w = <<>>
         /\ axi'.ar = IF "R" \in in_issue' /\ "AR" \notin in_issue' THEN <<saved_req>> ELSE <<>>
         /\ axi'.r = IF "R" \in in_issue' THEN saved_req.len - 1 - count' ELSE 0
<1>1. /\ in_issue \subseteq {"AR", "R"} /\ AX!handshake \subseteq {"AR", "R"}
      /\ saved_req.is_write = FALSE
  <2>1. saved_req.is_write \in BOOLEAN
    BY DEF BridgeInv, AX!CReq
  <2>2. in_issue \subseteq {"AR", "R"} /\ saved_req.is_write = FALSE
    BY <2>1 DEF BridgeInv
  <2> QED BY <2>2, Handshakes
<1>2. axi.aw = <<>> /\ axi.w = <<>> /\ axi.done = FALSE
  <2>1. "W" \notin in_issue /\ "AW" \notin in_issue /\ "B" \notin in_issue
    BY <1>1
  <2>2. axi.done = FALSE
    BY <2>1 DEF BridgeInv
  <2> QED BY <2>1, <2>2 DEF BridgeInv
<1>3. Taken.aw = <<>> /\ Taken.w = <<>> /\ Taken.done = FALSE /\ Taken.mem = axi.mem
      /\ AxiRecord(Taken)
  BY <1>1, <1>2, TakenFields
<1>4. axi' = Taken
  BY <1>3, MemoryCycle DEF AX!Complete
<1>5. /\ axi.ar = IF "AR" \notin in_issue THEN <<saved_req>> ELSE <<>>
      /\ axi.r = saved_req.len - 1 - count /\ count \in Int
  BY DEF BridgeInv
<1>6. saved_req.len \in Int
  BY SuiteAssumption DEF BridgeInv, AX!CReq, AX!BridgeAssumption, AX!SizeAssumption
<1>7. /\ in_issue' =
              {ch \in in_issue : ~(ch \in AX!handshake /\ (ch \in {"R", "W"} => count = 0))}
      /\ count' = IF ("R" \in AX!handshake \/ "W" \in AX!handshake) /\ count # 0
                  THEN count - 1 ELSE count
  BY BusyStep
<1>8. CASE "R" \in AX!handshake
  <2>1. /\ axi.ar = <<saved_req>> /\ "AR" \notin in_issue /\ "AR" \notin AX!handshake
        /\ axi.ar[1].len = saved_req.len
    BY <1>8, Handshakes, LastOfRead
  <2>2. (axi.r + 1 = axi.ar[1].len) <=> count = 0
    BY <1>5, <1>6, <2>1
  <2>3. CASE count = 0
    <3>1. Taken.ar = <<>> /\ Taken.r = 0
      BY <1>8, <2>1, <2>2, <2>3, TakenFields
    <3>2. "R" \notin in_issue'
      BY <1>7, <1>8, <2>3
    <3> QED BY <1>1, <1>2, <1>3, <1>4, <3>1, <3>2
  <2>4. CASE count # 0
    <3>1. Taken.ar = <<saved_req>> /\ Taken.r = axi.r + 1
      BY <1>8, <2>1, <2>2, <2>4, TakenFields
    <3>2. "R" \in in_issue' /\ "AR" \notin in_issue' /\ count' = count - 1
      BY <1>7, <1>8, <2>1, <2>4
    <3>3. axi.r + 1 = saved_req.len - 1 - (count - 1)
      BY <1>5, <1>6
    <3>4. axi'.ar = <<saved_req>> /\ axi'.r = saved_req.len - 1 - count'
      BY <1>4, <3>1, <3>2, <3>3
    <3> QED BY <1>1, <1>2, <1>3, <1>4, <3>2, <3>4
  <2> QED BY <2>3, <2>4
<1>9. CASE "R" \notin AX!handshake
  <2>1. "R" \in in_issue' /\ count' = count /\ "W" \notin AX!handshake
    BY <1>1, <1>7, <1>9
  <2>2. Taken.r = axi.r
    BY <1>9, TakenFields
  <2>3. Taken.ar = IF "AR" \in AX!handshake THEN <<saved_req>> ELSE axi.ar
    BY <1>9, TakenFields
  <2>4. "AR" \in in_issue' <=> "AR" \in in_issue /\ "AR" \notin AX!handshake
    BY <1>7
  <2>5. Taken.ar = IF "AR" \notin in_issue' THEN <<saved_req>> ELSE <<>>
    BY <1>5, <2>3, <2>4, Handshakes
  <2>6. axi'.ar = (IF "R" \in in_issue' /\ "AR" \notin in_issue' THEN <<saved_req>> ELSE <<>>)
    BY <1>4, <2>1, <2>5
  <2>7. axi'.r = IF "R" \in in_issue' THEN saved_req.len - 1 - count' ELSE 0
    BY <1>4, <1>5, <2>1, <2>2
  <2> QED BY <1>1, <1>2, <1>3, <1>4, <2>1, <2>6, <2>7
<1> QED BY <1>8, <1>9

-----------------------------------------------------------------------------
(* The memory a master sees                                                *)

\* The beat of data in this cycle.
Beat == [data |-> creq.data, strobe |-> creq.strobe, last |-> AX!is_last]

LEMMA BeatType ==
  ASSUME BridgeInv
  PROVE  Beat \in Beats /\ Beat.data = creq.data /\ Beat.strobe = creq.strobe
<1>1. creq.data \in AX!Word /\ creq.strobe \in AX!Strobe
  BY DEF BridgeInv, AX!CReq
<1>2. AX!is_last \in BOOLEAN
  BY DEF AX!is_last
<1> QED BY <1>1, <1>2 DEF Beat, Beats

\* An AXI memory that has the address of the running transaction.
Addressed(a0, req) == [a0 EXCEPT !.aw = <<req>>]

LEMMA AddressedFields ==
  ASSUME NEW a0, AxiRecord(a0), NEW req
  PROVE  /\ Addressed(a0, req).mem = a0.mem /\ Addressed(a0, req).w = a0.w
         /\ Addressed(a0, req).aw[1] = req
<1>1. Addressed(a0, req).aw = <<req>>
  BY DEF Addressed, AxiRecord, AxiFields
<1> QED BY <1>1 DEF Addressed, AxiRecord, AxiFields

LEMMA MemoryIs ==
  ASSUME BridgeInv
  PROVE  AX!Memory = AX!Written(Addressed(axi, saved_req))
<1>1. AxiRecord(axi)
  BY DEF BridgeInv
<1>2. CASE axi.w = <<>>
  <2>1. AX!Memory = axi.mem
    BY <1>2 DEF AX!Memory
  <2> QED BY <1>1, <1>2, <2>1, AddressedFields, WrittenNone
<1>3. CASE axi.w # <<>>
  BY <1>3 DEF AX!Memory, Addressed
<1> QED BY <1>2, <1>3

\* The data of this cycle, and no other, is added to what is being written.
LEMMA TakenMemory ==
  ASSUME BridgeInv
  PROVE  /\ Taken.w \in Seq(Beats)
         /\ AX!Written(Addressed(Taken, saved_req)) =
              IF "W" \in AX!handshake
              THEN BeatWritten(AX!Memory, saved_req, Len(axi.w) + 1, Beat)
              ELSE AX!Memory
<1>1. /\ AxiRecord(axi) /\ AxiRecord(Taken) /\ Taken.mem = axi.mem /\ axi.w \in Seq(Beats)
      /\ Taken.w = IF "W" \in AX!handshake THEN Append(axi.w, Beat) ELSE axi.w
  BY TakenFields DEF BridgeInv, Beat
<1> DEFINE a0 == Addressed(axi, saved_req)
           a1 == Addressed(Taken, saved_req)
<1>2. /\ a0.mem = axi.mem /\ a0.w = axi.w /\ a0.aw[1] = saved_req
      /\ a1.mem = axi.mem /\ a1.w = Taken.w /\ a1.aw[1] = saved_req
  BY <1>1, AddressedFields
<1>3. AX!Memory = AX!Written(a0)
  BY MemoryIs
<1> HIDE DEF a0, a1
<1>4. CASE "W" \in AX!handshake
  <2>1. Taken.w = Append(axi.w, Beat) /\ Beat \in Beats
    BY <1>1, <1>4, BeatType
  <2>2. Taken.w \in Seq(Beats)
    BY <1>1, <2>1
  <2>3. AX!Written(a1) = BeatWritten(AX!Written(a0), a0.aw[1], Len(a0.w) + 1, Beat)
    BY <1>1, <1>2, <2>1, WrittenOne
  <2> QED BY <1>2, <1>3, <1>4, <2>2, <2>3 DEF a1
<1>5. CASE "W" \notin AX!handshake
  <2>1. a1.mem = a0.mem /\ a1.aw[1] = a0.aw[1] /\ a1.w = a0.w /\ a0.w \in Seq(Beats)
    BY <1>1, <1>2, <1>5
  <2>2. AX!Written(a1) = AX!Written(a0)
    BY <2>1, WrittenSame
  <2> QED BY <1>1, <1>3, <1>5, <2>2 DEF a1
<1> QED BY <1>4, <1>5

\* Completing a write moves it into the memory and changes nothing a master sees.
LEMMA MemoryStep ==
  ASSUME BridgeInv, AX!Tick, in_issue # {}
  PROVE  /\ AxiRecord(axi')
         /\ AX!Memory' = IF "W" \in AX!handshake
                         THEN BeatWritten(AX!Memory, saved_req, Len(axi.w) + 1, Beat)
                         ELSE AX!Memory
<1>1. saved_req' = saved_req
  BY BusyStep
<1>2. /\ AxiRecord(Taken) /\ Taken.w \in Seq(Beats)
      /\ Taken.aw = <<>> \/ Taken.aw = <<saved_req>>
  BY TakenFields, TakenMemory DEF BridgeInv
<1> DEFINE a1 == Addressed(Taken, saved_req)
<1>3. a1.mem = Taken.mem /\ a1.w = Taken.w /\ a1.aw[1] = saved_req
  BY <1>2, AddressedFields
<1>4. AxiRecord(axi') /\ AX!Memory' = AX!Written(a1)
  <2>1. AX!Memory' = IF axi'.w = <<>> THEN axi'.mem ELSE AX!Written(Addressed(axi', saved_req'))
    BY DEF AX!Memory, Addressed
  <2>2. CASE AX!Complete(Taken)
    <3>1. axi' = [Taken EXCEPT !.mem = AX!Written(Taken), !.aw = <<>>, !.w = <<>>, !.done = TRUE]
      BY <2>2, MemoryCycle
    <3>2. AxiRecord(axi') /\ axi'.mem = AX!Written(Taken) /\ axi'.w = <<>>
      BY <1>2, <3>1 DEF AxiRecord, AxiFields
    <3>3. Taken.aw[1] = saved_req
      <4>1. Taken.aw = <<saved_req>>
        BY <1>2, <2>2 DEF AX!Complete
      <4> QED BY <4>1
    <3> HIDE DEF a1
    <3>4. AX!Written(a1) = AX!Written(Taken)
      BY <1>2, <1>3, <3>3, WrittenSame
    <3> QED BY <2>1, <3>2, <3>4
  <2>3. CASE ~AX!Complete(Taken)
    <3>1. axi' = Taken
      BY <2>3, MemoryCycle
    <3>2. CASE Taken.w = <<>>
      <4>1. AX!Memory' = Taken.mem
        BY <2>1, <3>1, <3>2
      <4> HIDE DEF a1
      <4>2. AX!Written(a1) = a1.mem
        BY <1>3, <3>2, WrittenNone
      <4> QED BY <1>2, <1>3, <3>1, <4>1, <4>2
    <3>3. CASE Taken.w # <<>>
      BY <1>1, <1>2, <2>1, <3>1, <3>3
    <3> QED BY <3>2, <3>3
  <2> QED BY <2>2, <2>3
<1> QED BY <1>4, TakenMemory

\* A write: what the memory has collected of it.
LEMMA WriteStep ==
  ASSUME BridgeInv, AX!Tick, "B" \in in_issue
  PROVE  /\ saved_req.is_write = TRUE /\ "R" \notin in_issue /\ "AR" \notin in_issue
         /\ axi'.ar = <<>> /\ axi'.r = 0
         /\ axi'.w \in Seq(Beats)
         /\ axi'.aw = IF "W" \in in_issue' /\ "AW" \notin in_issue' THEN <<saved_req>> ELSE <<>>
         /\ "AW" \in in_issue' \/ "W" \in in_issue' => "B" \in in_issue'
         /\ IF "W" \in in_issue'
            THEN Len(axi'.w) = saved_req.len - 1 - count'
                 /\ (axi'.w # <<>> => axi'.w[Len(axi'.w)].last = FALSE)
            ELSE IF "AW" \in in_issue' THEN axi'.w # <<>> /\ axi'.w[Len(axi'.w)].last = TRUE
            ELSE axi'.w = <<>>
         /\ axi'.done = ("B" \in in_issue' /\ "W" \notin in_issue' /\ "AW" \notin in_issue')
<1>1. /\ in_issue \subseteq {"AW", "W", "B"} /\ saved_req.is_write = TRUE
      /\ "R" \notin AX!handshake /\ "AR" \notin AX!handshake
  <2>1. saved_req.is_write \in BOOLEAN
    BY DEF BridgeInv, AX!CReq
  <2>2. in_issue \subseteq {"AW", "W", "B"} /\ saved_req.is_write = TRUE
    BY <2>1 DEF BridgeInv
  <2> QED BY <2>2, Handshakes
<1>2. /\ in_issue' =
              {ch \in in_issue : ~(ch \in AX!handshake /\ (ch \in {"R", "W"} => count = 0))}
      /\ count' = IF ("R" \in AX!handshake \/ "W" \in AX!handshake) /\ count # 0
                  THEN count - 1 ELSE count
  BY BusyStep
<1>3. /\ "AW" \in in_issue' <=> "AW" \in in_issue /\ "AW" \notin AX!handshake
      /\ "W" \in in_issue' <=> "W" \in in_issue /\ ~("W" \in AX!handshake /\ count = 0)
      /\ "B" \in in_issue' <=> "B" \notin AX!handshake
  BY <1>2
<1>4. axi.ar = <<>> /\ axi.r = 0 /\ axi.w \in Seq(Beats) /\ count \in Int
  BY <1>1 DEF BridgeInv
<1>5. /\ Taken.ar = <<>> /\ Taken.r = 0 /\ Taken.w \in Seq(Beats) /\ AxiRecord(Taken)
      /\ Taken.aw = IF "AW" \in AX!handshake THEN <<saved_req>> ELSE axi.aw
      /\ Taken.w = IF "W" \in AX!handshake THEN Append(axi.w, Beat) ELSE axi.w
      /\ Taken.done = IF "B" \in AX!handshake THEN FALSE ELSE axi.done
  BY <1>1, <1>4, TakenFields, TakenMemory DEF Beat
<1>6. axi.aw = IF "W" \in in_issue /\ "AW" \notin in_issue THEN <<saved_req>> ELSE <<>>
  BY DEF BridgeInv
<1>7. axi.done <=> ("W" \notin in_issue /\ "AW" \notin in_issue)
  BY DEF BridgeInv
<1>8. "B" \in AX!handshake => "W" \notin in_issue /\ "AW" \notin in_issue
  BY <1>7, Handshakes
<1>9. AX!handshake \subseteq in_issue
  BY Handshakes
<1>10. saved_req.len \in Int
  BY SuiteAssumption DEF BridgeInv, AX!CReq, AX!BridgeAssumption, AX!SizeAssumption
\* The last beat of the data.
<1>11. "W" \in AX!handshake =>
         /\ Taken.w # <<>> /\ Len(Taken.w) = Len(axi.w) + 1
         /\ Taken.w[Len(Taken.w)].last = AX!is_last
  <2>1. Beat \in Beats /\ Beat.last = AX!is_last
    BY BeatType DEF Beat
  <2>2. Append(axi.w, Beat) # <<>> /\ Len(Append(axi.w, Beat)) = Len(axi.w) + 1
        /\ Append(axi.w, Beat)[Len(axi.w) + 1] = Beat
    BY <1>4, <2>1
  <2> QED BY <1>5, <2>1, <2>2
<1>12. AX!is_last \in BOOLEAN /\ (AX!is_last <=> count = 0)
  BY DEF AX!is_last
<1>13. CASE AX!Complete(Taken)
  <2>1. axi' = [Taken EXCEPT !.mem = AX!Written(Taken), !.aw = <<>>, !.w = <<>>, !.done = TRUE]
    BY <1>13, MemoryCycle
  <2>2. axi'.ar = <<>> /\ axi'.r = 0 /\ axi'.w = <<>> /\ axi'.aw = <<>> /\ axi'.done = TRUE
    BY <1>5, <2>1 DEF AxiRecord, AxiFields
  <2>3. Taken.aw # <<>> /\ Taken.w # <<>> /\ Taken.w[Len(Taken.w)].last
    BY <1>13 DEF AX!Complete, AX!Last
  <2>4. "AW" \notin in_issue' /\ "W" \notin in_issue' /\ "B" \in in_issue'
    <3>1. "AW" \notin in_issue'
      BY <1>3, <1>5, <1>6, <2>3
    <3>2. CASE "W" \in AX!handshake
      <4>1. count = 0
        BY <1>11, <1>12, <2>3, <3>2
      <4> QED BY <1>3, <1>8, <1>9, <3>1, <3>2, <4>1
    <3>3. CASE "W" \notin AX!handshake
      <4>1. Taken.w = axi.w
        BY <1>5, <3>3
      <4>2. "W" \notin in_issue
        BY <2>3, <4>1 DEF BridgeInv
      <4>3. "AW" \in in_issue
        BY <2>3, <4>1, <4>2 DEF BridgeInv
      <4> QED BY <1>3, <1>8, <3>1, <4>2, <4>3
    <3> QED BY <3>2, <3>3
  <2>5. <<>> \in Seq(Beats)
    OBVIOUS
  <2> QED BY <1>1, <2>2, <2>4, <2>5
<1>14. CASE ~AX!Complete(Taken)
  <2>1. axi' = Taken
    BY <1>14, MemoryCycle
  <2>2. ~(Taken.aw # <<>> /\ Taken.w # <<>> /\ Taken.w[Len(Taken.w)].last)
    BY <1>14 DEF AX!Complete, AX!Last
  <2>3. CASE "W" \in in_issue'
    <3>1. "W" \in in_issue /\ ("W" \in AX!handshake => count # 0) /\ "B" \notin AX!handshake
      BY <1>3, <1>8, <2>3
    <3>2. Taken.aw = IF "AW" \notin in_issue' THEN <<saved_req>> ELSE <<>>
      BY <1>3, <1>5, <1>6, <1>9, <3>1
    <3>3. Len(axi.w) = saved_req.len - 1 - count /\ (axi.w # <<>> => axi.w[Len(axi.w)].last = FALSE)
      BY <3>1 DEF BridgeInv
    <3>4. /\ Len(Taken.w) = saved_req.len - 1 - count'
          /\ Taken.w # <<>> => Taken.w[Len(Taken.w)].last = FALSE
      <4>1. CASE "W" \in AX!handshake
        <5>1. count' = count - 1 /\ AX!is_last = FALSE
          BY <1>2, <1>12, <3>1, <4>1
        <5>2. Len(Taken.w) = Len(axi.w) + 1 /\ Taken.w[Len(Taken.w)].last = FALSE
          BY <1>11, <4>1, <5>1
        <5> QED BY <1>4, <1>10, <3>3, <5>1, <5>2
      <4>2. CASE "W" \notin AX!handshake
        BY <1>1, <1>2, <1>5, <3>3, <4>2
      <4> QED BY <4>1, <4>2
    <3>5. Taken.done = FALSE /\ "B" \in in_issue'
      <4>1. axi.done = FALSE
        BY <3>1 DEF BridgeInv
      <4> QED BY <1>3, <1>5, <3>1, <4>1
    <3> QED BY <1>1, <1>5, <2>1, <2>3, <3>2, <3>4, <3>5
  <2>4. CASE "W" \notin in_issue' /\ "AW" \in in_issue'
    <3>1. "AW" \in in_issue /\ "AW" \notin AX!handshake /\ "B" \notin AX!handshake
      BY <1>3, <1>8, <2>4
    <3>2. Taken.aw = <<>>
      BY <1>5, <1>6, <3>1
    <3>3. Taken.done = FALSE /\ "B" \in in_issue'
      <4>1. axi.done = FALSE
        BY <3>1 DEF BridgeInv
      <4> QED BY <1>3, <1>5, <3>1, <4>1
    <3>4. Taken.w # <<>> /\ Taken.w[Len(Taken.w)].last = TRUE
      <4>1. CASE "W" \in in_issue
        <5>1. "W" \in AX!handshake /\ count = 0
          BY <1>3, <2>4, <4>1
        <5> QED BY <1>11, <1>12, <5>1
      <4>2. CASE "W" \notin in_issue
        <5>1. axi.w # <<>> /\ axi.w[Len(axi.w)].last = TRUE
          BY <3>1, <4>2 DEF BridgeInv
        <5> QED BY <1>5, <1>9, <4>2, <5>1
      <4> QED BY <4>1, <4>2
    <3> QED BY <1>1, <1>5, <2>1, <2>4, <3>2, <3>3, <3>4
  <2>5. CASE "W" \notin in_issue' /\ "AW" \notin in_issue'
    <3>1. CASE "W" \in in_issue \/ "AW" \in in_issue
      <4>1. Taken.aw # <<>>
        <5>1. CASE "AW" \in in_issue
          <6>1. Taken.aw = <<saved_req>>
            BY <1>3, <1>5, <2>5, <5>1
          <6> QED BY <6>1
        <5>2. CASE "AW" \notin in_issue
          <6>1. Taken.aw = <<saved_req>>
            BY <1>5, <1>6, <3>1, <5>2
          <6> QED BY <6>1
        <5> QED BY <5>1, <5>2
      <4>2. Taken.w # <<>> /\ Taken.w[Len(Taken.w)].last = TRUE
        <5>1. CASE "W" \in in_issue
          <6>1. "W" \in AX!handshake /\ count = 0
            BY <1>3, <2>5, <5>1
          <6> QED BY <1>11, <1>12, <6>1
        <5>2. CASE "W" \notin in_issue
          <6>1. axi.w # <<>> /\ axi.w[Len(axi.w)].last = TRUE
            BY <3>1, <5>2 DEF BridgeInv
          <6> QED BY <1>5, <1>9, <5>2, <6>1
        <5> QED BY <5>1, <5>2
      <4> QED BY <2>2, <4>1, <4>2
    <3>2. CASE "W" \notin in_issue /\ "AW" \notin in_issue
      <4>1. axi.w = <<>> /\ axi.aw = <<>> /\ axi.done = TRUE
        BY <3>2 DEF BridgeInv
      <4>2. Taken.w = <<>> /\ Taken.aw = <<>>
            /\ Taken.done = (IF "B" \in AX!handshake THEN FALSE ELSE TRUE)
        BY <1>5, <1>9, <3>2, <4>1
      <4>3. Taken.done = ("B" \in in_issue')
        <5>1. CASE "B" \in AX!handshake
          <6>1. ("B" \in in_issue') = FALSE
            BY <1>3, <5>1
          <6> QED BY <4>2, <5>1, <6>1
        <5>2. CASE "B" \notin AX!handshake
          <6>1. ("B" \in in_issue') = TRUE
            BY <1>3, <5>2
          <6> QED BY <4>2, <5>2, <6>1
        <5> QED BY <5>1, <5>2
      <4> QED BY <1>1, <1>5, <2>1, <2>5, <4>2, <4>3
    <3> QED BY <3>1, <3>2
  <2> QED BY <2>3, <2>4, <2>5
<1> QED BY <1>13, <1>14

\* A master asks for transactions of its own and holds them.
LEMMA MasterStep ==
  ASSUME BridgeInv, AX!Tick
  PROVE  creq' \in AX!CReq
<1>1. creq \in AX!CReq /\ Requests \subseteq AX!CReq
  BY SuiteAssumption DEF BridgeInv, AX!BridgeAssumption
<1>2. CASE creq.valid /\ ~AX!cresp.last
  <2>1. CASE creq.is_write /\ AX!cresp.ready
    <3>1. PICK r \in Requests : creq' = [creq EXCEPT !.data = r.data]
      BY <1>2, <2>1 DEF AX!Tick, AX!Master
    <3>2. r.data \in AX!Word
      BY <1>1 DEF AX!CReq
    <3> QED BY <1>1, <3>1, <3>2 DEF AX!CReq
  <2>2. CASE ~(creq.is_write /\ AX!cresp.ready)
    BY <1>1, <1>2, <2>2 DEF AX!Tick, AX!Master
  <2> QED BY <2>1, <2>2
<1>3. CASE ~(creq.valid /\ ~AX!cresp.last)
  <2>1. creq' \in Requests \cup {[creq EXCEPT !.valid = FALSE]}
    BY <1>3 DEF AX!Tick, AX!Master
  <2>2. [creq EXCEPT !.valid = FALSE] \in AX!CReq
    BY <1>1 DEF AX!CReq
  <2> QED BY <1>1, <2>1, <2>2
<1> QED BY <1>2, <1>3

\* The lengths of bursts.
LEMMA Lengths ==
  ASSUME NEW r \in AX!CReq
  PROVE  r.len \in Nat \ {0} /\ r.is_write \in BOOLEAN /\ r.valid \in BOOLEAN
         /\ (r.len = 1 \/ r.len = WordsPerLine) /\ r.addr \in AX!Addr
  BY SuiteAssumption DEF AX!CReq, AX!BridgeAssumption, AX!SizeAssumption

LEMMA BridgeNext ==
  BridgeInv /\ [AX!Next]_(AX!vars) => BridgeInv'
<1>1. SUFFICES ASSUME BridgeInv, AX!Tick PROVE BridgeInv'
  <2>1. CASE AX!Next
    BY <1>1, <2>1 DEF AX!Next
  <2>2. CASE UNCHANGED AX!vars
    <3>1. UNCHANGED <<creq, in_issue, saved_req, count, sig, axi>>
      BY <2>2 DEF AX!vars, AX!bridgeVars
    <3> QED BY <3>1 DEF BridgeInv, AX!InData, AX!Possible
  <2> QED BY <2>1, <2>2
<1>2. creq' \in AX!CReq /\ sig' \in AX!Possible(axi')
  BY <1>1, MasterStep DEF AX!Tick
<1>3. CASE in_issue = {}
  <2>1. /\ axi' = axi /\ saved_req' = creq /\ count' = creq.len - 1
        /\ in_issue' = IF creq.valid THEN AX!next_issue ELSE {}
    BY <1>1, <1>3, IdleStep
  <2>2. creq \in AX!CReq /\ creq.len \in Nat \ {0} /\ creq.is_write \in BOOLEAN
    BY <1>1, Lengths DEF BridgeInv
  <2>3. /\ in_issue' \subseteq (IF creq.is_write THEN {"AW", "W", "B"} ELSE {"AR", "R"})
        /\ "R" \in in_issue' <=> creq.valid /\ ~creq.is_write
        /\ "AR" \in in_issue' <=> creq.valid /\ ~creq.is_write
        /\ "W" \in in_issue' <=> creq.valid /\ creq.is_write
        /\ "AW" \in in_issue' <=> creq.valid /\ creq.is_write
        /\ "B" \in in_issue' <=> creq.valid /\ creq.is_write
    BY <2>1 DEF AX!next_issue
  <2>4. /\ axi.ar = <<>> /\ axi.r = 0 /\ axi.aw = <<>> /\ axi.w = <<>> /\ axi.done = FALSE
        /\ AxiRecord(axi) /\ axi.w \in Seq(Beats)
    <3>1. axi.done = FALSE
      BY <1>1, <1>3 DEF BridgeInv
    <3> QED BY <1>1, <1>3, <3>1 DEF BridgeInv
  <2>5. count' \in 0 .. creq.len - 1 /\ count' \in Int
    BY <2>1, <2>2
  <2>6. 0 = saved_req'.len - 1 - count' /\ Len(<<>>) = 0
    BY <2>1, <2>2
  <2>7. (axi.done = ("B" \in in_issue /\ "W" \notin in_issue /\ "AW" \notin in_issue))'
    BY <2>1, <2>3, <2>4
  <2>8. (axi.ar = IF "R" \in in_issue /\ "AR" \notin in_issue THEN <<saved_req>> ELSE <<>>)'
        /\ (axi.aw = IF "W" \in in_issue /\ "AW" \notin in_issue THEN <<saved_req>> ELSE <<>>)'
        /\ (axi.r = IF "R" \in in_issue THEN saved_req.len - 1 - count ELSE 0)'
    BY <2>1, <2>3, <2>4, <2>6
  <2>9. (IF "W" \in in_issue
         THEN Len(axi.w) = saved_req.len - 1 - count
              /\ (axi.w # <<>> => axi.w[Len(axi.w)].last = FALSE)
         ELSE IF "AW" \in in_issue THEN axi.w # <<>> /\ axi.w[Len(axi.w)].last = TRUE
         ELSE axi.w = <<>>)'
    BY <2>1, <2>3, <2>4, <2>6
  <2> QED BY <1>2, <2>1, <2>2, <2>3, <2>4, <2>5, <2>7, <2>8, <2>9 DEF BridgeInv
<1>4. ASSUME in_issue # {} PROVE
        /\ saved_req' = saved_req /\ saved_req \in AX!CReq /\ count' \in Int
        /\ in_issue' \subseteq in_issue
        /\ in_issue \subseteq (IF saved_req.is_write THEN {"AW", "W", "B"} ELSE {"AR", "R"})
        /\ AX!InData' => count' \in 0 .. saved_req.len - 1
        /\ AxiRecord(axi')
  <2>1. /\ saved_req' = saved_req
        /\ count' = IF ("R" \in AX!handshake \/ "W" \in AX!handshake) /\ count # 0
                    THEN count - 1 ELSE count
        /\ in_issue' =
             {ch \in in_issue : ~(ch \in AX!handshake /\ (ch \in {"R", "W"} => count = 0))}
    BY <1>1, <1>4, BusyStep
  <2>2. AX!InData' => AX!InData
    BY <2>1 DEF AX!InData
  <2>3. /\ count \in Int /\ saved_req \in AX!CReq /\ (AX!InData => count \in 0 .. saved_req.len - 1)
        /\ in_issue \subseteq (IF saved_req.is_write THEN {"AW", "W", "B"} ELSE {"AR", "R"})
    BY <1>1 DEF BridgeInv
  <2>4. saved_req.len \in Nat
    BY <2>3, Lengths
  <2>5. count' \in Int /\ (AX!InData => count' \in 0 .. saved_req.len - 1)
    BY <2>1, <2>3, <2>4
  <2>6. AxiRecord(axi')
    BY <1>1, <1>4, MemoryStep
  <2> QED BY <2>1, <2>2, <2>3, <2>5, <2>6
<1>5. CASE "R" \in in_issue
  <2>1. /\ saved_req' = saved_req /\ saved_req \in AX!CReq /\ count' \in Int
        /\ in_issue' \subseteq in_issue
        /\ AX!InData' => count' \in 0 .. saved_req.len - 1
        /\ AxiRecord(axi')
    BY <1>4, <1>5
  <2>2. /\ saved_req.is_write = FALSE
        /\ axi'.aw = <<>> /\ axi'.w = <<>> /\ axi'.done = FALSE
        /\ axi'.ar = IF "R" \in in_issue' /\ "AR" \notin in_issue' THEN <<saved_req>> ELSE <<>>
        /\ axi'.r = IF "R" \in in_issue' THEN saved_req.len - 1 - count' ELSE 0
    BY <1>1, <1>5, ReadStep
  <2>3. in_issue \subseteq {"AR", "R"}
    BY <1>4, <1>5, <2>2
  <2>4. "AR" \in in_issue' => "R" \in in_issue'
    <3>1. "R" \in AX!handshake => "AR" \notin in_issue
      BY <1>1, Handshakes
    <3>2. /\ in_issue' =
               {ch \in in_issue : ~(ch \in AX!handshake /\ (ch \in {"R", "W"} => count = 0))}
      BY <1>1, <1>5, BusyStep
    <3> QED BY <1>5, <3>1, <3>2
  <2>5. "W" \notin in_issue' /\ "AW" \notin in_issue' /\ "B" \notin in_issue'
    BY <2>1, <2>3
  <2>6. <<>> \in Seq(Beats)
    OBVIOUS
  <2>7. (axi.done = ("B" \in in_issue /\ "W" \notin in_issue /\ "AW" \notin in_issue))'
    BY <2>2, <2>5
  <2> QED BY <1>2, <2>1, <2>2, <2>3, <2>4, <2>5, <2>6, <2>7 DEF BridgeInv
<1>6. CASE "B" \in in_issue
  <2>1. /\ saved_req' = saved_req /\ saved_req \in AX!CReq /\ count' \in Int
        /\ in_issue' \subseteq in_issue
        /\ in_issue \subseteq (IF saved_req.is_write THEN {"AW", "W", "B"} ELSE {"AR", "R"})
        /\ AX!InData' => count' \in 0 .. saved_req.len - 1
        /\ AxiRecord(axi')
    BY <1>4, <1>6
  <2>2. /\ saved_req.is_write = TRUE /\ "R" \notin in_issue' /\ "AR" \notin in_issue'
        /\ axi'.ar = <<>> /\ axi'.r = 0 /\ axi'.w \in Seq(Beats)
        /\ axi'.aw = IF "W" \in in_issue' /\ "AW" \notin in_issue' THEN <<saved_req>> ELSE <<>>
        /\ "AW" \in in_issue' \/ "W" \in in_issue' => "B" \in in_issue'
    BY <1>1, <1>6, <2>1, WriteStep
  <2>3. (axi.done = ("B" \in in_issue /\ "W" \notin in_issue /\ "AW" \notin in_issue))'
    BY <1>1, <1>6, WriteStep
  <2>4. (IF "W" \in in_issue
         THEN Len(axi.w) = saved_req.len - 1 - count
              /\ (axi.w # <<>> => axi.w[Len(axi.w)].last = FALSE)
         ELSE IF "AW" \in in_issue THEN axi.w # <<>> /\ axi.w[Len(axi.w)].last = TRUE
         ELSE axi.w = <<>>)'
    BY <1>1, <1>6, <2>1, WriteStep
  <2> QED BY <1>2, <2>1, <2>2, <2>3, <2>4 DEF BridgeInv
<1>7. in_issue = {} \/ "R" \in in_issue \/ "B" \in in_issue
  BY <1>1 DEF BridgeInv
<1> QED BY <1>3, <1>5, <1>6, <1>7

-----------------------------------------------------------------------------
(* The bridge and its memory are a CBusDevice                              *)

\* The transaction and the enable of the device, as AX!Device maps them.
View ==
  IF AX!InData
  THEN [busy |-> TRUE, is_write |-> "W" \in in_issue, start |-> saved_req.addr,
        len |-> saved_req.len, n |-> saved_req.len - count]
  ELSE [busy |-> FALSE, is_write |-> FALSE, start |-> AX!Addr0, len |-> 0, n |-> 0]

Enable == IF AX!InData THEN AX!cresp.ready ELSE ~AX!busy

LEMMA EnableType == ASSUME BridgeInv PROVE Enable \in BOOLEAN
<1>1. AX!cresp.ready \in BOOLEAN
  BY Told
<1> QED BY <1>1 DEF Enable, AX!busy

LEMMA AsIdle ==
  ASSUME ~Enable \/ (~View.busy /\ ~creq.valid), AX!Memory' = AX!Memory, View' = View,
         Enable' \in BOOLEAN
  PROVE  AX!Device!DeviceIdle(creq)
  BY DEF AX!Device!DeviceIdle, View, Enable

LEMMA AsStart ==
  ASSUME Enable, ~View.busy, creq.valid, AX!Memory' = AX!Memory, Enable' \in BOOLEAN,
         View' = [busy |-> TRUE, is_write |-> creq.is_write, start |-> creq.addr,
                  len |-> creq.len, n |-> 1]
  PROVE  AX!Device!DeviceStart(creq)
  BY DEF AX!Device!DeviceStart, AX!Device!TxOf, View, Enable

LEMMA AsBeat ==
  ASSUME Enable, View.busy, Enable' \in BOOLEAN,
         View' = IF View.n = View.len
                 THEN [busy |-> FALSE, is_write |-> FALSE, start |-> AX!Addr0, len |-> 0, n |-> 0]
                 ELSE [View EXCEPT !.n = @ + 1],
         NEW x, x = [View.start EXCEPT !.offset = (View.start.offset + View.n - 1) % WordsPerLine],
         AX!Memory' = IF View.is_write
                      THEN [AX!Memory EXCEPT ![x] = AX!Merge(@, creq.strobe, creq.data)]
                      ELSE AX!Memory
  PROVE  AX!Device!DeviceBeat(creq)
  BY DEF AX!Device!DeviceBeat, AX!Device!txLast, AX!Device!txAddr, AX!Device!Tx0,
     AX!Device!Addr0, AX!Addr0, AX!Device!Merge, AX!Merge, View, Enable

\* The address of a beat is the device's.
LEMMA BeatAddress ==
  ASSUME NEW r \in AX!CReq, NEW n \in 0 .. r.len - 1
  PROVE  AX!BeatAddr(r.addr, n, r.len)
           = [r.addr EXCEPT !.offset = (r.addr.offset + (n + 1) - 1) % WordsPerLine]
<1>1. r.len \in Nat \ {0} /\ r.addr \in AX!Addr
  BY Lengths
<1>2. r.addr.offset \in 0 .. WordsPerLine - 1 /\ WordsPerLine \in Nat \ {0}
  BY <1>1, SuiteAssumption DEF AX!Addr, AX!Offset, AX!BridgeAssumption, AX!SizeAssumption
<1>3. r.addr.offset + (n + 1) - 1 = r.addr.offset + n
  BY <1>2
<1>4. CASE r.len = 1
  <2>1. n = 0
    BY <1>4
  <2>2. (r.addr.offset + (n + 1) - 1) % WordsPerLine = r.addr.offset
    <3>1. r.addr.offset + (n + 1) - 1 = r.addr.offset
      BY <1>2, <2>1
    <3>2. r.addr.offset % WordsPerLine = r.addr.offset
      BY <1>2
    <3> QED BY <3>1, <3>2
  <2>3. [r.addr EXCEPT !.offset = r.addr.offset] = r.addr
    BY <1>1 DEF AX!Addr
  <2> QED BY <1>4, <2>2, <2>3 DEF AX!BeatAddr
<1>5. CASE r.len # 1
  BY <1>1, <1>3, <1>5 DEF AX!BeatAddr, AX!Addr
<1> QED BY <1>4, <1>5

\* What the master is told is what the device would tell it.
LEMMA SameAnswer ==
  ASSUME BridgeInv
  PROVE  AX!cresp = AX!Device!cresp
<1>1. /\ AX!cresp.ready = ("R" \in AX!handshake \/ "W" \in AX!handshake)
      /\ AX!cresp.last = (AX!cresp.ready /\ count = 0)
      /\ AX!cresp.data = IF "R" \in AX!handshake THEN AX!rdata ELSE AX!Word0
      /\ AX!cresp = [ready |-> AX!cresp.ready, last |-> AX!cresp.last, data |-> AX!cresp.data]
  BY Told
<1> DEFINE x == [View.start EXCEPT !.offset = (View.start.offset + View.n - 1) % WordsPerLine]
<1>2. AX!Device!cresp =
        IF Enable /\ View.busy
        THEN [ready |-> TRUE, last |-> View.n = View.len,
              data |-> IF View.is_write THEN AX!Word0 ELSE AX!Memory[x]]
        ELSE [ready |-> FALSE, last |-> FALSE, data |-> AX!Word0]
  BY DEF AX!Device!cresp, AX!Device!txLast, AX!Device!txAddr, AX!Device!CResp0,
     AX!Device!Word0, AX!Word0, View, Enable
<1>3. CASE ~AX!cresp.ready
  <2>1. ~(Enable /\ View.busy)
    BY <1>3 DEF Enable, View
  <2>2. AX!cresp.ready = FALSE /\ AX!cresp.last = FALSE /\ AX!cresp.data = AX!Word0
    BY <1>1, <1>3
  <2> QED BY <1>1, <1>2, <2>1, <2>2
<1>4. CASE AX!cresp.ready
  <2>1. AX!InData
    BY <1>1, <1>4, Handshakes DEF AX!InData
  <2>2. /\ Enable /\ View.busy /\ View.is_write = ("W" \in in_issue)
        /\ View.len = saved_req.len /\ View.n = saved_req.len - count
        /\ View.start = saved_req.addr
    BY <1>4, <2>1 DEF Enable, View
  <2>3. saved_req \in AX!CReq /\ count \in 0 .. saved_req.len - 1
    BY <2>1 DEF BridgeInv
  <2>4. saved_req.len \in Nat \ {0}
    BY <2>3, Lengths
  <2>5. (View.n = View.len) <=> count = 0
    BY <2>2, <2>3, <2>4
  <2>6. AX!cresp.last = (View.n = View.len) /\ AX!cresp.ready = TRUE
    <3>1. CASE count = 0
      BY <1>1, <1>4, <2>5, <3>1
    <3>2. CASE count # 0
      BY <1>1, <1>4, <2>5, <3>2
    <3> QED BY <3>1, <3>2
  <2>7. AX!cresp.data = IF View.is_write THEN AX!Word0 ELSE AX!Memory[x]
    <3>1. CASE "R" \in AX!handshake
      <4>1. /\ axi.r = saved_req.len - 1 - count /\ axi.ar[1] = saved_req
            /\ "R" \in in_issue
        BY <3>1, LastOfRead, Handshakes
      <4>2. "W" \notin in_issue /\ axi.w = <<>>
        <5>1. "W" \notin in_issue /\ "AW" \notin in_issue
          BY <4>1 DEF BridgeInv
        <5> QED BY <5>1 DEF BridgeInv
      <4>3. AX!Memory = axi.mem
        BY <4>2 DEF AX!Memory
      <4>4. axi.r \in 0 .. saved_req.len - 1 /\ axi.r + 1 = View.n
        BY <2>2, <2>3, <2>4, <4>1
      <4>5. AX!BeatAddr(saved_req.addr, axi.r, saved_req.len) = x
        BY <2>2, <2>3, <4>4, BeatAddress
      <4>6. AX!rdata = AX!Memory[x]
        BY <4>1, <4>3, <4>5 DEF AX!rdata
      <4> QED BY <1>1, <2>2, <3>1, <4>2, <4>6
    <3>2. CASE "R" \notin AX!handshake
      <4>1. "W" \in in_issue
        BY <1>1, <1>4, <3>2, Handshakes
      <4> QED BY <1>1, <2>2, <3>2, <4>1
    <3> QED BY <3>1, <3>2
  <2> HIDE DEF x
  <2> QED BY <1>1, <1>2, <2>2, <2>6, <2>7
<1> QED BY <1>3, <1>4

LEMMA NextBeat ==
  ASSUME NEW busy, NEW is_write, NEW start, NEW len, NEW n,
         NEW t, t = [busy |-> busy, is_write |-> is_write, start |-> start, len |-> len, n |-> n],
         NEW u, u = [busy |-> busy, is_write |-> is_write, start |-> start, len |-> len, n |-> n + 1]
  PROVE  [t EXCEPT !.n = @ + 1] = u
  OBVIOUS

LEMMA DeviceStep ==
  ASSUME BridgeInv, BridgeInv', AX!Tick
  PROVE  AX!Device!DeviceCycle(creq)
<1>1. Enable' \in BOOLEAN
  <2>1. (Enable \in BOOLEAN)'
    BY EnableType, PTL
  <2> QED BY <2>1
<1>2. CASE in_issue = {}
  <2>1. /\ axi' = axi /\ saved_req' = creq /\ count' = creq.len - 1
        /\ in_issue' = IF creq.valid THEN AX!next_issue ELSE {}
    BY <1>2, IdleStep
  <2>2. axi.w = <<>> /\ creq \in AX!CReq
    BY <1>2 DEF BridgeInv
  <2>3. AX!Memory' = AX!Memory
    BY <2>1, <2>2 DEF AX!Memory
  <2>4. ~AX!InData /\ Enable /\ ~View.busy
    BY <1>2 DEF AX!InData, Enable, View, AX!busy
  <2>5. creq.len \in Nat \ {0} /\ creq.is_write \in BOOLEAN
    BY <2>2, Lengths
  <2>6. CASE creq.valid
    <3>1. AX!InData' /\ ("W" \in in_issue') = creq.is_write
      <4>1. CASE creq.is_write
        <5>1. in_issue' = {"AW", "W", "B"} /\ creq.is_write = TRUE
          BY <2>1, <2>5, <2>6, <4>1 DEF AX!next_issue
        <5>2. AX!InData' /\ ("W" \in in_issue') = TRUE
          BY <5>1 DEF AX!InData
        <5> QED BY <5>1, <5>2
      <4>2. CASE ~creq.is_write
        <5>1. in_issue' = {"AR", "R"} /\ creq.is_write = FALSE
          BY <2>1, <2>5, <2>6, <4>2 DEF AX!next_issue
        <5>2. AX!InData' /\ ("W" \in in_issue') = FALSE
          BY <5>1 DEF AX!InData
        <5> QED BY <5>1, <5>2
      <4> QED BY <4>1, <4>2
    <3>2. saved_req'.len - count' = 1
      BY <2>1, <2>5
    <3>3. View' = [busy |-> TRUE, is_write |-> creq.is_write, start |-> creq.addr,
                   len |-> creq.len, n |-> 1]
      BY <2>1, <3>1, <3>2 DEF View
    <3>4. AX!Device!DeviceStart(creq)
      BY <1>1, <2>3, <2>4, <2>6, <3>3, AsStart
    <3> QED BY <3>4 DEF AX!Device!DeviceCycle
  <2>7. CASE ~creq.valid
    <3>1. ~AX!InData'
      BY <2>1, <2>7 DEF AX!InData
    <3>2. View' = View
      BY <2>4, <3>1 DEF View
    <3>3. AX!Device!DeviceIdle(creq)
      BY <1>1, <2>3, <2>4, <2>7, <3>2, AsIdle
    <3> QED BY <3>3 DEF AX!Device!DeviceCycle
  <2> QED BY <2>6, <2>7
<1>3. ASSUME in_issue # {} PROVE
        /\ saved_req' = saved_req
        /\ count' = IF AX!cresp.ready /\ count # 0 THEN count - 1 ELSE count
        /\ in_issue' =
             {ch \in in_issue : ~(ch \in AX!handshake /\ (ch \in {"R", "W"} => count = 0))}
        /\ AX!Memory' = IF "W" \in AX!handshake
                        THEN BeatWritten(AX!Memory, saved_req, Len(axi.w) + 1, Beat)
                        ELSE AX!Memory
        /\ AX!cresp.ready <=> "R" \in AX!handshake \/ "W" \in AX!handshake
  BY <1>3, BusyStep, MemoryStep, Told
<1>4. CASE in_issue # {} /\ ~AX!InData
  <2>1. "R" \notin in_issue /\ "W" \notin in_issue
    BY <1>4 DEF AX!InData
  <2>2. "W" \notin AX!handshake /\ ~Enable
    BY <1>4, <2>1, Handshakes DEF Enable, AX!busy
  <2>3. AX!Memory' = AX!Memory /\ ~AX!InData'
    BY <1>3, <1>4, <2>1, <2>2 DEF AX!InData
  <2>4. View' = View
    BY <1>4, <2>3 DEF View
  <2>5. AX!Device!DeviceIdle(creq)
    BY <1>1, <2>2, <2>3, <2>4, AsIdle
  <2> QED BY <2>5 DEF AX!Device!DeviceCycle
<1>5. CASE AX!InData /\ ~AX!cresp.ready
  <2>1. in_issue # {} /\ ~Enable
    BY <1>5 DEF AX!InData, Enable
  <2>2. "R" \notin AX!handshake /\ "W" \notin AX!handshake
    BY <1>3, <1>5, <2>1
  <2>3. /\ AX!Memory' = AX!Memory /\ count' = count /\ saved_req' = saved_req
        /\ "R" \in in_issue' <=> "R" \in in_issue
        /\ "W" \in in_issue' <=> "W" \in in_issue
    BY <1>3, <1>5, <2>1, <2>2
  <2>4. AX!InData' /\ ("W" \in in_issue') = ("W" \in in_issue)
    BY <1>5, <2>3 DEF AX!InData
  <2>5. View' = View
    BY <1>5, <2>3, <2>4 DEF View
  <2>6. AX!Device!DeviceIdle(creq)
    BY <1>1, <2>1, <2>3, <2>5, AsIdle
  <2> QED BY <2>6 DEF AX!Device!DeviceCycle
<1>6. CASE AX!InData /\ AX!cresp.ready
  <2>1. in_issue # {} /\ Enable
    BY <1>6 DEF AX!InData, Enable
  <2>2. saved_req \in AX!CReq /\ count \in 0 .. saved_req.len - 1
        /\ saved_req' = saved_req
        /\ in_issue \subseteq (IF saved_req.is_write THEN {"AW", "W", "B"} ELSE {"AR", "R"})
    BY <1>3, <1>6, <2>1 DEF BridgeInv
  <2>3. saved_req.len \in Nat \ {0}
    BY <2>2, Lengths
  <2>4. /\ View.busy /\ View.is_write = ("W" \in in_issue) /\ View.start = saved_req.addr
        /\ View.len = saved_req.len /\ View.n = saved_req.len - count
    BY <1>6 DEF View
  <2>5. (View.n = View.len) <=> count = 0
    BY <2>2, <2>3, <2>4
  <2>6. "R" \in AX!handshake \/ "W" \in AX!handshake
    BY <1>3, <1>6, <2>1
  <2>7. ~("R" \in in_issue /\ "W" \in in_issue)
    BY <2>2
  <2>8. View' = IF View.n = View.len
                THEN [busy |-> FALSE, is_write |-> FALSE, start |-> AX!Addr0, len |-> 0, n |-> 0]
                ELSE [View EXCEPT !.n = @ + 1]
    <3>1. CASE count = 0
      <4>1. ~AX!InData'
        BY <1>3, <2>1, <2>6, <2>7, <3>1, Handshakes DEF AX!InData
      <4> QED BY <2>5, <3>1, <4>1 DEF View
    <3>2. CASE count # 0
      <4>1. /\ count' = count - 1
            /\ "R" \in in_issue' <=> "R" \in in_issue
            /\ "W" \in in_issue' <=> "W" \in in_issue
        BY <1>3, <1>6, <2>1, <3>2
      <4>2. AX!InData' /\ ("W" \in in_issue') = ("W" \in in_issue)
        BY <1>6, <4>1 DEF AX!InData
      <4>3. saved_req.len - count' = (saved_req.len - count) + 1
        BY <2>2, <2>3, <4>1
      <4>4. View' = [busy |-> TRUE, is_write |-> "W" \in in_issue, start |-> saved_req.addr,
                     len |-> saved_req.len, n |-> (saved_req.len - count) + 1]
        BY <2>2, <4>2, <4>3 DEF View
      <4>5. View = [busy |-> TRUE, is_write |-> "W" \in in_issue, start |-> saved_req.addr,
                    len |-> saved_req.len, n |-> saved_req.len - count]
        BY <1>6 DEF View
      <4>6. [View EXCEPT !.n = @ + 1] = View'
        <5>1. PICK bit, n : bit = ("W" \in in_issue) /\ n = saved_req.len - count
          OBVIOUS
        <5>2. /\ View = [busy |-> TRUE, is_write |-> bit, start |-> saved_req.addr,
                         len |-> saved_req.len, n |-> n]
              /\ View' = [busy |-> TRUE, is_write |-> bit, start |-> saved_req.addr,
                          len |-> saved_req.len, n |-> n + 1]
          BY <4>4, <4>5, <5>1
        <5>3. PICK t, u, busy, start, len : busy = TRUE /\ t = View /\ u = View'
                                       /\ start = saved_req.addr /\ len = saved_req.len
          OBVIOUS
        <5>4. /\ t = [busy |-> busy, is_write |-> bit, start |-> start, len |-> len, n |-> n]
              /\ u = [busy |-> busy, is_write |-> bit, start |-> start, len |-> len, n |-> n + 1]
          BY <5>2, <5>3
        <5>5. [t EXCEPT !.n = @ + 1] = u
          BY ONLY <5>4, NextBeat
        <5> QED BY <5>3, <5>5
      <4> QED BY <2>5, <3>2, <4>6
    <3> QED BY <3>1, <3>2
  <2> DEFINE x == [View.start EXCEPT !.offset = (View.start.offset + View.n - 1) % WordsPerLine]
  <2>9. AX!Memory' = IF View.is_write
                     THEN [AX!Memory EXCEPT ![x] = AX!Merge(@, creq.strobe, creq.data)]
                     ELSE AX!Memory
    <3>1. CASE "W" \in in_issue
      <4>1. "W" \in AX!handshake
        BY <2>6, <2>7, <3>1, Handshakes
      <4>2. Len(axi.w) = saved_req.len - 1 - count
        BY <3>1 DEF BridgeInv
      <4>3. Len(axi.w) \in 0 .. saved_req.len - 1 /\ Len(axi.w) + 1 = View.n
            /\ (Len(axi.w) + 1) - 1 = Len(axi.w)
        BY <2>2, <2>3, <2>4, <4>2
      <4>4. AX!BeatAddr(saved_req.addr, Len(axi.w), saved_req.len) = x
        <5>1. PICK n \in 0 .. saved_req.len - 1 : n = Len(axi.w) /\ n + 1 = View.n
          BY <4>3
        <5>2. AX!BeatAddr(saved_req.addr, n, saved_req.len)
                = [saved_req.addr EXCEPT !.offset = (saved_req.addr.offset + (n + 1) - 1) % WordsPerLine]
          BY <2>2, BeatAddress
        <5> QED BY <2>4, <5>1, <5>2
      <4>5. Beat.strobe = creq.strobe /\ Beat.data = creq.data
        BY BeatType
      <4>6. BeatWritten(AX!Memory, saved_req, Len(axi.w) + 1, Beat)
              = [AX!Memory EXCEPT ![x] = AX!Merge(@, creq.strobe, creq.data)]
        BY <4>3, <4>4, <4>5 DEF BeatWritten
      <4> QED BY <1>3, <2>1, <2>4, <3>1, <4>1, <4>6
    <3>2. CASE "W" \notin in_issue
      <4>1. "W" \notin AX!handshake /\ ~View.is_write
        BY <2>4, <3>2, Handshakes
      <4> QED BY <1>3, <2>1, <4>1
    <3> QED BY <3>1, <3>2
  <2> HIDE DEF x
  <2>10. AX!Device!DeviceBeat(creq)
    BY <1>1, <2>1, <2>4, <2>8, <2>9, AsBeat DEF x
  <2> QED BY <2>10 DEF AX!Device!DeviceCycle
<1> QED BY <1>2, <1>4, <1>5, <1>6 DEF AX!InData

\* Bridge and AXI memory are a burst memory, whatever order the channels end in
\* and however late each of them is: in their first state, in every step and in
\* every answer (CBusToAXI.sv, memory.h:86-88).
THEOREM BridgeMatchesDevice == AX!Spec => AX!MatchesDevice
<1>1. AX!Init => AX!Device!DeviceInit
  BY DEF AX!Init, AX!Device!DeviceInit, AX!Device!Tx0, AX!InData, AX!Memory, AX!busy, AX!Addr0,
     AX!Device!Addr0
<1>2. BridgeInv /\ BridgeInv' /\ [AX!Next]_(AX!vars) => [AX!Device!DeviceCycle(creq)]_(AX!vars)
  BY DeviceStep DEF AX!Next
<1>3. BridgeInv => AX!cresp = AX!Device!cresp
  BY SameAnswer
<1> QED BY <1>1, <1>2, <1>3, BridgeInit, BridgeNext, PTL DEF AX!Spec, AX!MatchesDevice

\* MatchesDevice of the suite, in which another part may run.
THEOREM MatchesDeviceHolds == AllSpec => MatchesDevice
<1>1. AllInit => AX!Init
  BY DEF AllInit
<1>2. [AllNext]_allVars => [AX!Next]_(AX!vars)
  BY DEF AllNext, AluPart, UartPart, BridgePart, ConfregPart, Aborted, allVars, bridgeVars,
     AX!vars, AX!bridgeVars
<1> QED BY <1>1, <1>2, BridgeMatchesDevice, PTL DEF AllSpec, AX!Spec, MatchesDevice
=============================================================================
