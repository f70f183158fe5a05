------------------------------ MODULE Confreg -------------------------------
(***************************************************************************)
(* verilate/vsrc/confreg.cpp, the simulated peripherals of a whole chip,   *)
(* with checkout_confreg() of vsrc/model.cpp: a UART whose input a thread  *)
(* collects, a virtual UART, the registers and the number monitor.  Stores *)
(* and fetches take effect in sync(), once a cycle; ctx0 is the context of *)
(* the cycle before.  The bus makes at most one access in a cycle.         *)
(***************************************************************************)
EXTENDS Integers, Sequences, SequencesExt

CONSTANTS
  Char,      \* characters typed and printed
  Unprinted, \* those above 0x7f, which the model does not print
  MaxNum,    \* the numbers a program may write to NUM, twice
  MaxTyped,  \* bound on the characters typed
  MaxStored  \* bound on the characters stored

ConfregAssumption ==
  Unprinted \subseteq Char /\ MaxNum \in Nat /\ MaxTyped \in Nat /\ MaxStored \in Nat

VARIABLES
  ctx, ctx0,       \* the contexts of this cycle and the last
  ififo,           \* input the thread has pushed
  changes, mem,    \* stores of this cycle; the registers
  accessed,        \* the bus has made its access of this cycle
  checked,         \* checkout_confreg() has run since sync()
  _current_num,    \* of the model
  pty, console,    \* output: to the terminal of the UART, to the console
  typed, got,      \* characters typed, fetched
  sent, stored,    \* written to the UART; to the virtual one, those it prints
  aborted          \* the assertion that has failed, or ""

outputs == <<pty, console>>
history == <<typed, got, sent, stored>>
vars == <<ctx, ctx0, ififo, changes, mem, accessed, checked, _current_num,
          outputs, history, aborted>>

NoChar == "no char"

Context0 ==
  [uart_avail |-> FALSE, uart_written |-> FALSE, uart_fetched |-> FALSE,
   uart_data |-> NoChar, vuart_written |-> FALSE, vuart_data |-> NoChar,
   v_num_monitor |-> TRUE, v_num |-> [num |-> 0, ack |-> 0]]

Nums == [num : 0 .. MaxNum, ack : 0 .. MaxNum]

-----------------------------------------------------------------------------
(* Accesses of the bus                                                     *)

Access == aborted = "" /\ ~accessed /\ checked /\ accessed' = TRUE

LoadLSR ==
  /\ Access
  /\ UNCHANGED <<ctx, ctx0, ififo, changes, mem, checked, _current_num, outputs,
                 history, aborted>>

\* The front of an empty deque is whatever was there.
_uart_get_char ==
  /\ Access
  /\ ctx.uart_avail
  /\ ctx' = [ctx EXCEPT !.uart_fetched = TRUE]
  /\ got' = Append(got, IF ififo = <<>> THEN NoChar ELSE Head(ififo))
  /\ UNCHANGED <<ctx0, ififo, changes, mem, checked, _current_num, outputs, typed,
                 sent, stored, aborted>>

_uart_put_char(c) ==
  /\ Access /\ Len(sent) < MaxStored
  /\ ctx' = [ctx EXCEPT !.uart_written = TRUE, !.uart_data = c]
  /\ sent' = Append(sent, c)
  /\ UNCHANGED <<ctx0, ififo, changes, mem, checked, _current_num, outputs, typed,
                 got, stored, aborted>>

\* What the model prints of a character.
Printed(c) == IF c \in Unprinted THEN <<>> ELSE <<c>>

StoreVirtualUart(c) ==
  /\ Access /\ Len(stored) < MaxStored
  /\ ctx' = [ctx EXCEPT !.vuart_written = TRUE, !.vuart_data = c]
  /\ changes' = Append(changes, <<"VIRTUAL_UART", c>>)
  /\ stored' = stored \o Printed(c)
  /\ UNCHANGED <<ctx0, ififo, mem, checked, _current_num, outputs, typed, got,
                 sent, aborted>>

StoreNum(n) ==
  /\ Access
  /\ ctx' = [ctx EXCEPT !.v_num = n]
  /\ changes' = Append(changes, <<"NUM", n>>)
  /\ UNCHANGED <<ctx0, ififo, mem, checked, _current_num, outputs, history, aborted>>

StoreNumMonitor(b) ==
  /\ Access
  /\ ctx' = [ctx EXCEPT !.v_num_monitor = b]
  /\ changes' = Append(changes, <<"NUM_MONITOR", b>>)
  /\ UNCHANGED <<ctx0, ififo, mem, checked, _current_num, outputs, history, aborted>>

Bus ==
  \/ LoadLSR
  \/ _uart_get_char
  \/ \E c \in Char : _uart_put_char(c) \/ StoreVirtualUart(c)
  \/ \E n \in Nums : StoreNum(n)
  \/ \E b \in BOOLEAN : StoreNumMonitor(b)

-----------------------------------------------------------------------------
(* The thread that reads the terminal, at any time                         *)

Type(c) ==
  /\ Len(typed) < MaxTyped
  /\ ififo' = Append(ififo, c)
  /\ typed' = Append(typed, c)
  /\ UNCHANGED <<ctx, ctx0, changes, mem, accessed, checked, _current_num, outputs,
                 got, sent, stored, aborted>>

-----------------------------------------------------------------------------
(* The end of a cycle                                                      *)

popped == IF ctx.uart_fetched THEN SubSeq(ififo, 2, Len(ififo)) ELSE ififo

\* Mutant: what is available is looked up before the fetched one is removed.
availableBefore == ififo # <<>>

available == popped # <<>>

\* Mutant: the flags are cleared before the context is kept.
keptCleared == [ctx EXCEPT !.vuart_written = FALSE]

kept == ctx

Commit ==
  FoldLeft(LAMBDA m, change : [m EXCEPT ![change[1]] = change[2]], mem, changes)

sync ==
  /\ aborted = "" /\ checked
  /\ IF ctx.uart_fetched /\ ififo = <<>>
     THEN /\ aborted' = "UART input FIFO should not be empty"
          /\ UNCHANGED <<ctx, ctx0, ififo, changes, mem, accessed, checked, pty>>
     ELSE /\ ififo' = popped
          /\ pty' = IF ctx.uart_written THEN Append(pty, ctx.uart_data) ELSE pty
          /\ ctx0' = kept
          /\ ctx' = [ctx EXCEPT !.uart_avail = available, !.uart_written = FALSE,
                                !.uart_fetched = FALSE, !.vuart_written = FALSE,
                                !.uart_data = NoChar, !.vuart_data = NoChar]
          /\ mem' = Commit
          /\ changes' = <<>>
          /\ accessed' = FALSE /\ checked' = FALSE
          /\ UNCHANGED aborted
  /\ UNCHANGED <<_current_num, console, history>>

\* Numbers count up by one, and each must have been acknowledged.
checkout_confreg ==
  LET num == ctx0.v_num.num
      new == ctx0.v_num_monitor /\ _current_num # num
  IN  /\ aborted = "" /\ ~checked
      /\ checked' = TRUE
      /\ IF new /\ (_current_num + 1 # num \/ ctx0.v_num.ack # num)
         THEN /\ aborted' = "not passed"
              /\ UNCHANGED <<_current_num, console>>
         ELSE /\ _current_num' = IF new THEN num ELSE _current_num
              /\ console' = IF ctx0.vuart_written
                            THEN console \o Printed(ctx0.vuart_data) ELSE console
              /\ UNCHANGED aborted
      /\ UNCHANGED <<ctx, ctx0, ififo, changes, mem, accessed, pty, history>>

Init ==
  /\ ctx = Context0 /\ ctx0 = Context0
  /\ ififo = <<>> /\ changes = <<>>
  /\ mem = [r \in {"VIRTUAL_UART", "NUM", "NUM_MONITOR"} |->
              CASE r = "VIRTUAL_UART" -> NoChar
                [] r = "NUM"          -> Context0.v_num
                [] r = "NUM_MONITOR"  -> TRUE]
  /\ accessed = FALSE /\ checked = TRUE
  /\ _current_num = 0
  /\ pty = <<>> /\ console = <<>>
  /\ typed = <<>> /\ got = <<>> /\ sent = <<>> /\ stored = <<>>
  /\ aborted = ""

Next ==
  \/ Bus
  \/ \E c \in Char : Type(c)
  \/ sync
  \/ checkout_confreg

Spec == Init /\ [][Next]_vars

-----------------------------------------------------------------------------
(* Properties                                                              *)

\* The program gets what was typed, each character once and in order, though
\* the thread pushes while the program fetches, and a fetched character stays
\* in the queue until the end of the cycle (confreg.cpp:99-120, 190-197).
InputOnce ==
  /\ typed = got \o popped
  /\ aborted # "UART input FIFO should not be empty"

\* What the program writes comes out once and in order: on the terminal at the
\* end of the cycle, on the console one context later (confreg.cpp:109-120,
\* model.cpp:155-156).  Only an assertion of the monitor loses a character.
OutputOnce ==
  /\ sent = pty \o (IF ctx.uart_written THEN <<ctx.uart_data>> ELSE <<>>)
  /\ aborted = "" =>
       stored = console
                  \o (IF ~checked /\ ctx0.vuart_written THEN Printed(ctx0.vuart_data) ELSE <<>>)
                  \o (IF ctx.vuart_written THEN Printed(ctx.vuart_data) ELSE <<>>)
=============================================================================
