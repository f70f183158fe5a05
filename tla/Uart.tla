-------------------------------- MODULE Uart --------------------------------
(***************************************************************************)
(* The transmitter of vivado/src/device.sv, on the board: its clock runs K *)
(* times as fast as the core's, so that a store stays on the bus for K of  *)
(* its cycles at least.  The core writes a text to TX_DATA, a character at *)
(* a time, then FINISH_ADDR, after which the device sends a string of its  *)
(* own.  The line is read by a receiver with the same bit time.            *)
(***************************************************************************)
EXTENDS Integers, Sequences, SequencesExt

CONSTANTS
  K,             \* cycles of clk in one of cpu_clk
  BIT_TMR_MAX,   \* the bit timer's last value
  Bits,          \* data bits of a character
  Texts,         \* what a program may send: sequences of characters
  Str            \* str[0], str[1] and so on: the string is sent from its last on

Character == [1 .. Bits -> {0, 1}]

UartAssumption ==
  /\ K \in Nat /\ K > 1
  /\ BIT_TMR_MAX \in Nat \ {0} /\ Bits \in Nat \ {0}
  /\ Texts \subseteq Seq(Character) /\ Str \in Seq(Character) /\ Len(Str) > 1

VARIABLES
  text,             \* the program's characters
  valid, wrote,     \* the core: a store is on the bus; stores answered
  phase,            \* cycles of clk since the last edge of cpu_clk
  txState, txData, txBit, bitTmr, bitIndex, putchar, finish, idx,
  rx, frame, received   \* the receiver: cycles into a frame, its bits, characters

cpuVars == <<text, valid, wrote, phase>>
uartVars == <<txState, txData, txBit, bitTmr, bitIndex, putchar, finish, idx>>
receiverVars == <<rx, frame, received>>
vars == <<cpuVars, uartVars, receiverVars>>

BIT_INDEX_MAX == Bits + 2  \* a start bit and a stop bit

-----------------------------------------------------------------------------
(* The device, in a cycle of clk                                           *)

\* The store on the bus is to TX_DATA, or to FINISH_ADDR after the text.
toData   == valid /\ wrote < Len(text)
toFinish == valid /\ wrote = Len(text)

send == (idx # 0 /\ finish) \/ toData

bitDone == bitTmr = BIT_TMR_MAX

tx_ready == txState = "RDY"

\* str has one element past its first character, of no use.
char_data == IF finish THEN Str[IF idx < Len(Str) THEN idx + 1 ELSE Len(Str)]
             ELSE text[wrote + 1]

\* Mutant: a character that is held on the bus is sent again.
PutcharAlways == putchar' = TRUE

Putchar == putchar' = (~valid \/ (putchar /\ ~(toData /\ txState # "RDY")))

TxState ==
  txState' =
    CASE txState = "RDY"      -> IF send /\ putchar THEN "LOAD_BIT" ELSE "RDY"
      [] txState = "LOAD_BIT" -> "SEND_BIT"
      [] txState = "SEND_BIT" -> IF ~bitDone THEN "SEND_BIT"
                                 ELSE IF bitIndex = BIT_INDEX_MAX THEN "RDY" ELSE "LOAD_BIT"

Transmitter ==
  /\ TxState /\ Putchar
  /\ finish' = (finish \/ toFinish)
  /\ idx' = IF send /\ finish /\ tx_ready THEN idx - 1 ELSE idx
  /\ bitTmr' = IF txState = "RDY" \/ bitDone THEN 0 ELSE bitTmr + 1
  /\ bitIndex' = CASE txState = "RDY"      -> 0
                   [] txState = "LOAD_BIT" -> bitIndex + 1
                   [] OTHER                -> bitIndex
  /\ txData' = IF send THEN <<0>> \o char_data \o <<1>> ELSE txData
  /\ txBit' = CASE txState = "RDY"      -> 1
                [] txState = "LOAD_BIT" -> txData[bitIndex + 1]
                [] OTHER                -> txBit

-----------------------------------------------------------------------------
(* The core, at an edge of cpu_clk: it takes the answer or keeps the store *)

Core ==
  /\ phase' = (phase + 1) % K
  /\ UNCHANGED text
  /\ IF phase # K - 1 THEN UNCHANGED <<valid, wrote>>
     ELSE IF valid
     THEN /\ valid' = ~tx_ready
          /\ wrote' = IF tx_ready THEN wrote + 1 ELSE wrote
     ELSE /\ valid' \in {FALSE, wrote <= Len(text)}
          /\ UNCHANGED wrote

(* The receiver samples each bit in its middle, from the start bit on.     *)

bitTime == BIT_TMR_MAX + 1

Receiver ==
  LET cycle == IF rx = 0 THEN (IF txBit = 0 THEN 1 ELSE 0) ELSE rx + 1
      bits  == IF cycle > 0 /\ cycle % bitTime = (bitTime + 1) \div 2
               THEN Append(frame, txBit) ELSE frame
      full  == Len(bits) = BIT_INDEX_MAX
  IN  /\ rx' = IF full THEN 0 ELSE cycle
      /\ frame' = IF full THEN <<>> ELSE bits
      /\ received' = IF full THEN Append(received, bits) ELSE received

Tick == Transmitter /\ Core /\ Receiver

Init ==
  /\ text \in Texts
  /\ valid = FALSE /\ wrote = 0 /\ phase = 0
  /\ txState = "RDY" /\ txData = [i \in 1 .. BIT_INDEX_MAX |-> 0] /\ txBit = 1
  /\ bitTmr = 0 /\ bitIndex = 0 /\ putchar = TRUE /\ finish = FALSE
  /\ idx = Len(Str)
  /\ rx = 0 /\ frame = <<>> /\ received = <<>>

Next == Tick

Spec == Init /\ [][Next]_vars

-----------------------------------------------------------------------------
(* Properties                                                              *)

\* A character as it is framed.
Framed(c) == <<0>> \o c \o <<1>>

\* The string without its terminator str[0], which is never sent.
Greeting == [n \in 1 .. Len(Str) - 1 |-> Str[Len(Str) + 1 - n]]

\* str[1] a second time: idx is lowered a cycle before the shift register's
\* contents are settled, so that the first of Len(Str) rounds already sends
\* the character below its idx and the last one finds idx at 0.
Surplus == Str[2]

\* The line carries the program's characters, each once, in order and intact;
\* then the device's string down to str[1]; then str[1] once more, which the
\* string does not ask for; and nothing else.  A store is answered when its
\* character is out, though the core sees ready only at its own edges and
\* holds the character on the bus while the line sends it
\* (device.sv:126-195).
CharactersSent ==
  LET sent == text \o Greeting \o <<Surplus>>
  IN  /\ IsPrefix(received, [n \in DOMAIN sent |-> Framed(sent[n])])
      /\ Len(received) >= IF wrote <= Len(text) THEN wrote ELSE Len(text)
=============================================================================
