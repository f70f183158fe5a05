----------------------------- MODULE MCHardware -----------------------------
(***************************************************************************)
(* Hardware around the caches and the pipeline, for TLC: the multiplier    *)
(* and the divider (Alu), the UART of the board (Uart), the bridge to an   *)
(* AXI memory (CBusToAXI), and the serial port and the counters of the     *)
(* simulated board (Confreg).  None of these parts is wired to another, so *)
(* an instance runs one of them, its part.                                 *)
(***************************************************************************)
EXTENDS Alu, Sequences

CONSTANTS
  K, BIT_TMR_MAX, Bits, Texts, Str,                   \* of Uart
  Tag, IOTag, Tag0, SetNum, WordsPerLine,             \* of CBusToAXI
  Lane, Byte, Byte0, InitMem, Requests,
  Char, Unprinted,                                    \* of Confreg
  MaxNum, MaxTyped, MaxStored                         \* bounds of Confreg

VARIABLES
  part,  \* which part runs
  text, valid, wrote, phase, txState, txData, txBit, bitTmr, bitIndex, putchar, finish, idx,
  rx, frame, received,
  creq, in_issue, saved_req, count, sig, axi,
  ctx, ctx0, ififo, changes, registers, accessed, checked, _current_num, pty, console,
  typed, got, sent, stored, aborted

uartVars == <<text, valid, wrote, phase, txState, txData, txBit, bitTmr, bitIndex, putchar,
              finish, idx, rx, frame, received>>
bridgeVars == <<creq, in_issue, saved_req, count, sig, axi>>
confregVars == <<ctx, ctx0, ififo, changes, registers, accessed, checked, _current_num, pty,
                 console, typed, got, sent, stored, aborted>>
allVars == <<part, vars, uartVars, bridgeVars, confregVars>>

-----------------------------------------------------------------------------
(* Alu: every operation on every operand once, and after it operations on  *)
(* operands at the corners: 0, the least and minus one.                    *)

MCFollowing == Ops \X {3, N \div 2} \X {0, N - 1}

-----------------------------------------------------------------------------
(* Uart: every text of at most three characters, and a string of two       *)
(* characters and its terminator.                                          *)

MCTexts == UNION {[1 .. n -> [1 .. Bits -> {0, 1}]] : n \in 0 .. 3}
MCStr == << <<0, 0>>, <<1, 0>>, <<1, 1>> >>

U == INSTANCE Uart

-----------------------------------------------------------------------------
(* CBusToAXI: bursts of two and single words, read and written, with start *)
(* addresses at both words of the line.                                    *)

At(o) == [tag |-> Tag0, index |-> 0, offset |-> o]
MCInitMem ==
  [x \in [tag : Tag, index : {0}, offset : 0 .. WordsPerLine - 1] |-> [l \in Lane |-> x.offset]]

Read(x, n) == [valid |-> TRUE, is_write |-> FALSE, addr |-> x, strobe |-> {},
               data |-> [l \in Lane |-> 0], len |-> n]
Write(x, n, v) == [valid |-> TRUE, is_write |-> TRUE, addr |-> x, strobe |-> Lane,
                   data |-> [l \in Lane |-> v], len |-> n]
MCRequests ==
  {Read(At(o), 2) : o \in {0, 1}} \cup {Read(At(1), 1)}
  \cup {Write(At(o), n, v) : o \in {0, 1}, n \in {1, 2}, v \in Byte}

AX == INSTANCE CBusToAXI

-----------------------------------------------------------------------------
(* Confreg: characters of two kinds, one not printed.                      *)

CR == INSTANCE Confreg WITH mem <- registers

ASSUME SuiteAssumption ==
  U!UartAssumption /\ AX!BridgeAssumption /\ CR!ConfregAssumption

-----------------------------------------------------------------------------
(* The parts                                                               *)

\* The parts that do not run have one first state.
AllInit ==
  /\ part \in {"alu", "uart", "bridge", "confreg"}
  /\ part # "alu" => alufunc = "ADD" /\ a = 0 /\ b = 0
  /\ part # "uart" => text = <<>>
  /\ Init /\ U!Init /\ AX!Init /\ CR!Init
  /\ part # "bridge" => \A s \in DOMAIN sig : ~sig[s]

AluPart == part = "alu" /\ Cycle /\ UNCHANGED <<part, uartVars, bridgeVars, confregVars>>
UartPart == part = "uart" /\ U!Next /\ UNCHANGED <<part, vars, bridgeVars, confregVars>>
BridgePart == part = "bridge" /\ AX!Next /\ UNCHANGED <<part, vars, uartVars, confregVars>>
ConfregPart == part = "confreg" /\ CR!Next /\ UNCHANGED <<part, vars, uartVars, bridgeVars>>

\* An assertion of the model of confreg ends the simulation.
Aborted == part = "confreg" /\ aborted # "" /\ UNCHANGED allVars

AllNext == AluPart \/ UartPart \/ BridgePart \/ ConfregPart \/ Aborted

AllSpec == AllInit /\ [][AllNext]_allVars

-----------------------------------------------------------------------------
(* Properties of the parts                                                 *)

\* Uart's CharactersSent (device.sv:126-195).
CharactersSent == U!CharactersSent

\* CBusToAXI's MatchesDevice (memory.h:86-88).
MatchesDevice == AX!MatchesDevice

\* Confreg's InputOnce (confreg.cpp:99-120,190-197).
InputOnce == CR!InputOnce

\* Confreg's OutputOnce (confreg.cpp:109-120).
OutputOnce == CR!OutputOnce
=============================================================================
