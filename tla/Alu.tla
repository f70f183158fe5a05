-------------------------------- MODULE Alu --------------------------------
(***************************************************************************)
(* The multi-cycle half of the ALU: vsrc/pipeline/execute/alu.sv with the  *)
(* shift-and-add multiplier mult.sv and the restoring divider divid.sv,    *)
(* bit for bit at a width of two halves.  Stage E keeps the operation and  *)
(* its operands while stallE_mult is up; "ADD" stands for the operations   *)
(* that use neither unit.                                                  *)
(***************************************************************************)
EXTENDS Integers

CONSTANTS
  H,         \* values of a half, the operand of a word operation (2^32)
  Following  \* what may come to E after the first operation: <<alufunc, a, b>>

N == H * H   \* values of a register
U64 == 0 .. N - 1

PowerOfTwo(n) == \A x \in 1 .. n : n % x = 0 => x = 1 \/ x % 2 = 0

ASSUME WidthAssumption == H \in Nat /\ H > 1 /\ PowerOfTwo(N)

VARIABLES
  alufunc, a, b,          \* what stage E holds
  mstate, mcount, p, b_,  \* mult.sv
  dstate, dcount, q, d    \* divid.sv: its p is q here, its b_ is d

inputs == <<alufunc, a, b>>
mult   == <<mstate, mcount, p, b_>>
divid  == <<dstate, dcount, q, d>>
vars   == <<inputs, mult, divid>>

MulOps == {"MUL", "MULW"}
DivOps == {"DIV", "DIVU", "REM", "REMU", "DIVW", "DIVUW", "REMW", "REMUW"}
Ops    == MulOps \cup DivOps \cup {"ADD"}
WordOps == {"MULW", "DIVW", "DIVUW", "REMW", "REMUW"}
SignedOps == {"DIV", "REM", "DIVW", "REMW"}

ASSUME FollowingAssumption == Following \subseteq Ops \X U64 \X U64

lo(x) == x % H
Neg(x) == (N - x) % N
sext(x) == IF lo(x) < H \div 2 THEN lo(x) ELSE N - H + lo(x)
Top(x) == x >= N \div 2       \* x[63]
TopW(x) == lo(x) >= H \div 2  \* x[31]

\* The sign the operation looks at.
negative(x) ==
  alufunc \in SignedOps /\ (IF alufunc \in WordOps THEN TopW(x) ELSE Top(x))

\* absa and absb.  What a negative half becomes is ~x + 1 in 32 bits.
abs(x) ==
  LET y == IF alufunc \in WordOps THEN lo(x) ELSE x
  IN IF ~negative(x) THEN y
     ELSE IF alufunc \in WordOps THEN (H - y) % H ELSE Neg(y)

MUL_valid == alufunc \in MulOps

\* The signed word operations test the low half, the unsigned the whole b.
DIV_valid ==
  alufunc \in DivOps /\
    (IF alufunc \in {"DIVW", "REMW"} THEN lo(b) ELSE b) # 0

\* MULT_DELAY and DIV_DELAY: the count is a single bit, shifted out.
Delay == N

State0 == "INIT"

count_nxt(state, count, valid) ==
  IF state = "INIT" THEN (IF valid THEN Delay ELSE count) ELSE count \div 2

state_nxt(state, count, valid) ==
  IF state = "INIT" THEN (IF valid THEN "DOING" ELSE "INIT")
  ELSE IF count_nxt(state, count, valid) = 0 THEN "INIT" ELSE "DOING"

done(state, count, valid) == state_nxt(state, count, valid) = "INIT"

stallE_mult ==
  \/ MUL_valid /\ ~done(mstate, mcount, MUL_valid)
  \/ DIV_valid /\ ~done(dstate, dcount, DIV_valid)

\* p_nxt of mult.sv: p[128:64] = p[127:64] + b_, then a shift to the right.
addShift ==
  LET hi == IF p % 2 = 1 THEN ((p \div N) % N) + b_ ELSE p \div N
  IN (hi * N + (p % N)) \div 2

\* p_nxt of divid.sv: a shift to the left, then the divisor is taken away.
shiftSubtract ==
  LET s == (2 * q) % (N * N)
  IN IF s \div N >= d THEN s - d * N + 1 ELSE s

quotient  == q % N
remainder == q \div N

\* Mutant: the remainder has the sign of the quotient.
dividResultSign ==
  LET flip == negative(a) # negative(b)
      raw  == IF alufunc \in {"DIV", "DIVU", "DIVW", "DIVUW"} THEN quotient ELSE remainder
  IN IF flip THEN Neg(raw) ELSE raw

dividResult ==
  IF alufunc \in {"DIV", "DIVU", "DIVW", "DIVUW"}
  THEN IF negative(a) # negative(b) THEN Neg(quotient) ELSE quotient
  ELSE IF negative(a) THEN Neg(remainder) ELSE remainder

\* c without a unit: a division by zero, or an addition.
otherResult ==
  CASE alufunc \in {"DIV", "DIVU", "DIVW", "DIVUW"} -> N - 1
    [] alufunc \in {"REM", "REMU", "REMW", "REMUW"} -> a
    [] OTHER                                        -> (a + b) % N

c ==
  LET r == IF MUL_valid THEN p % N ELSE IF DIV_valid THEN dividResult ELSE otherResult
  IN IF alufunc \in WordOps THEN sext(r) ELSE r

-----------------------------------------------------------------------------
\* A unit is reset in every cycle its operation is not in E (resetn, valid).
MultCycle ==
  IF ~MUL_valid
  THEN mstate' = State0 /\ mcount' = 0 /\ p' = 0 /\ UNCHANGED b_
  ELSE /\ mstate' = state_nxt(mstate, mcount, MUL_valid)
       /\ mcount' = count_nxt(mstate, mcount, MUL_valid)
       /\ p'  = IF mstate = "INIT" THEN a ELSE addShift
       /\ b_' = IF mstate = "INIT" THEN b ELSE b_

DividCycle ==
  IF ~DIV_valid
  THEN dstate' = State0 /\ dcount' = 0 /\ q' = 0 /\ UNCHANGED d
  ELSE /\ dstate' = state_nxt(dstate, dcount, DIV_valid)
       /\ dcount' = count_nxt(dstate, dcount, DIV_valid)
       /\ q' = IF dstate = "INIT" THEN abs(a) ELSE shiftSubtract
       /\ d' = IF dstate = "INIT" THEN abs(b) ELSE d

\* The next operation comes when this one is done, or this one stays for the
\* memory's sake and is done again.
StageE ==
  IF stallE_mult THEN UNCHANGED inputs
  ELSE \E next \in Following \cup {inputs} :
         alufunc' = next[1] /\ a' = next[2] /\ b' = next[3]

Cycle == MultCycle /\ DividCycle /\ StageE

\* The units are as the reset, or any other operation, leaves them when the
\* first operation arrives.
Init ==
  /\ alufunc \in Ops /\ a \in U64 /\ b \in U64
  /\ mstate = State0 /\ mcount = 0 /\ p = 0 /\ b_ = 0
  /\ dstate = State0 /\ dcount = 0 /\ q = 0 /\ d = 0

Spec == Init /\ [][Cycle]_vars


-----------------------------------------------------------------------------
(* The "M" extension of the RISC-V manual                                  *)

signed(x)  == IF Top(x) THEN x - N ELSE x
signedW(x) == IF TopW(x) THEN lo(x) - H ELSE lo(x)

\* Division that rounds towards zero.
Magnitude(x) == IF x < 0 THEN -x ELSE x
Div(x, y) == IF (x < 0) = (y < 0) THEN Magnitude(x) \div Magnitude(y)
             ELSE -(Magnitude(x) \div Magnitude(y))

DivBy(x, y) == IF y = 0 THEN -1 ELSE Div(x, y)
RemBy(x, y) == IF y = 0 THEN x ELSE x - y * Div(x, y)

Manual ==
  CASE alufunc = "MUL"   -> (a * b) % N
    [] alufunc = "MULW"  -> sext(a * b)
    [] alufunc = "DIV"   -> DivBy(signed(a), signed(b)) % N
    [] alufunc = "DIVU"  -> DivBy(a, b) % N
    [] alufunc = "REM"   -> RemBy(signed(a), signed(b)) % N
    [] alufunc = "REMU"  -> RemBy(a, b)
    [] alufunc = "DIVW"  -> sext(DivBy(signedW(a), signedW(b)) % H)
    [] alufunc = "DIVUW" -> sext(DivBy(lo(a), lo(b)) % H)
    [] alufunc = "REMW"  -> sext(RemBy(signedW(a), signedW(b)) % H)
    [] alufunc = "REMUW" -> sext(RemBy(lo(a), lo(b)))
    [] alufunc = "ADD"   -> (a + b) % N

-----------------------------------------------------------------------------
(* Properties                                                              *)

\* Every register keeps its width.
TypeOK ==
  /\ alufunc \in Ops /\ a \in U64 /\ b \in U64
  /\ mstate \in {"INIT", "DOING"} /\ mcount \in 0 .. N
  /\ p \in 0 .. 2 * N * N - 1 /\ b_ \in U64
  /\ dstate \in {"INIT", "DOING"} /\ dcount \in 0 .. N
  /\ q \in 0 .. N * N - 1 /\ d \in U64

\* When E lets an operation go its result is the manual's: for every operand,
\* division by zero, the overflow of -2^63 / -1 and, in DIVUW and REMUW, a
\* divisor whose low half alone is zero (alu.sv:119-130,147-156).
ResultRight == ~stallE_mult => c = Manual

\* After k shifts p holds the product of the k low bits of a with b, above
\* the bits of a still to come (mult.sv:57-62).
MultiplierLoop ==
  mstate = "DOING" =>
    LET T == N \div mcount
    IN p = (a % T) * b * mcount + a \div T

\* After k shifts q holds the remainder and the quotient of the k high bits
\* of the dividend, around the bits still to come (divid.sv:57-63).
DividerLoop ==
  dstate = "DOING" =>
    LET T == N \div dcount
    IN /\ abs(a) \div dcount = (quotient % T) * d + remainder
       /\ abs(a) % dcount = quotient \div T
       /\ d # 0 => remainder < d

\* Both units, inside and out: their registers keep their widths, their loops
\* compute what they should after every step, and the result that is let go
\* is the manual's (alu.sv, mult.sv, divid.sv).
UnitsRight == TypeOK /\ MultiplierLoop /\ DividerLoop /\ ResultRight
=============================================================================
