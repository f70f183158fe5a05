----------------------------- MODULE AluProofs ------------------------------
(***************************************************************************)
(* Proofs about the multiplier and the divider, for every width and every  *)
(* operation and operand: they compute what the manual says.  All of it    *)
(* rests on one invariant, AluInv: what the shifted register is after k    *)
(* shifts, in terms of the k bits already taken.                           *)
(***************************************************************************)
EXTENDS MCHardware, TLAPS

-----------------------------------------------------------------------------
(* Quotients and remainders of integers                                    *)

\* Multiplication of an inequality.
LEMMA TimesMono ==
  ASSUME NEW x \in Int, NEW y \in Int, NEW n \in Nat, x <= y
  PROVE  x * n <= y * n /\ n * x <= n * y
  OBVIOUS

\* A quotient and a remainder are the only ones.
LEMMA DivUnique ==
  ASSUME NEW x \in Int, NEW n \in Nat \ {0}, NEW u \in Int, NEW r \in 0 .. n - 1,
         x = u * n + r
  PROVE  x \div n = u /\ x % n = r
<1> DEFINE v == x \div n
           s == x % n
<1>1. v \in Int /\ s \in 0 .. n - 1 /\ x = v * n + s
  OBVIOUS
<1> HIDE DEF v, s
<1>2. (u - v) * n = s - r
  BY <1>1
<1>3. CASE u = v
  BY <1>1, <1>3 DEF v, s
<1>4. CASE u - v >= 1
  BY <1>1, <1>2, <1>4, TimesMono
<1>5. CASE v - u >= 1
  <2>1. (v - u) * n = r - s
    BY <1>1
  <2>2. 1 * n <= (v - u) * n
    BY <1>1, <1>5, TimesMono
  <2> QED BY <1>1, <2>1, <2>2
<1> QED BY <1>1, <1>3, <1>4, <1>5

LEMMA DivFacts ==
  ASSUME NEW x \in Int, NEW n \in Nat \ {0}
  PROVE  x \div n \in Int /\ x % n \in 0 .. n - 1 /\ x = (x \div n) * n + (x % n)
  OBVIOUS

\* What is below its modulus.
LEMMA ModSmall ==
  ASSUME NEW n \in Nat \ {0}, NEW r \in 0 .. n - 1
  PROVE  r % n = r /\ r \div n = 0
  BY 0 * n = 0, DivUnique

\* Multiples of the modulus do not count.
LEMMA ModShift ==
  ASSUME NEW x \in Int, NEW n \in Nat \ {0}, NEW k \in Int
  PROVE  (x + k * n) % n = x % n
<1> DEFINE u == x \div n
           r == x % n
<1>1. u \in Int /\ r \in 0 .. n - 1 /\ x = u * n + r
  BY DivFacts
<1> HIDE DEF u, r
<1>2. x + k * n = (u + k) * n + r
  BY <1>1
<1>3. (x + k * n) % n = r
  BY <1>1, <1>2, DivUnique
<1> QED BY <1>3 DEF r

\* The remainder of a remainder.
LEMMA ModMod ==
  ASSUME NEW x \in Int, NEW n \in Nat \ {0}, NEW k \in Nat \ {0}
  PROVE  (x % (k * n)) % n = x % n
<1>0. PICK m \in Nat \ {0} : m = k * n
  <2>1. k * n \in Nat
    OBVIOUS
  <2>2. 1 * n <= k * n
    BY TimesMono
  <2> QED BY <2>1, <2>2
<1>1. PICK u \in Int, r \in Int : u = x \div m /\ r = x % m /\ x = u * m + r
  BY DivFacts
<1>2. PICK v \in Int : v = u * k
  OBVIOUS
<1>3. u * (k * n) = v * n
  BY <1>2
<1>4. x = r + v * n
  BY <1>0, <1>1, <1>3
<1>5. x % n = r % n
  BY <1>4, ModShift
<1> QED BY <1>0, <1>1, <1>5

\* A halved product.
LEMMA HalfOf ==
  ASSUME NEW x \in Int, NEW r \in {0, 1}
  PROVE  (2 * x + r) \div 2 = x /\ (2 * x + r) % 2 = r
  OBVIOUS

-----------------------------------------------------------------------------
(* The widths                                                              *)

LEMMA Widths ==
  /\ H \in Nat /\ H > 1 /\ N \in Nat /\ N = H * H /\ N >= 2 * H
  /\ \E h \in Nat \ {0} : H = 2 * h /\ H \div 2 = h
  /\ \E n \in Nat \ {0} : N = 2 * n /\ N \div 2 = n
  /\ N % H = 0 /\ PowerOfTwo(N)
<1>1. H \in Nat /\ H > 1 /\ N = H * H /\ PowerOfTwo(N)
  BY WidthAssumption DEF N
<1>2. N \in Nat /\ N >= 2 * H
  BY <1>1, 2 * H <= H * H, TimesMono
<1>3. N % H = 0
  BY <1>1, <1>2, DivUnique, N = H * H + 0
<1>4. N % N = 0
  BY <1>1, <1>2, DivUnique, N = 1 * N + 0
<1>5. H % 2 = 0
  BY <1>1, <1>2, <1>3 DEF PowerOfTwo
<1>6. N % 2 = 0
  BY <1>1, <1>2, <1>4 DEF PowerOfTwo
<1>7. \E h \in Nat \ {0} : H = 2 * h /\ H \div 2 = h
  <2>1. H = 2 * (H \div 2) /\ H \div 2 \in Nat \ {0}
    BY <1>1, <1>5
  <2> QED BY <2>1
<1>8. \E n \in Nat \ {0} : N = 2 * n /\ N \div 2 = n
  <2>1. N = 2 * (N \div 2) /\ N \div 2 \in Nat \ {0}
    BY <1>1, <1>2, <1>6
  <2> QED BY <2>1
<1> QED BY <1>1, <1>2, <1>3, <1>7, <1>8

\* A count divides N until the bit is shifted out.
LEMMA Halved ==
  ASSUME NEW k \in 1 .. N, N % k = 0, k # 1
  PROVE  \E h \in 1 .. N, T \in 1 .. N :
           /\ k = 2 * h /\ k \div 2 = h /\ N % h = 0
           /\ N = T * (2 * h) /\ N \div k = T /\ N \div h = 2 * T
<1> DEFINE h == k \div 2
           T == N \div k
<1>1. N \in Nat /\ N > 1 /\ PowerOfTwo(N)
  BY Widths
<1>2. k % 2 = 0
  BY <1>1 DEF PowerOfTwo
<1>3. h \in Nat \ {0} /\ k = 2 * h /\ h \in 1 .. N
  BY <1>1, <1>2
<1>4. T \in Int /\ N = T * k
  <2>1. T \in Int /\ N % k \in 0 .. k - 1 /\ N = T * k + (N % k)
    BY <1>1, DivFacts
  <2> HIDE DEF T
  <2> QED BY <2>1
<1> HIDE DEF h, T
<1>5. T \in 1 .. N
  <2>1. CASE T <= 0
    BY <1>1, <1>4, <2>1, T * k <= 0 * k, TimesMono
  <2>2. CASE T >= 1
    BY <1>1, <1>4, <2>2, T * 1 <= T * k, TimesMono
  <2> QED BY <1>4, <2>1, <2>2
<1>6. N = (2 * T) * h + 0
  BY <1>3, <1>4, <1>5
<1>7. N % h = 0 /\ N \div h = 2 * T
  BY <1>1, <1>3, <1>5, <1>6, DivUnique
<1> QED BY <1>3, <1>4, <1>5, <1>7 DEF h, T

-----------------------------------------------------------------------------
(* A step of the multiplier                                                *)

LEMMA NatDiv ==
  ASSUME NEW x \in Nat, NEW n \in Nat \ {0}
  PROVE  /\ x \div n \in Nat /\ x % n \in 0 .. n - 1 /\ x % n \in Nat
         /\ x = (x \div n) * n + (x % n)
<1>1. x \div n \in Nat /\ x % n \in Nat
  OBVIOUS
<1> QED BY <1>1, DivFacts

\* What one more bit of a number does to its two halves.
LEMMA LowBit ==
  ASSUME NEW x \in Nat, NEW T \in Nat \ {0}
  PROVE  \E v \in Nat, bit \in {0, 1}, r \in 0 .. T - 1 :
           /\ x % T = r /\ x \div T = 2 * v + bit
           /\ x % (2 * T) = bit * T + r /\ x \div (2 * T) = v
<1>1. PICK u \in Nat, r \in 0 .. T - 1 : u = x \div T /\ r = x % T /\ x = u * T + r
  BY NatDiv
<1>2. PICK v \in Nat, bit \in {0, 1} : u = 2 * v + bit
  <2>1. u \div 2 \in Nat /\ u % 2 \in {0, 1} /\ u = 2 * (u \div 2) + (u % 2)
    OBVIOUS
  <2> QED BY <2>1
<1>3. bit * T + r \in 0 .. 2 * T - 1
  <2>1. CASE bit = 0
    BY <2>1
  <2>2. CASE bit = 1
    BY <2>2
  <2> QED BY <2>1, <2>2
<1>4. x = v * (2 * T) + (bit * T + r)
  <2>1. u * T = v * (2 * T) + bit * T
    <3>1. (2 * v + bit) * T = v * (2 * T) + bit * T
      <4>1. CASE bit = 0
        BY <4>1
      <4>2. CASE bit = 1
        BY <4>2
      <4> QED BY <4>1, <4>2
    <3> QED BY <1>2, <3>1
  <2> QED BY <1>1, <2>1
<1>5. 2 * T \in Nat \ {0}
  OBVIOUS
<1>6. x \div (2 * T) = v /\ x % (2 * T) = bit * T + r
  <2>1. PICK m \in Nat \ {0} : m = 2 * T
    BY <1>5
  <2>2. PICK w \in 0 .. m - 1 : w = bit * T + r
    BY <1>3, <2>1
  <2>3. x = v * m + w
    BY <1>4, <2>1, <2>2
  <2>4. x \in Int /\ v \in Int
    OBVIOUS
  <2>5. x \div m = v /\ x % m = w
    BY ONLY <2>3, <2>4, DivUnique, m \in Nat \ {0}, w \in 0 .. m - 1
  <2> QED BY <2>1, <2>2, <2>5
<1> QED BY <1>1, <1>2, <1>6

\* The product so far, above the bits to come, is below n * n.
LEMMA ProductBound ==
  ASSUME NEW T \in Nat \ {0}, NEW k \in Nat \ {0}, NEW n \in Nat \ {0}, n = T * k,
         NEW A \in 0 .. T - 1, NEW y \in 0 .. n - 1, NEW R \in 0 .. k - 1
  PROVE  A * y * k + R \in 0 .. n * n - 1
<1>1. PICK Ak \in Nat : Ak = A * k
  OBVIOUS
<1>2. Ak + k <= n
  <2>1. (A + 1) * k <= T * k
    BY TimesMono
  <2>2. (A + 1) * k = A * k + k
    OBVIOUS
  <2> QED BY <1>1, <2>1, <2>2
<1>3. A * y * k = Ak * y
  BY <1>1
<1>4. Ak * y <= n * y
  BY <1>2, TimesMono
<1>5. PICK m \in Nat : m = n - 1
  OBVIOUS
<1>6. n * y <= n * m
  BY <1>5, TimesMono
<1>7. n * n = n * m + n
  BY <1>5
<1>8. k <= n
  BY <1>2, <1>1
<1>9. Ak * y \in Nat /\ n * y \in Nat /\ n * m \in Nat
  OBVIOUS
<1>10. Ak * y + R \in 0 .. n * n - 1
  BY <1>4, <1>6, <1>7, <1>8, <1>9
<1> QED BY <1>3, <1>10

\* The addition and the shift to the right, of what LowBit finds.
LEMMA ShiftRight ==
  ASSUME NEW T \in Nat, NEW h \in Nat, NEW y \in Nat, NEW A \in Nat, NEW v \in Nat,
         NEW bit \in {0, 1}
  PROVE  LET s == A * y * (2 * h) + (2 * v + bit)
         IN  /\ s % 2 = bit
             /\ (s + bit * (T * (2 * h)) * y) \div 2 = (bit * T + A) * y * h + v
<1> DEFINE s == A * y * (2 * h) + (2 * v + bit)
<1>1. PICK P \in Nat : P = A * y * h
  OBVIOUS
<1>2. PICK W \in Nat : W = bit * T * y * h
  OBVIOUS
<1>3. A * y * (2 * h) = 2 * P
  BY <1>1
<1>4. bit * (T * (2 * h)) * y = 2 * W
  BY <1>2
<1>5. (bit * T + A) * y * h = W + P
  BY <1>1, <1>2
<1>6. s = 2 * (P + v) + bit
  BY <1>3
<1> HIDE DEF s
<1>7. s % 2 = bit
  BY <1>6, HalfOf
<1>8. s + bit * (T * (2 * h)) * y = 2 * (P + v + W) + bit
  BY <1>4, <1>6
<1>9. (s + bit * (T * (2 * h)) * y) \div 2 = P + v + W
  <2>1. P + v + W \in Int
    OBVIOUS
  <2> QED BY <1>8, <2>1, HalfOf
<1>10. (bit * T + A) * y * h + v = P + v + W
  BY <1>5
<1> QED BY <1>7, <1>9, <1>10 DEF s

\* The bits to come are below their bound.
LEMMA QuotientBound ==
  ASSUME NEW T \in Nat \ {0}, NEW k \in Nat \ {0}, NEW x \in 0 .. T * k - 1
  PROVE  x \div T \in 0 .. k - 1 /\ x % T \in 0 .. T - 1
<1>1. x \in Nat
  OBVIOUS
<1>2. PICK R \in Nat, A \in 0 .. T - 1 : R = x \div T /\ A = x % T /\ x = R * T + A
  BY <1>1, NatDiv
<1>3. CASE R >= k
  <2>1. k * T <= R * T
    BY <1>3, TimesMono
  <2>2. k * T = T * k /\ k * T \in Nat /\ R * T \in Nat
    OBVIOUS
  <2> QED BY <1>2, <2>1, <2>2
<1>4. CASE R < k
  BY <1>2, <1>4
<1> QED BY <1>3, <1>4

\* The product of the low bits of x with y, above the bits of x still to come,
\* when k is the value of the first of those bits' places, T * k = n.
Product(T, k, x, y) == (x % T) * y * k + (x \div T)

AddedHalf(n, y, s) == (s + (s % 2) * n * y) \div 2

\* The addition and the shift to the right keep the product so far.
LEMMA ProductStep ==
  ASSUME NEW T \in Nat \ {0}, NEW h \in Nat \ {0}, NEW n \in Nat \ {0}, n = T * (2 * h),
         NEW x \in 0 .. n - 1, NEW y \in 0 .. n - 1, NEW s, s = Product(T, 2 * h, x, y)
  PROVE  s \in 0 .. n * n - 1 /\ AddedHalf(n, y, s) = Product(2 * T, h, x, y)
<1>1. x \in Nat /\ y \in Nat
  OBVIOUS
<1>2. PICK v \in Nat, bit \in {0, 1}, A \in 0 .. T - 1 :
        /\ x % T = A /\ x \div T = 2 * v + bit
        /\ x % (2 * T) = bit * T + A /\ x \div (2 * T) = v
  BY <1>1, LowBit
<1>3. s = A * y * (2 * h) + (2 * v + bit)
  BY <1>2 DEF Product
<1>4. A \in Nat
  OBVIOUS
<1>5. s % 2 = bit /\ (s + bit * n * y) \div 2 = (bit * T + A) * y * h + v
  BY <1>1, <1>3, <1>4, ShiftRight
<1>6. 2 * h \in Nat \ {0}
  OBVIOUS
<1>7. x \div T \in 0 .. 2 * h - 1 /\ x % T \in 0 .. T - 1
  BY <1>6, QuotientBound
<1>8. s \in 0 .. n * n - 1
  BY <1>6, <1>7, ProductBound DEF Product
<1>9. AddedHalf(n, y, s) = (bit * T + A) * y * h + v
  BY <1>5 DEF AddedHalf
<1>10. Product(2 * T, h, x, y) = (bit * T + A) * y * h + v
  BY <1>2 DEF Product
<1> QED BY <1>8, <1>9, <1>10

-----------------------------------------------------------------------------
(* A step of the divider                                                   *)

\* The shift to the left moves a bit of the dividend under the remainder.
LEMMA ShiftLeft ==
  ASSUME NEW T \in Nat, NEW h \in Nat, NEW r \in Nat, NEW low \in Nat, NEW Q \in Nat,
         NEW bit \in {0, 1}
  PROVE  2 * (r * (T * (2 * h)) + ((bit * h + low) * T + Q))
           = (2 * r + bit) * (T * (2 * h)) + (low * (2 * T) + 2 * Q)
<1>1. PICK u \in Nat : u = r * (T * (2 * h))
  OBVIOUS
<1>2. PICK v \in Nat : v = low * T
  OBVIOUS
<1>3. PICK w \in Nat : w = bit * h * T
  OBVIOUS
<1>4. (bit * h + low) * T = w + v
  BY <1>2, <1>3
<1>5. (2 * r + bit) * (T * (2 * h)) = 2 * u + 2 * w
  <2>1. (2 * r + bit) * (T * (2 * h)) = 2 * (r * (T * (2 * h))) + bit * (T * (2 * h))
    OBVIOUS
  <2>2. bit * (T * (2 * h)) = 2 * w
    BY <1>3
  <2> QED BY <1>1, <2>1, <2>2
<1>6. low * (2 * T) = 2 * v
  BY <1>2
<1> QED BY <1>1, <1>4, <1>5, <1>6

\* A digit under a bound of digits.
LEMMA Digits ==
  ASSUME NEW low \in Nat, NEW h \in Nat, low < h, NEW T \in Nat \ {0}, NEW r \in 0 .. T - 1
  PROVE  low * T + r \in 0 .. h * T - 1
<1>1. (low + 1) * T <= h * T
  BY TimesMono
<1>2. (low + 1) * T = low * T + T
  OBVIOUS
<1>3. low * T \in Nat /\ h * T \in Nat
  OBVIOUS
<1> QED BY <1>1, <1>2, <1>3

\* A number of three digits.
LEMMA ThreeDigits ==
  ASSUME NEW h \in Nat \ {0}, NEW T \in Nat \ {0}, NEW n \in Nat, n = h * T,
         NEW R \in Nat, NEW low \in 0 .. h - 1, NEW v \in 0 .. T - 1,
         NEW z, z = R * n + (low * T + v)
  PROVE  /\ z \div n = R /\ z % n = low * T + v
         /\ (z % n) % T = v /\ (z % n) \div T = low
<1>1. low \in Nat /\ low < h
  OBVIOUS
<1>2. PICK M \in 0 .. n - 1 : M = low * T + v
  BY <1>1, Digits
<1>3. n \in Nat \ {0} /\ R \in Int
  BY <1>2
<1>4. z = R * n + M /\ z \in Int
  BY <1>2
<1>5. z \div n = R /\ z % n = M
  BY <1>3, <1>4, DivUnique
<1>6. M \in Int /\ low \in Int
  OBVIOUS
<1>7. M % T = v /\ M \div T = low
  BY <1>2, <1>6, DivUnique
<1> QED BY <1>2, <1>5, <1>7

\* s is the remainder r, the bits of x to come and the digits of the quotient,
\* when k is the value of the last bit taken, T * k = n.
Divided(n, T, k, x, y, s) ==
  LET digits == (s % n) % T
      r      == s \div n
  IN  /\ x \div k = digits * y + r
      /\ x % k = (s % n) \div T
      /\ y # 0 => r < y
      /\ y = 0 => digits = T - 1

Subtracted(n, y, s) == IF s \div n >= y THEN s - y * n + 1 ELSE s

\* What Divided says of s, as a sum.
DividedSum(n, T, k, x, y, s) ==
  \E u \in 0 .. T - 1, r \in Nat :
    /\ s = r * n + ((x % k) * T + u)
    /\ x \div k = u * y + r
    /\ y # 0 => r < y
    /\ y = 0 => u = T - 1

LEMMA DividedParts ==
  ASSUME NEW T \in Nat \ {0}, NEW k \in Nat \ {0}, NEW n \in Nat \ {0},
         NEW x \in Nat, NEW y \in Nat, NEW s \in Nat
  PROVE  Divided(n, T, k, x, y, s) => DividedSum(n, T, k, x, y, s)
<1> HAVE Divided(n, T, k, x, y, s)
<1>1. PICK r \in Nat, Q \in Nat : r = s \div n /\ Q = s % n /\ s = r * n + Q
  <2>1. s \div n \in Nat /\ s % n \in Nat /\ s = (s \div n) * n + (s % n)
    BY NatDiv
  <2> QED BY <2>1
<1>2. PICK u \in 0 .. T - 1 : u = Q % T /\ Q = (Q \div T) * T + u
  BY NatDiv
<1>3. x % k = Q \div T /\ x \div k = u * y + r /\ (y # 0 => r < y) /\ (y = 0 => u = T - 1)
  BY <1>1, <1>2 DEF Divided
<1>4. Q = (x % k) * T + u
  BY <1>2, <1>3
<1> QED BY <1>1, <1>3, <1>4 DEF DividedSum

LEMMA SumDivided ==
  ASSUME NEW T \in Nat \ {0}, NEW k \in Nat \ {0}, NEW n \in Nat, n = k * T,
         NEW x \in Nat, NEW y \in Nat, NEW s \in Nat
  PROVE  DividedSum(n, T, k, x, y, s) => Divided(n, T, k, x, y, s)
<1>1. HAVE DividedSum(n, T, k, x, y, s)
<1>2. PICK u \in 0 .. T - 1, r \in Nat :
        /\ s = r * n + ((x % k) * T + u)
        /\ x \div k = u * y + r
        /\ y # 0 => r < y
        /\ y = 0 => u = T - 1
  BY <1>1 DEF DividedSum
<1>3. PICK low \in 0 .. k - 1 : low = x % k
  BY NatDiv
<1>4. s = r * n + (low * T + u)
  BY <1>2, <1>3
<1>5. s \div n = r /\ (s % n) % T = u /\ (s % n) \div T = low
  BY <1>4, ThreeDigits
<1> QED BY <1>2, <1>3, <1>5 DEF Divided

\* The remainder with one more bit is no more than the bits taken.
LEMMA RemainderBound ==
  ASSUME NEW x \in Nat, NEW h \in Nat \ {0}, NEW w \in Nat, NEW R \in Nat, x \div h = w + R
  PROVE  R <= x
<1>1. PICK t \in Nat, e \in Nat : t = x \div h /\ x = t * h + e
  <2>1. x \div h \in Nat /\ x % h \in Nat /\ x = (x \div h) * h + (x % h)
    BY NatDiv
  <2> QED BY <2>1
<1>2. t * 1 <= t * h
  BY TimesMono
<1>3. t * h \in Nat
  OBVIOUS
<1> QED BY <1>1, <1>2, <1>3

\* The shift and the subtraction keep the quotient and the remainder so far.
LEMMA QuotientStep ==
  ASSUME NEW T \in Nat \ {0}, NEW h \in Nat \ {0}, NEW n \in Nat \ {0},
         NEW x \in 0 .. n - 1, NEW y \in 0 .. n - 1, NEW s \in Nat
  PROVE  n = T * (2 * h) /\ Divided(n, T, 2 * h, x, y, s)
           => 2 * s < n * n /\ Divided(n, 2 * T, h, x, y, Subtracted(n, y, 2 * s))
<1>1. SUFFICES ASSUME n = T * (2 * h), Divided(n, T, 2 * h, x, y, s)
               PROVE  2 * s < n * n /\ Divided(n, 2 * T, h, x, y, Subtracted(n, y, 2 * s))
  OBVIOUS
<1>2. x \in Nat /\ y \in Nat /\ 2 * T \in Nat \ {0} /\ 2 * h \in Nat \ {0} /\ x < n
  OBVIOUS
<1>3. PICK T2 \in Nat \ {0} : T2 = 2 * T
  BY <1>2
<1>31. n = h * T2
  BY <1>1, <1>3
<1>32. PICK h2 \in Nat \ {0} : h2 = 2 * h
  BY <1>2
<1>33. Divided(n, T, h2, x, y, s)
  BY <1>1, <1>32
<1>4. PICK X \in Nat, bit \in {0, 1}, low \in 0 .. h - 1 :
        /\ x % h = low /\ x \div h = 2 * X + bit
        /\ x % (2 * h) = bit * h + low /\ x \div (2 * h) = X
  BY <1>2, LowBit
<1>5. PICK u \in 0 .. T - 1, r \in Nat :
        /\ s = r * n + ((x % (2 * h)) * T + u)
        /\ x \div (2 * h) = u * y + r
        /\ y # 0 => r < y
        /\ y = 0 => u = T - 1
  <2> HIDE <1>1
  <2>0. x \in Nat /\ y \in Nat
    BY <1>2
  <2>1. DividedSum(n, T, h2, x, y, s)
    BY <1>33, <2>0, DividedParts
  <2> QED BY <1>32, <2>1 DEF DividedSum
<1>6. PICK R \in Nat : R = 2 * r + bit
  OBVIOUS
<1>7. u \in Nat /\ low \in Nat /\ low < h
  OBVIOUS
<1>8. PICK M \in Nat : M = low * T2
  BY <1>3, <1>7
<1>9. 2 * s = R * n + (M + 2 * u)
  <2>1. s = r * (T * (2 * h)) + ((bit * h + low) * T + u)
    BY <1>1, <1>4, <1>5
  <2> HIDE <1>1
  <2>2. 2 * s = (2 * r + bit) * (T * (2 * h)) + (low * (2 * T) + 2 * u)
    BY <1>7, <2>1, ShiftLeft
  <2> QED BY <1>1, <1>3, <1>6, <1>8, <2>2
<1>10. PICK uy \in Nat : uy = u * y
  BY <1>2, <1>7
<1>11. X = uy + r
  BY <1>4, <1>5, <1>10
<1>12. (2 * u) * y = 2 * uy /\ (2 * u + 1) * y = 2 * uy + y
  BY <1>2, <1>7, <1>10
<1>13. x \div h = 2 * uy + R
  BY <1>4, <1>6, <1>11
<1>14. R < n
  <2>1. 2 * uy \in Nat
    OBVIOUS
  <2>2. R <= x
    BY <1>2, <1>13, <2>1, RemainderBound
  <2> QED BY <1>2, <2>2
<1>15. 2 * u \in 0 .. T2 - 1 /\ 2 * u + 1 \in 0 .. T2 - 1
  BY <1>3
<1>16. (2 * s) \div n = R /\ 2 * s \in Nat
  BY <1>2, <1>31, <1>8, <1>9, <1>15, ThreeDigits
<1>17. 2 * s < n * n
  <2>1. M + 2 * u \in 0 .. n - 1
    BY <1>2, <1>31, <1>7, <1>8, <1>15, Digits
  <2>2. R * n + (M + 2 * u) \in 0 .. n * n - 1
    BY <1>14, <2>1, Digits
  <2>3. n * n \in Nat
    OBVIOUS
  <2> QED BY <1>9, <2>2, <2>3
<1> DEFINE z == Subtracted(n, y, 2 * s)
<1>18. CASE R >= y
  <2>1. PICK S \in Nat : S = R - y
    BY <1>2, <1>18
  <2>2. z = 2 * s - y * n + 1
    BY <1>16, <1>18 DEF Subtracted
  <2>3. R * n - y * n = S * n
    BY <1>2, <2>1
  <2>4. R * n \in Nat /\ y * n \in Nat
    BY <1>2
  <2>5. z = S * n + (M + (2 * u + 1))
    BY <1>9, <2>2, <2>3, <2>4
  <2>7. x \div h = (2 * u + 1) * y + S
    BY <1>2, <1>12, <1>13, <2>1
  <2>8. y # 0 => S < y
    BY <1>2, <1>5, <1>6, <2>1
  <2>9. y = 0 => 2 * u + 1 = 2 * T - 1
    BY <1>5
  <2> HIDE DEF z
  <2>6. PICK v \in 0 .. T2 - 1 : v = 2 * u + 1
    BY <1>15
  <2>10. DividedSum(n, T2, h, x, y, z)
    <3>1. z = S * n + ((x % h) * T2 + v)
      BY <1>4, <1>8, <2>5, <2>6
    <3>2. x \div h = v * y + S
      BY <2>6, <2>7
    <3>3. y = 0 => v = T2 - 1
      BY <1>3, <2>6, <2>9
    <3> QED BY <2>8, <3>1, <3>2, <3>3 DEF DividedSum
  <2>11. z \in Nat
    BY <1>8, <2>5, S * n \in Nat
  <2>12. Divided(n, T2, h, x, y, z)
    BY <1>2, <1>31, <2>10, <2>11, SumDivided
  <2> QED BY <1>3, <1>17, <2>12 DEF z
<1>19. CASE R < y
  <2>1. z = 2 * s
    BY <1>2, <1>16, <1>19 DEF Subtracted
  <2>2. z = R * n + (M + 2 * u)
    BY <1>9, <2>1
  <2> HIDE DEF z
  <2>3. PICK v \in 0 .. T2 - 1 : v = 2 * u
    BY <1>15
  <2>4. DividedSum(n, T2, h, x, y, z)
    <3>1. z = R * n + ((x % h) * T2 + v)
      BY <1>4, <1>8, <2>2, <2>3
    <3>2. x \div h = v * y + R
      BY <1>12, <1>13, <2>3
    <3>3. y # 0
      BY <1>19
    <3> QED BY <1>19, <3>1, <3>2, <3>3 DEF DividedSum
  <2>5. z \in Nat
    BY <2>1
  <2>6. Divided(n, T2, h, x, y, z)
    BY <1>2, <1>31, <2>4, <2>5, SumDivided
  <2> QED BY <1>3, <1>17, <2>6 DEF z
<1> QED BY <1>2, <1>18, <1>19

-----------------------------------------------------------------------------
(* The units                                                               *)

\* A multiplier at work: the product so far.
Multiplying ==
  /\ MUL_valid /\ b_ = b
  /\ mcount \in 1 .. N /\ N % mcount = 0
  /\ p = Product(N \div mcount, mcount, a, b)

\* A divider at work: the remainder and the quotient so far.
Dividing ==
  /\ DIV_valid /\ d = abs(b)
  /\ dcount \in 1 .. N /\ N % dcount = 0
  /\ Divided(N, N \div dcount, dcount, abs(a), d, q)

AluInv ==
  /\ TypeOK
  /\ mstate = "DOING" => Multiplying
  /\ dstate = "DOING" => Dividing

LEMMA LowHalf ==
  ASSUME NEW x \in Int
  PROVE  lo(x) \in 0 .. H - 1 /\ lo(x) \in U64
<1>1. lo(x) \in 0 .. H - 1
  <2>1. H \in Nat \ {0}
    BY Widths
  <2> QED BY <2>1, DivFacts DEF lo
<1> QED BY <1>1, Widths DEF U64

LEMMA NegType ==
  ASSUME NEW x \in Int
  PROVE  Neg(x) \in U64
<1>1. N - x \in Int /\ N \in Nat \ {0}
  BY Widths
<1> QED BY <1>1, DivFacts DEF Neg, U64

LEMMA AbsType ==
  ASSUME NEW x \in U64
  PROVE  abs(x) \in U64
<1>1. x \in Int
  BY Widths DEF U64
<1>2. lo(x) \in 0 .. H - 1 /\ lo(x) \in U64 /\ Neg(x) \in U64
  BY <1>1, LowHalf, NegType
<1>3. (H - lo(x)) % H \in U64
  <2>1. (H - lo(x)) % H \in 0 .. H - 1
    <3>1. H \in Nat \ {0} /\ H - lo(x) \in Int
      BY <1>2, Widths
    <3> QED BY <3>1, DivFacts
  <2> QED BY <2>1, Widths DEF U64
<1> QED BY <1>2, <1>3, Zenon DEF abs

LEMMA AddShiftIs ==
  ASSUME p \in 0 .. N * N - 1, b_ \in U64
  PROVE  addShift = AddedHalf(N, b_, p)
<1>1. p \in Nat /\ b_ \in Nat /\ N \in Nat \ {0} /\ p < N * N
  BY Widths DEF U64
<1>2. PICK P \in Nat, M \in Nat : P = p \div N /\ M = p % N /\ p = P * N + M
  <2>1. p \div N \in Nat /\ p % N \in Nat /\ p = (p \div N) * N + (p % N)
    BY <1>1, NatDiv
  <2> QED BY <2>1
<1>3. P \in 0 .. N - 1
  BY <1>1, <1>2, QuotientBound
<1>4. P % N = P
  BY <1>1, <1>3, ModSmall
<1>5. CASE p % 2 = 1
  <2>1. addShift = ((P + b_) * N + M) \div 2
    BY <1>2, <1>4, <1>5 DEF addShift
  <2>2. (P + b_) * N + M = p + 1 * N * b_
    BY <1>1, <1>2
  <2> QED BY <1>5, <2>1, <2>2 DEF AddedHalf
<1>6. CASE p % 2 = 0
  <2>1. addShift = (P * N + M) \div 2
    BY <1>2, <1>6 DEF addShift
  <2>2. 0 * N * b_ = 0
    BY <1>1
  <2> QED BY <1>1, <1>2, <1>6, <2>1, <2>2 DEF AddedHalf
<1> QED BY <1>1, <1>5, <1>6

\* The multiplier's registers after a cycle.
LEMMA MultInvariant ==
  ASSUME AluInv, MultCycle, StageE
  PROVE  /\ mstate' \in {"INIT", "DOING"} /\ mcount' \in 0 .. N
         /\ p' \in 0 .. 2 * N * N - 1 /\ b_' \in U64
         /\ mstate' = "DOING" => Multiplying'
<1>1. /\ a \in U64 /\ b \in U64 /\ b_ \in U64
      /\ mstate \in {"INIT", "DOING"} /\ mcount \in 0 .. N
      /\ mstate = "DOING" => Multiplying
  BY DEF AluInv, TypeOK
<1>2. /\ N \in Nat \ {0} /\ N >= 2 /\ a \in 0 .. N - 1 /\ b \in 0 .. N - 1
      /\ 0 \in 0 .. N /\ N \in 1 .. N /\ N \in 0 .. N /\ U64 = 0 .. N - 1
  BY <1>1, Widths DEF U64
<1>3. PICK n2 \in Nat : n2 = N * N
  BY <1>2
<1>4. n2 >= N
  BY <1>2, <1>3, N * 1 <= N * N, TimesMono
<1>5. 2 * N * N = 2 * n2
  BY <1>2, <1>3
<1>6. CASE ~MUL_valid
  BY <1>1, <1>2, <1>4, <1>5, <1>6 DEF MultCycle, State0
<1>7. CASE MUL_valid /\ mstate = "INIT"
  <2>1. mstate' = "DOING" /\ mcount' = N /\ p' = a /\ b_' = b
    BY <1>7 DEF MultCycle, state_nxt, count_nxt, Delay
  <2>2. UNCHANGED inputs
    BY <1>7 DEF StageE, stallE_mult, done, state_nxt
  <2>3. a' = a /\ b' = b /\ MUL_valid'
    BY <1>7, <2>2 DEF inputs, MUL_valid
  <2>4. N % N = 0 /\ N \div N = 1
    BY <1>2, N = 1 * N + 0, DivUnique
  <2>5. a % 1 = 0 /\ a \div 1 = a
    BY <1>2, a = a * 1 + 0, DivUnique
  <2>6. a = Product(N \div N, N, a, b)
    BY <1>2, <2>4, <2>5 DEF Product
  <2>7. Multiplying'
    BY <1>2, <2>1, <2>3, <2>4, <2>6 DEF Multiplying
  <2> QED BY <1>1, <1>2, <1>4, <1>5, <2>1, <2>7
<1>8. CASE MUL_valid /\ mstate = "DOING"
  <2>1. Multiplying
    BY <1>1, <1>8
  <2>2. mcount' = mcount \div 2 /\ p' = addShift /\ b_' = b_
        /\ mstate' = IF mcount \div 2 = 0 THEN "INIT" ELSE "DOING"
    BY <1>8 DEF MultCycle, state_nxt, count_nxt
  <2>3. CASE mcount = 1
    <3>1. mcount' = 0 /\ mstate' = "INIT"
      BY <2>2, <2>3
    <3>2. N \div 1 = N /\ a % N = a /\ a \div N = 0
      BY <1>2, N = N * 1 + 0, DivUnique, ModSmall
    <3>3. p = a * b
      BY <1>2, <2>1, <2>3, <3>2 DEF Multiplying, Product
    <3>4. p \in 0 .. N * N - 1
      <4>1. a * b * 1 + 0 \in 0 .. N * N - 1
        <5>1. N = N * 1 /\ 0 \in 0 .. 1 - 1
          BY <1>2
        <5> QED BY <1>2, <5>1, ProductBound
      <4> QED BY <1>2, <3>3, <4>1
    <3>5. p' = (p + (p % 2) * N * b) \div 2
      BY <1>1, <2>1, <2>2, <3>4, AddShiftIs DEF Multiplying, AddedHalf
    <3>6. p' \in 0 .. 2 * N * N - 1
      <4>1. (p % 2) * N * b \in 0 .. n2
        <5>1. N * b <= N * N
          BY <1>2, TimesMono
        <5>2. p % 2 \in {0, 1}
          BY <3>4
        <5>3. 0 * N * b = 0 /\ 1 * N * b = N * b /\ N * b \in Nat
          BY <1>2
        <5> QED BY <1>3, <5>1, <5>2, <5>3
      <4>2. p \in Nat /\ p < n2
        BY <1>3, <3>4
      <4> QED BY <1>5, <3>5, <4>1, <4>2
    <3> QED BY <1>1, <1>2, <2>2, <3>1, <3>6
  <2>4. CASE mcount # 1
    <3>1. PICK h \in 1 .. N, T \in 1 .. N :
            /\ mcount = 2 * h /\ mcount \div 2 = h /\ N % h = 0
            /\ N = T * (2 * h) /\ N \div mcount = T /\ N \div h = 2 * T
      BY <2>1, <2>4, Halved DEF Multiplying
    <3>2. mcount' = h /\ mstate' = "DOING"
      BY <1>2, <2>2, <3>1
    <3>3. UNCHANGED inputs
      BY <1>2, <1>8, <3>1 DEF StageE, stallE_mult, done, state_nxt, count_nxt
    <3>4. a' = a /\ b' = b /\ MUL_valid'
      BY <1>8, <3>3 DEF inputs, MUL_valid
    <3>5. p = Product(T, 2 * h, a, b)
      BY <2>1, <3>1 DEF Multiplying
    <3>6. T \in Nat \ {0} /\ h \in Nat \ {0}
      BY <1>2
    <3>7. p \in 0 .. N * N - 1 /\ AddedHalf(N, b, p) = Product(2 * T, h, a, b)
      <4>1. N = T * (2 * h)
        BY <3>1
      <4>2. N \in Nat \ {0} /\ a \in 0 .. N - 1 /\ b \in 0 .. N - 1
        BY <1>2
      <4>3. p \in 0 .. N * N - 1
        BY <3>5, <3>6, <4>1, <4>2, ProductStep
      <4>4. AddedHalf(N, b, p) = Product(2 * T, h, a, b)
        BY <3>5, <3>6, <4>1, <4>2, ProductStep
      <4> QED BY <4>3, <4>4
    <3>8. p' = Product(2 * T, h, a, b)
      BY <1>1, <2>1, <2>2, <3>7, AddShiftIs DEF Multiplying
    <3>9. Multiplying'
      <4>1. b_' = b' /\ mcount' \in 1 .. N /\ N % mcount' = 0
        BY <2>1, <2>2, <3>1, <3>2, <3>4 DEF Multiplying
      <4>2. p' = Product(N \div mcount', mcount', a', b')
        BY <3>1, <3>2, <3>4, <3>8
      <4> QED BY <3>4, <4>1, <4>2 DEF Multiplying
    <3>10. p' \in 0 .. 2 * N * N - 1
      <4>1. 2 * T \in Nat \ {0} /\ N = (2 * T) * h
        BY <3>1, <3>6
      <4>2. a \div (2 * T) \in 0 .. h - 1 /\ a % (2 * T) \in 0 .. (2 * T) - 1
        BY <1>2, <3>6, <4>1, QuotientBound
      <4>3. p' \in 0 .. N * N - 1
        BY <1>2, <3>6, <3>8, <4>1, <4>2, ProductBound DEF Product
      <4> QED BY <1>3, <1>5, <4>3
    <3> QED BY <1>1, <1>2, <2>2, <3>1, <3>2, <3>9, <3>10
  <2> QED BY <2>3, <2>4
<1> QED BY <1>1, <1>6, <1>7, <1>8

LEMMA ShiftSubtractIs ==
  ASSUME q \in Nat, 2 * q < N * N, d \in Nat
  PROVE  shiftSubtract = Subtracted(N, d, 2 * q)
<1>1. PICK n2 \in Nat \ {0} : n2 = N * N
  BY Widths, N * 1 <= N * N, TimesMono
<1>2. 2 * q \in 0 .. n2 - 1
  BY <1>1
<1>3. (2 * q) % (N * N) = 2 * q
  BY <1>1, <1>2, ModSmall
<1> QED BY <1>3 DEF shiftSubtract, Subtracted

\* The shifted register keeps its width, whatever it holds.
LEMMA ShiftSubtractType ==
  ASSUME q \in 0 .. N * N - 1, d \in U64
  PROVE  shiftSubtract \in 0 .. N * N - 1
<1>1. N \in Nat \ {0} /\ d \in Nat /\ N % 2 = 0
  BY Widths DEF U64
<1>2. PICK n2 \in Nat \ {0}, m \in Nat : n2 = N * N /\ n2 = 2 * m
  <2>1. PICK k \in Nat \ {0} : N = 2 * k
    BY Widths
  <2>2. N * N = 2 * (k * N) /\ k * N \in Nat
    BY <2>1
  <2>3. N * 1 <= N * N
    BY <1>1, TimesMono
  <2>4. PICK n2 \in Nat, m \in Nat : n2 = N * N /\ m = k * N
    BY <1>1, <2>2
  <2>5. n2 # 0
    BY <1>1, <2>3, <2>4
  <2> QED BY <2>2, <2>4, <2>5
<1>3. PICK s \in 0 .. n2 - 1 : s = (2 * q) % n2
  BY <1>2, DivFacts, 2 * q \in Int
<1>4. s % 2 = 0
  <2>1. PICK v \in Int : 2 * q = v * n2 + s
    <3>1. 2 * q \in Int
      OBVIOUS
    <3>2. (2 * q) \div n2 \in Int /\ 2 * q = ((2 * q) \div n2) * n2 + ((2 * q) % n2)
      BY <1>2, <3>1, DivFacts
    <3> QED BY <1>3, <3>2
  <2>2. PICK w \in Int : w = v * m
    BY <1>2
  <2>3. v * n2 = 2 * w
    BY <1>2, <2>2
  <2>4. s = 2 * (q - w) + 0 /\ q - w \in Int
    BY <2>1, <2>3
  <2> QED BY <2>4, HalfOf
<1>5. s + 1 \in 0 .. n2 - 1
  BY <1>2, <1>4
<1>6. shiftSubtract = IF s \div N >= d THEN s - d * N + 1 ELSE s
  BY <1>2, <1>3 DEF shiftSubtract
<1>7. CASE s \div N >= d
  <2>1. PICK u \in Nat, e \in Nat : u = s \div N /\ s = u * N + e
    <3>1. s \in Nat
      BY <1>3
    <3>2. s \div N \in Nat /\ s % N \in Nat /\ s = (s \div N) * N + (s % N)
      BY <1>1, <3>1, NatDiv
    <3> QED BY <3>2
  <2>2. d * N <= u * N
    BY <1>1, <1>7, <2>1, TimesMono
  <2>3. d * N \in Nat /\ u * N \in Nat
    BY <1>1
  <2>4. s - d * N + 1 \in 0 .. n2 - 1
    BY <1>5, <2>1, <2>2, <2>3
  <2> QED BY <1>2, <1>6, <1>7, <2>4
<1>8. CASE ~(s \div N >= d)
  BY <1>2, <1>6, <1>8
<1> QED BY <1>7, <1>8

\* The divider's registers after a cycle.
LEMMA DividInvariant ==
  ASSUME AluInv, DividCycle, StageE
  PROVE  /\ dstate' \in {"INIT", "DOING"} /\ dcount' \in 0 .. N
         /\ q' \in 0 .. N * N - 1 /\ d' \in U64
         /\ dstate' = "DOING" => Dividing'
<1>1. /\ a \in U64 /\ b \in U64 /\ d \in U64 /\ q \in 0 .. N * N - 1
      /\ dstate \in {"INIT", "DOING"} /\ dcount \in 0 .. N
      /\ dstate = "DOING" => Dividing
  BY DEF AluInv, TypeOK
<1>2. /\ N \in Nat \ {0} /\ N >= 2 /\ 0 \in 0 .. N /\ N \in 1 .. N /\ N \in 0 .. N
      /\ U64 = 0 .. N - 1
  BY Widths DEF U64
<1>3. abs(a) \in 0 .. N - 1 /\ abs(b) \in 0 .. N - 1
  BY <1>1, <1>2, AbsType
<1>4. PICK n2 \in Nat : n2 = N * N /\ n2 >= N
  BY <1>2, N * 1 <= N * N, TimesMono
<1>5. CASE ~DIV_valid
  BY <1>1, <1>2, <1>4, <1>5 DEF DividCycle, State0
<1>6. CASE DIV_valid /\ dstate = "INIT"
  <2>1. dstate' = "DOING" /\ dcount' = N /\ q' = abs(a) /\ d' = abs(b)
    BY <1>6 DEF DividCycle, state_nxt, count_nxt, Delay
  <2>2. UNCHANGED inputs
    BY <1>6 DEF StageE, stallE_mult, done, state_nxt
  <2>3. abs(a)' = abs(a) /\ abs(b)' = abs(b) /\ DIV_valid'
    BY <1>6, <2>2 DEF inputs, DIV_valid, abs, negative
  <2>4. N % N = 0 /\ N \div N = 1
    BY <1>2, N = 1 * N + 0, DivUnique
  <2>5. Divided(N, 1, N, abs(a), abs(b), abs(a))
    <3> DEFINE x == abs(a)
    <3>0. x \in 0 .. N - 1 /\ x \in Nat /\ x \in Int
      BY <1>3
    <3> HIDE DEF x
    <3>1. x % N = x /\ x \div N = 0
      BY <1>2, <3>0, ModSmall
    <3>2. x % 1 = 0 /\ x \div 1 = x
      BY <3>0, x = x * 1 + 0, DivUnique
    <3>3. 0 * abs(b) + 0 = 0 /\ (abs(b) # 0 => 0 < abs(b))
      BY <1>3
    <3>4. Divided(N, 1, N, x, abs(b), x)
      BY <1>2, <3>0, <3>1, <3>2, <3>3 DEF Divided
    <3> QED BY <3>4 DEF x
  <2>6. Dividing'
    BY <1>2, <2>1, <2>3, <2>4, <2>5 DEF Dividing
  <2>7. q' \in 0 .. N * N - 1
    BY <1>2, <1>3, <1>4, <2>1
  <2> QED BY <1>2, <1>3, <2>1, <2>6, <2>7
<1>7. CASE DIV_valid /\ dstate = "DOING"
  <2>1. Dividing
    BY <1>1, <1>7
  <2>2. dcount' = dcount \div 2 /\ q' = shiftSubtract /\ d' = d
        /\ dstate' = IF dcount \div 2 = 0 THEN "INIT" ELSE "DOING"
    BY <1>7 DEF DividCycle, state_nxt, count_nxt
  <2>3. q' \in 0 .. N * N - 1
    BY <1>1, <2>2, ShiftSubtractType
  <2>4. CASE dcount = 1
    <3>1. dcount' = 0 /\ dstate' = "INIT"
      BY <2>2, <2>4
    <3> QED BY <1>1, <1>2, <2>2, <2>3, <3>1
  <2>5. CASE dcount # 1
    <3>1. PICK h \in 1 .. N, T \in 1 .. N :
            /\ dcount = 2 * h /\ dcount \div 2 = h /\ N % h = 0
            /\ N = T * (2 * h) /\ N \div dcount = T /\ N \div h = 2 * T
      BY <2>1, <2>5, Halved DEF Dividing
    <3>2. dcount' = h /\ dstate' = "DOING" /\ h \in 0 .. N
      BY <1>2, <2>2, <3>1
    <3>3. UNCHANGED inputs
      BY <1>2, <1>7, <3>1 DEF StageE, stallE_mult, done, state_nxt, count_nxt
    <3>4. abs(a)' = abs(a) /\ abs(b)' = abs(b) /\ DIV_valid'
      BY <1>7, <3>3 DEF inputs, DIV_valid, abs, negative
    <3>5. Divided(N, T, 2 * h, abs(a), d, q) /\ N = T * (2 * h)
      BY <2>1, <3>1 DEF Dividing
    <3>6. T \in Nat \ {0} /\ h \in Nat \ {0} /\ d \in 0 .. N - 1 /\ q \in Nat
      BY <1>1, <1>2
    <3>7. 2 * q < N * N
      BY <1>2, <1>3, <3>5, <3>6, QuotientStep
    <3>8. Divided(N, 2 * T, h, abs(a), d, Subtracted(N, d, 2 * q))
      BY <1>2, <1>3, <3>5, <3>6, QuotientStep
    <3>9. q' = Subtracted(N, d, 2 * q)
      BY <2>2, <3>6, <3>7, ShiftSubtractIs
    <3>10. Dividing'
      <4>1. d' = abs(b)' /\ dcount' \in 1 .. N /\ N % dcount' = 0
        BY <2>1, <2>2, <3>1, <3>2, <3>4 DEF Dividing
      <4>2. Divided(N, N \div dcount', dcount', abs(a)', d', q')
        BY <2>2, <3>1, <3>2, <3>4, <3>8, <3>9
      <4> QED BY <3>4, <4>1, <4>2 DEF Dividing
    <3> QED BY <1>1, <1>2, <2>2, <2>3, <3>2, <3>10
  <2> QED BY <2>4, <2>5
<1> QED BY <1>1, <1>5, <1>6, <1>7

-----------------------------------------------------------------------------
(* The results                                                             *)

LEMMA LowOfMod ==
  ASSUME NEW x \in Int
  PROVE  (x % N) % H = x % H
<1>1. H \in Nat \ {0} /\ N = H * H
  BY Widths
<1>2. (x % (H * H)) % H = x % H
  BY <1>1, ModMod
<1> QED BY <1>1, <1>2

LEMMA NegIs ==
  ASSUME NEW x \in Int
  PROVE  Neg(x) = (-x) % N
<1>1. PICK y \in Int, k \in Int : y = -x /\ k = 1
  OBVIOUS
<1>2. N \in Nat \ {0} /\ N - x = y + k * N
  BY <1>1, Widths
<1>3. (y + k * N) % N = y % N
  BY <1>2, ModShift
<1> QED BY <1>1, <1>2, <1>3 DEF Neg

\* Only the low half counts.
LEMMA SextOf ==
  ASSUME NEW x, NEW y, x % H = y % H
  PROVE  sext(x) = sext(y)
  BY DEF sext, lo

\* Q and r are quotient and remainder of A by B.
Euclid(A, B, Q, r) == A = Q * B + r /\ r < B

\* x has the magnitude A.
Signed(x, A) == x = A \/ (x = -A /\ A # 0)

\* The manual's quotient and remainder, of numbers given by sign and magnitude.
LEMMA SignMagnitude ==
  ASSUME NEW A \in Nat, NEW B \in Nat \ {0}, NEW Q \in Nat, NEW r \in Nat,
         Euclid(A, B, Q, r), NEW x \in Int, NEW y \in Int, Signed(x, A), Signed(y, B)
  PROVE  /\ DivBy(x, y) = IF x = A <=> y = B THEN Q ELSE -Q
         /\ RemBy(x, y) = IF x = A THEN r ELSE -r
<1>0. A = Q * B + r /\ r < B /\ (x = A \/ (x = -A /\ A # 0)) /\ (y = B \/ y = -B)
  BY DEF Euclid, Signed
<1>1. A \div B = Q
  BY <1>0, DivUnique, r \in 0 .. B - 1
<1>2. Magnitude(x) = A /\ Magnitude(y) = B /\ y # 0
  BY <1>0 DEF Magnitude
<1>3. (x < 0) <=> ~(x = A)
  BY <1>0
<1>4. (y < 0) <=> ~(y = B)
  BY <1>0
<1>5. PICK qb \in Nat : qb = Q * B /\ A = qb + r
  BY <1>0
<1>6. CASE x = A /\ y = B
  <2>1. Div(x, y) = Q
    BY <1>0, <1>1, <1>2, <1>3, <1>4, <1>6 DEF Div
  <2>2. y * Div(x, y) = qb
    BY <1>0, <1>5, <1>6, <2>1
  <2> QED BY <1>0, <1>2, <1>5, <1>6, <2>1, <2>2 DEF DivBy, RemBy
<1>7. CASE x = A /\ y # B
  <2>1. Div(x, y) = -Q
    BY <1>0, <1>1, <1>2, <1>3, <1>4, <1>7 DEF Div
  <2>2. y * Div(x, y) = qb
    <3>1. (-B) * (-Q) = Q * B
      OBVIOUS
    <3> QED BY <1>0, <1>5, <1>7, <2>1, <3>1
  <2> QED BY <1>0, <1>2, <1>5, <1>7, <2>1, <2>2 DEF DivBy, RemBy
<1>8. CASE x # A /\ y = B
  <2>1. Div(x, y) = -Q
    BY <1>0, <1>1, <1>2, <1>3, <1>4, <1>8 DEF Div
  <2>2. y * Div(x, y) = -qb
    BY <1>0, <1>5, <1>8, <2>1
  <2> QED BY <1>0, <1>2, <1>5, <1>8, <2>1, <2>2 DEF DivBy, RemBy
<1>9. CASE x # A /\ y # B
  <2>1. Div(x, y) = Q
    BY <1>0, <1>1, <1>2, <1>3, <1>4, <1>9 DEF Div
  <2>2. y * Div(x, y) = -qb
    BY <1>0, <1>5, <1>9, <2>1
  <2> QED BY <1>0, <1>2, <1>5, <1>9, <2>1, <2>2 DEF DivBy, RemBy
<1> QED BY <1>6, <1>7, <1>8, <1>9

\* What a division is of.
value(x) ==
  CASE alufunc \in {"DIV", "REM"}   -> signed(x)
    [] alufunc \in {"DIVW", "REMW"} -> signedW(x)
    [] alufunc \in {"DIVU", "REMU"} -> x
    [] OTHER                        -> lo(x)

LEMMA ValueIs ==
  ASSUME NEW x \in U64, alufunc \in DivOps
  PROVE  /\ value(x) \in Int
         /\ negative(x) => value(x) = -abs(x) /\ abs(x) # 0
         /\ ~negative(x) => value(x) = abs(x)
<1>1. PICK h \in Nat \ {0}, n \in Nat \ {0} :
        H = 2 * h /\ H \div 2 = h /\ N = 2 * n /\ N \div 2 = n
  BY Widths
<1>2. x \in 0 .. N - 1
  BY DEF U64
<1>3. lo(x) \in 0 .. H - 1
  BY <1>1, <1>2, LowHalf
<1>4. CASE alufunc \in {"DIV", "REM"}
  <2>1. alufunc \in SignedOps /\ alufunc \notin WordOps
    BY <1>4 DEF SignedOps, WordOps
  <2>2. negative(x) <=> x >= n
    BY <1>1, <2>1 DEF negative, Top
  <2>3. value(x) = IF x >= n THEN x - N ELSE x
    BY <1>1, <1>4 DEF value, signed, Top
  <2>4. CASE x >= n
    <3>1. Neg(x) = N - x
      BY <1>1, <1>2, <2>4, N - x \in 0 .. N - 1, ModSmall DEF Neg
    <3>2. abs(x) = N - x
      BY <2>1, <2>2, <2>4, <3>1 DEF abs
    <3> QED BY <1>1, <1>2, <2>2, <2>3, <2>4, <3>2
  <2>5. CASE ~(x >= n)
    <3>1. abs(x) = x
      BY <2>1, <2>2, <2>5 DEF abs
    <3> QED BY <1>2, <2>2, <2>3, <2>5, <3>1
  <2> QED BY <2>4, <2>5
<1>5. CASE alufunc \in {"DIVW", "REMW"}
  <2>1. alufunc \in SignedOps /\ alufunc \in WordOps
    BY <1>5 DEF SignedOps, WordOps
  <2>2. negative(x) <=> lo(x) >= h
    BY <1>1, <2>1 DEF negative, TopW
  <2>3. value(x) = IF lo(x) >= h THEN lo(x) - H ELSE lo(x)
    BY <1>1, <1>5 DEF value, signedW, TopW
  <2>4. CASE lo(x) >= h
    <3>1. (H - lo(x)) % H = H - lo(x)
      BY <1>1, <1>3, <2>4, H - lo(x) \in 0 .. H - 1, ModSmall
    <3>2. abs(x) = H - lo(x)
      BY <2>1, <2>2, <2>4, <3>1 DEF abs
    <3> QED BY <1>1, <1>3, <2>2, <2>3, <2>4, <3>2
  <2>5. CASE ~(lo(x) >= h)
    <3>1. abs(x) = lo(x)
      BY <2>1, <2>2, <2>5 DEF abs
    <3> QED BY <1>3, <2>2, <2>3, <2>5, <3>1
  <2> QED BY <2>4, <2>5
<1>6. CASE alufunc \in {"DIVU", "REMU"}
  <2>1. alufunc \notin SignedOps /\ alufunc \notin WordOps
    BY <1>6 DEF SignedOps, WordOps
  <2>2. ~negative(x) /\ abs(x) = x
    BY <2>1 DEF negative, abs
  <2>3. value(x) = x
    BY <1>6 DEF value
  <2> QED BY <1>2, <2>2, <2>3
<1>7. CASE alufunc \in {"DIVUW", "REMUW"}
  <2>1. alufunc \notin SignedOps /\ alufunc \in WordOps
    BY <1>7 DEF SignedOps, WordOps
  <2>2. ~negative(x) /\ abs(x) = lo(x)
    BY <2>1 DEF negative, abs
  <2>3. value(x) = lo(x)
    BY <1>7 DEF value
  <2> QED BY <1>3, <2>2, <2>3
<1> QED BY <1>4, <1>5, <1>6, <1>7 DEF DivOps

\* A division that is done.
LEMMA Quotient ==
  ASSUME AluInv, ~stallE_mult, DIV_valid
  PROVE  /\ quotient \in 0 .. N - 1 /\ remainder \in Nat /\ d = abs(b)
         /\ abs(a) = quotient * d + remainder
         /\ d # 0 => remainder < d
         /\ d = 0 => quotient = N - 1
<1>1. dstate \in {"INIT", "DOING"} /\ dcount \in 0 .. N /\ q \in Nat /\ a \in U64 /\ d \in U64
  BY Widths DEF AluInv, TypeOK
<1>2. dstate = "DOING" /\ dcount \div 2 = 0
  BY <1>1 DEF stallE_mult, done, state_nxt, count_nxt
<1>3. Dividing
  BY <1>2 DEF AluInv
<1>4. dcount = 1 /\ d = abs(b)
  BY <1>2, <1>3, Widths DEF Dividing
<1>5. N \in Nat \ {0} /\ abs(a) \in Nat /\ d \in Nat
  BY <1>1, Widths, AbsType DEF U64
<1>6. N \div 1 = N
  BY <1>5, N = N * 1 + 0, DivUnique
<1>7. Divided(N, N, 1, abs(a), d, q)
  BY <1>3, <1>4, <1>6 DEF Dividing
<1>8. quotient \in 0 .. N - 1 /\ remainder \in Nat
  BY <1>1, <1>5, NatDiv DEF quotient, remainder
<1>9. quotient % N = quotient
  BY <1>5, <1>8, ModSmall
<1>10. abs(a) \div 1 = abs(a)
  BY <1>5, abs(a) = abs(a) * 1 + 0, DivUnique
<1> QED BY <1>4, <1>7, <1>8, <1>9, <1>10 DEF Divided, quotient, remainder

\* The divider's result is the manual's, for what the operation divides.
LEMMA DividedRight ==
  ASSUME AluInv, ~stallE_mult, DIV_valid, value(b) # 0
  PROVE  /\ dividResult \in U64
         /\ alufunc \in {"DIV", "DIVU", "DIVW", "DIVUW"}
              => dividResult = DivBy(value(a), value(b)) % N
         /\ alufunc \in {"REM", "REMU", "REMW", "REMUW"}
              => dividResult = RemBy(value(a), value(b)) % N
         /\ ~negative(a) => RemBy(value(a), value(b)) \in U64
<1>1. alufunc \in DivOps /\ a \in U64 /\ b \in U64
  BY DEF AluInv, TypeOK, DIV_valid
<1>2. PICK A \in U64, B \in U64 : A = abs(a) /\ B = abs(b)
  BY <1>1, AbsType
<1>3. PICK x \in Int, y \in Int : x = value(a) /\ y = value(b)
  BY <1>1, ValueIs
<1>4. /\ negative(a) => x = -A /\ A # 0
      /\ ~negative(a) => x = A
      /\ negative(b) => y = -B /\ B # 0
      /\ ~negative(b) => y = B
  BY <1>1, <1>2, <1>3, ValueIs
<1>5. A \in Nat /\ B \in Nat \ {0} /\ N \in Nat \ {0}
  BY <1>3, <1>4, Widths DEF U64
<1>6. PICK Q \in 0 .. N - 1, r \in 0 .. N - 1 :
        Q = quotient /\ r = remainder /\ A = Q * B + r /\ r < B
  <2>1. quotient \in 0 .. N - 1 /\ remainder \in Nat /\ A = quotient * B + remainder
        /\ remainder < B
    BY <1>2, <1>5, Quotient
  <2>2. B < N
    BY <1>5 DEF U64
  <2>3. remainder \in 0 .. N - 1
    BY <1>5, <2>1, <2>2
  <2> QED BY <2>1, <2>3
<1>7. (x = A <=> ~negative(a)) /\ (y = B <=> ~negative(b))
  BY <1>4, <1>5
<1>8. /\ DivBy(x, y) = IF x = A <=> y = B THEN Q ELSE -Q
      /\ RemBy(x, y) = IF x = A THEN r ELSE -r
  <2>1. Q \in Nat /\ r \in Nat
    BY <1>5
  <2>4. Signed(x, A) /\ Signed(y, B)
    BY <1>4, <1>5 DEF Signed
  <2>5. Euclid(A, B, Q, r)
    BY <1>6 DEF Euclid
  <2>2. DivBy(x, y) = IF x = A <=> y = B THEN Q ELSE -Q
    BY <1>5, <2>1, <2>4, <2>5, SignMagnitude
  <2>3. RemBy(x, y) = IF x = A THEN r ELSE -r
    BY <1>5, <2>1, <2>4, <2>5, SignMagnitude
  <2> QED BY <2>2, <2>3
<1>9. Q % N = Q /\ r % N = r
  BY <1>5, ModSmall
<1>10. Neg(Q) = (-Q) % N /\ Neg(r) = (-r) % N /\ Neg(Q) \in U64 /\ Neg(r) \in U64
  BY NegIs, NegType
<1>11. Q \in U64 /\ r \in U64
  BY DEF U64
<1>12. ~negative(a) => RemBy(value(a), value(b)) \in U64
  BY <1>3, <1>7, <1>8, <1>11
<1>13. CASE alufunc \in {"DIV", "DIVU", "DIVW", "DIVUW"}
  <2>1. dividResult = IF negative(a) # negative(b) THEN Neg(Q) ELSE Q
    BY <1>6, <1>13 DEF dividResult
  <2>2. negative(a) \in BOOLEAN /\ negative(b) \in BOOLEAN
    BY DEF negative
  <2>3. CASE negative(a) = TRUE /\ negative(b) = TRUE
    <3>1. DivBy(x, y) = Q
      BY <1>7, <1>8, <2>3
    <3> QED BY <1>12, <1>3, <1>9, <1>11, <1>13, <2>1, <2>3, <3>1
  <2>4. CASE negative(a) = TRUE /\ negative(b) = FALSE
    <3>1. DivBy(x, y) = -Q
      BY <1>7, <1>8, <2>4
    <3> QED BY <1>12, <1>3, <1>10, <1>13, <2>1, <2>4, <3>1
  <2>5. CASE negative(a) = FALSE /\ negative(b) = TRUE
    <3>1. DivBy(x, y) = -Q
      BY <1>7, <1>8, <2>5
    <3> QED BY <1>12, <1>3, <1>10, <1>13, <2>1, <2>5, <3>1
  <2>6. CASE negative(a) = FALSE /\ negative(b) = FALSE
    <3>1. DivBy(x, y) = Q
      BY <1>7, <1>8, <2>6
    <3> QED BY <1>12, <1>3, <1>9, <1>11, <1>13, <2>1, <2>6, <3>1
  <2> QED BY <2>2, <2>3, <2>4, <2>5, <2>6
<1>14. CASE alufunc \notin {"DIV", "DIVU", "DIVW", "DIVUW"}
  <2>1. dividResult = IF negative(a) THEN Neg(r) ELSE r
    BY <1>6, <1>14 DEF dividResult
  <2>2. RemBy(x, y) = IF negative(a) THEN -r ELSE r
    BY <1>7, <1>8
  <2> QED BY <1>12, <1>3, <1>9, <1>10, <1>11, <1>14, <2>1, <2>2
<1> QED BY <1>13, <1>14

\* When E lets an operation go, its result is the manual's.
LEMMA ResultInvariant ==
  ASSUME AluInv
  PROVE  ResultRight
<1>1. SUFFICES ASSUME ~stallE_mult PROVE c = Manual
  BY DEF ResultRight
<1>2. alufunc \in Ops /\ a \in U64 /\ b \in U64
  BY DEF AluInv, TypeOK
<1>3. /\ N \in Nat \ {0} /\ H \in Nat \ {0} /\ H >= 2 /\ N >= 2
      /\ a \in 0 .. N - 1 /\ b \in 0 .. N - 1 /\ a \in Int /\ b \in Int
  BY <1>2, Widths DEF U64
<1>4. (N - 1) % N = N - 1 /\ (-1) % N = N - 1 /\ (-1) % H = H - 1 /\ (N - 1) % H = H - 1
  <2>1. N - 1 \in 0 .. N - 1 /\ H - 1 \in 0 .. H - 1
    BY <1>3
  <2>2. (N - 1) % N = N - 1 /\ (H - 1) % H = H - 1
    BY <1>3, <2>1, ModSmall
  <2>3. -1 = (-1) * N + (N - 1) /\ -1 = (-1) * H + (H - 1)
    BY <1>3
  <2>4. (-1) % N = N - 1 /\ (-1) % H = H - 1
    BY <1>3, <2>1, <2>3, DivUnique
  <2> QED BY <2>2, <2>4, LowOfMod, -1 \in Int
<1>5. CASE MUL_valid
  <2>1. mstate \in {"INIT", "DOING"} /\ mcount \in 0 .. N
    BY DEF AluInv, TypeOK
  <2>2. mstate = "DOING" /\ mcount \div 2 = 0
    BY <1>1, <1>5, <2>1 DEF stallE_mult, done, state_nxt, count_nxt
  <2>3. Multiplying /\ mcount = 1
    BY <1>3, <2>2 DEF AluInv, Multiplying
  <2>4. N \div 1 = N /\ a % N = a /\ a \div N = 0
    BY <1>3, N = N * 1 + 0, DivUnique, ModSmall
  <2>5. p = a * b
    BY <1>3, <2>3, <2>4 DEF Multiplying, Product
  <2>6. CASE alufunc = "MUL"
    BY <1>5, <2>5, <2>6 DEF c, Manual, WordOps
  <2>7. CASE alufunc = "MULW"
    <3>1. c = sext((a * b) % N) /\ Manual = sext(a * b)
      BY <1>5, <2>5, <2>7 DEF c, Manual, WordOps
    <3>2. a * b \in Int
      BY <1>3
    <3> QED BY <3>1, <3>2, LowOfMod, SextOf
  <2> QED BY <1>5, <2>6, <2>7 DEF MUL_valid, MulOps
<1>6. CASE alufunc = "ADD"
  BY <1>6 DEF c, Manual, WordOps, MUL_valid, MulOps, DIV_valid, DivOps, otherResult
<1>7. CASE alufunc \in DivOps
  <2>1. ~MUL_valid
    BY <1>7 DEF MUL_valid, MulOps, DivOps
  <2>2. PICK x \in Int, y \in Int : x = value(a) /\ y = value(b)
    BY <1>2, <1>7, ValueIs
  <2> DEFINE quo == DivBy(x, y)
             rem == RemBy(x, y)
  <2>3. quo \in Int /\ rem \in Int
    <3>1. CASE y = 0
      BY <3>1 DEF DivBy, RemBy
    <3>2. CASE y # 0
      <4>1. Magnitude(x) \in Nat /\ Magnitude(y) \in Nat \ {0}
        BY <3>2 DEF Magnitude
      <4>2. Magnitude(x) \div Magnitude(y) \in Int
        BY <4>1, DivFacts
      <4>3. Div(x, y) \in Int
        BY <4>2 DEF Div
      <4> QED BY <3>2, <4>3 DEF DivBy, RemBy
    <3> QED BY <3>1, <3>2
  <2>4. /\ alufunc \in {"DIV", "DIVU"} => Manual = quo % N
        /\ alufunc = "REM" => Manual = rem % N
        /\ alufunc = "REMU" => Manual = rem
        /\ alufunc \in {"DIVW", "DIVUW"} => Manual = sext(quo % H)
        /\ alufunc = "REMW" => Manual = sext(rem % H)
        /\ alufunc = "REMUW" => Manual = sext(rem)
    BY <2>2 DEF Manual, value
  <2>5. y = 0 => quo = -1 /\ rem = x
    BY DEF DivBy, RemBy
  <2> HIDE DEF quo, rem
  <2>6. /\ lo(a) \in 0 .. H - 1 /\ lo(b) \in 0 .. H - 1
        /\ lo(a) % H = a % H /\ lo(a) = a % H
    <3>1. lo(a) \in 0 .. H - 1 /\ lo(b) \in 0 .. H - 1
      BY <1>3, LowHalf
    <3> QED BY <1>3, <3>1, ModSmall DEF lo
  <2>7. CASE DIV_valid /\ y # 0
    <3>1. /\ alufunc \in {"DIV", "DIVU", "DIVW", "DIVUW"} => dividResult = quo % N
          /\ alufunc \in {"REM", "REMU", "REMW", "REMUW"} => dividResult = rem % N
          /\ ~negative(a) => rem \in U64
      BY <1>1, <2>2, <2>7, DividedRight DEF quo, rem
    <3>2. c = IF alufunc \in WordOps THEN sext(dividResult) ELSE dividResult
      BY <2>1, <2>7 DEF c
    <3>3. (quo % N) % H = quo % H /\ (rem % N) % H = rem % H
      BY <2>3, LowOfMod
    <3>4. (quo % H) % H = quo % H /\ (rem % H) % H = rem % H
      <4>1. quo % H \in 0 .. H - 1 /\ rem % H \in 0 .. H - 1
        BY <1>3, <2>3, DivFacts
      <4> QED BY <1>3, <4>1, ModSmall
    <3>5. CASE alufunc \in {"DIV", "DIVU"}
      BY <2>4, <3>1, <3>2, <3>5 DEF WordOps
    <3>6. CASE alufunc = "REM"
      BY <2>4, <3>1, <3>2, <3>6 DEF WordOps
    <3>7. CASE alufunc = "REMU"
      <4>1. rem \in U64
        BY <3>1, <3>7 DEF negative, SignedOps
      <4>2. rem % N = rem
        BY <1>3, <4>1, ModSmall DEF U64
      <4> QED BY <2>4, <3>1, <3>2, <3>7, <4>2 DEF WordOps
    <3>8. CASE alufunc \in {"DIVW", "DIVUW"}
      <4>1. c = sext(quo % N) /\ Manual = sext(quo % H)
        BY <2>4, <3>1, <3>2, <3>8 DEF WordOps
      <4> QED BY <3>3, <3>4, <4>1, SextOf
    <3>9. CASE alufunc = "REMW"
      <4>1. c = sext(rem % N) /\ Manual = sext(rem % H)
        BY <2>4, <3>1, <3>2, <3>9 DEF WordOps
      <4> QED BY <3>3, <3>4, <4>1, SextOf
    <3>10. CASE alufunc = "REMUW"
      <4>1. c = sext(rem % N) /\ Manual = sext(rem)
        BY <2>4, <3>1, <3>2, <3>10 DEF WordOps
      <4> QED BY <3>3, <4>1, SextOf
    <3> QED BY <1>7, <3>5, <3>6, <3>7, <3>8, <3>9, <3>10 DEF DivOps
  <2>8. CASE DIV_valid /\ y = 0
    <3>1. alufunc \in {"DIVUW", "REMUW"}
      <4>1. CASE alufunc \in {"DIV", "REM"}
        <5>1. b # 0 /\ y = signed(b)
          BY <2>2, <2>8, <4>1 DEF DIV_valid, value
        <5> QED BY <1>3, <2>8, <5>1 DEF signed
      <4>2. CASE alufunc \in {"DIVW", "REMW"}
        <5>1. lo(b) # 0 /\ y = signedW(b)
          BY <2>2, <2>8, <4>2 DEF DIV_valid, value
        <5> QED BY <1>3, <2>6, <2>8, <5>1 DEF signedW
      <4>3. CASE alufunc \in {"DIVU", "REMU"}
        BY <2>2, <2>8, <4>3 DEF DIV_valid, value
      <4> QED BY <1>7, <4>1, <4>2, <4>3 DEF DivOps
    <3>2. negative(a) = FALSE /\ negative(b) = FALSE /\ abs(a) = lo(a) /\ abs(b) = lo(b)
      BY <3>1 DEF negative, SignedOps, WordOps, abs
    <3>3. x = lo(a) /\ y = lo(b)
      BY <2>2, <3>1 DEF value
    <3>4. quotient = N - 1 /\ remainder = lo(a)
      <4>1. d = 0 /\ quotient = N - 1 /\ lo(a) = quotient * d + remainder /\ remainder \in Nat
        BY <1>1, <2>8, <3>2, <3>3, Quotient
      <4> QED BY <1>3, <4>1
    <3>5. CASE alufunc = "DIVUW"
      <4>1. dividResult = N - 1
        BY <3>2, <3>4, <3>5 DEF dividResult
      <4>2. c = sext(N - 1)
        BY <2>1, <2>8, <3>5, <4>1 DEF c, WordOps
      <4>3. Manual = sext((-1) % H)
        BY <2>4, <2>5, <2>8, <3>5
      <4>4. (N - 1) % H = ((-1) % H) % H
        BY <1>3, <1>4, H - 1 \in 0 .. H - 1, ModSmall
      <4> QED BY <4>2, <4>3, <4>4, SextOf
    <3>6. CASE alufunc = "REMUW"
      <4>1. dividResult = lo(a)
        BY <3>2, <3>4, <3>6 DEF dividResult
      <4>2. c = sext(lo(a))
        BY <2>1, <2>8, <3>6, <4>1 DEF c, WordOps
      <4> QED BY <2>4, <2>5, <2>8, <3>3, <3>6, <4>2
    <3> QED BY <3>1, <3>5, <3>6
  <2>9. CASE ~DIV_valid
    <3>1. y = 0
      <4>1. CASE alufunc \in {"DIVW", "REMW"}
        <5>1. lo(b) = 0 /\ y = signedW(b)
          BY <2>2, <2>9, <4>1 DEF DIV_valid, DivOps, value
        <5>2. ~TopW(b)
          BY <1>3, <5>1 DEF TopW
        <5> QED BY <5>1, <5>2 DEF signedW
      <4>2. CASE alufunc \notin {"DIVW", "REMW"}
        <5>1. b = 0
          BY <1>7, <2>9, <4>2 DEF DIV_valid
        <5>2. ~Top(b) /\ lo(b) = 0
          BY <1>3, <5>1, 0 \in 0 .. H - 1, ModSmall DEF Top, lo
        <5> QED BY <1>7, <2>2, <4>2, <5>1, <5>2 DEF value, signed
      <4> QED BY <4>1, <4>2
    <3>2. quo = -1 /\ rem = x
      BY <2>5, <3>1
    <3>3. c = IF alufunc \in WordOps THEN sext(otherResult) ELSE otherResult
      BY <2>1, <2>9 DEF c
    <3>4. CASE alufunc \in {"DIV", "DIVU"}
      BY <1>4, <2>4, <3>2, <3>3, <3>4 DEF otherResult, WordOps
    <3>5. CASE alufunc = "REM"
      <4>1. x = signed(a) /\ c = a /\ Manual = x % N
        BY <2>2, <2>4, <3>2, <3>3, <3>5 DEF value, otherResult, WordOps
      <4>2. x = 0 * N + a \/ x = (-1) * N + a
        BY <1>3, <4>1 DEF signed
      <4>3. x % N = a
        BY <1>3, <4>2, DivUnique
      <4> QED BY <4>1, <4>3
    <3>6. CASE alufunc = "REMU"
      BY <2>2, <2>4, <3>2, <3>3, <3>6 DEF value, otherResult, WordOps
    <3>7. CASE alufunc \in {"DIVW", "DIVUW"}
      <4>1. c = sext(N - 1) /\ Manual = sext((-1) % H)
        BY <2>4, <3>2, <3>3, <3>7 DEF otherResult, WordOps
      <4>2. (N - 1) % H = ((-1) % H) % H
        BY <1>3, <1>4, H - 1 \in 0 .. H - 1, ModSmall
      <4> QED BY <4>1, <4>2, SextOf
    <3>8. CASE alufunc = "REMW"
      <4>1. x = signedW(a) /\ c = sext(a) /\ Manual = sext(x % H)
        BY <2>2, <2>4, <3>2, <3>3, <3>8 DEF value, otherResult, WordOps
      <4>2. x = 0 * H + lo(a) \/ x = (-1) * H + lo(a)
        BY <1>3, <2>6, <4>1 DEF signedW
      <4>3. PICK k \in Int, r \in 0 .. H - 1 : x = k * H + r /\ r = lo(a)
        BY <2>6, <4>2, 0 \in Int, -1 \in Int
      <4>4. x % H = r
        BY <1>3, <4>3, DivUnique
      <4> QED BY <2>6, <4>1, <4>3, <4>4, SextOf
    <3>9. CASE alufunc = "REMUW"
      <4>1. c = sext(a) /\ Manual = sext(lo(a))
        BY <2>2, <2>4, <3>2, <3>3, <3>9 DEF value, otherResult, WordOps
      <4> QED BY <2>6, <4>1, SextOf
    <3> QED BY <1>7, <3>4, <3>5, <3>6, <3>7, <3>8, <3>9 DEF DivOps
  <2> QED BY <2>7, <2>8, <2>9
<1> QED BY <1>2, <1>5, <1>6, <1>7 DEF Ops, MUL_valid

-----------------------------------------------------------------------------
(* The invariant                                                           *)

LEMMA AluInvInit ==
  Init => AluInv
<1>1. N \in Nat \ {0} /\ 0 \in 0 .. N /\ 0 \in 0 .. N - 1
  BY Widths
<1>2. 0 \in 0 .. N * N - 1 /\ 0 \in 0 .. 2 * N * N - 1
  <2>1. PICK n2 \in Nat : n2 = N * N
    BY <1>1
  <2>2. N * 1 <= N * N
    BY <1>1, TimesMono
  <2>3. 2 * N * N = 2 * n2
    BY <1>1, <2>1
  <2> QED BY <1>1, <2>1, <2>2, <2>3
<1> QED BY <1>1, <1>2 DEF Init, AluInv, TypeOK, State0, U64

\* What comes to E is an operation with its operands.
LEMMA StageEType ==
  ASSUME AluInv, StageE
  PROVE  alufunc' \in Ops /\ a' \in U64 /\ b' \in U64
<1>1. alufunc \in Ops /\ a \in U64 /\ b \in U64
  BY DEF AluInv, TypeOK
<1>2. CASE UNCHANGED inputs
  BY <1>1, <1>2 DEF inputs
<1>3. CASE ~stallE_mult
  <2>1. PICK next \in Following \cup {inputs} :
          alufunc' = next[1] /\ a' = next[2] /\ b' = next[3]
    BY <1>3 DEF StageE
  <2>2. next \in Ops \X U64 \X U64
    BY <1>1, <2>1, FollowingAssumption DEF inputs
  <2> QED BY <2>1, <2>2
<1> QED BY <1>2, <1>3 DEF StageE

LEMMA AluInvNext ==
  AluInv /\ [Cycle]_vars => AluInv'
<1>1. SUFFICES ASSUME AluInv, [Cycle]_vars PROVE AluInv'
  OBVIOUS
<1>2. CASE Cycle
  <2>1. MultCycle /\ DividCycle /\ StageE
    BY <1>2 DEF Cycle
  <2>2. alufunc' \in Ops /\ a' \in U64 /\ b' \in U64
    BY <1>1, <2>1, StageEType
  <2>3. /\ mstate' \in {"INIT", "DOING"} /\ mcount' \in 0 .. N
        /\ p' \in 0 .. 2 * N * N - 1 /\ b_' \in U64
        /\ mstate' = "DOING" => Multiplying'
    BY <1>1, <2>1, MultInvariant
  <2>4. /\ dstate' \in {"INIT", "DOING"} /\ dcount' \in 0 .. N
        /\ q' \in 0 .. N * N - 1 /\ d' \in U64
        /\ dstate' = "DOING" => Dividing'
    BY <1>1, <2>1, DividInvariant
  <2> QED BY <2>2, <2>3, <2>4 DEF AluInv, TypeOK
<1>3. CASE UNCHANGED vars
  <2>1. UNCHANGED <<alufunc, a, b, mstate, mcount, p, b_, dstate, dcount, q, d>>
    BY <1>3 DEF vars, inputs, mult, divid
  <2>2. TypeOK'
    BY <1>1, <2>1 DEF AluInv, TypeOK
  <2>3. Multiplying' = Multiplying /\ Dividing' = Dividing
    BY <2>1 DEF Multiplying, Dividing, MUL_valid, DIV_valid, abs, negative
  <2> QED BY <1>1, <2>1, <2>2, <2>3 DEF AluInv
<1> QED BY <1>1, <1>2, <1>3

LEMMA AluInvImplies ==
  AluInv => UnitsRight
<1> HAVE AluInv
<1>1. TypeOK
  BY DEF AluInv
<1>2. MultiplierLoop
  BY DEF AluInv, Multiplying, Product, MultiplierLoop
<1>3. DividerLoop
  BY DEF AluInv, Dividing, Divided, DividerLoop, quotient, remainder
<1> QED BY <1>1, <1>2, <1>3, ResultInvariant DEF UnitsRight

\* The multiplier and the divider are right at every width: their registers
\* keep their widths, their loops compute what they should after every step,
\* and the result stage E lets go is the manual's (alu.sv, mult.sv, divid.sv).
THEOREM AluRight == Spec => []UnitsRight
  BY AluInvInit, AluInvNext, AluInvImplies, PTL DEF Spec

\* UnitsRight of the suite, in which another part may run.
THEOREM UnitsRightHolds == AllSpec => []UnitsRight
<1>1. AllInit => AluInv
  BY AluInvInit DEF AllInit
<1>2. AluInv /\ [AllNext]_allVars => AluInv'
  <2>1. [AllNext]_allVars => [Cycle]_vars
    BY DEF AllNext, AluPart, UartPart, BridgePart, ConfregPart, Aborted, allVars
  <2> QED BY <2>1, AluInvNext
<1> QED BY <1>1, <1>2, AluInvImplies, PTL DEF AllSpec
=============================================================================
