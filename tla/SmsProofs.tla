------------------------------ MODULE SmsProofs ------------------------------
(***************************************************************************)
(* Theorems about the conversions of short messages (SmsPdu, as Standalone  *)
(* runs them), for messages of any octets and of any length up to 255: what *)
(* is packed is unpacked again.                                             *)
(*                                                                          *)
(* The loops of the conversions are recursive functions.  That there is a   *)
(* function of that kind is shown by giving one; that it is the only one    *)
(* with the least argument, or the greatest, at which two would differ.     *)
(***************************************************************************)
EXTENDS EventProofs

LEMMA GreatestNumber ==
    ASSUME NEW N \in Nat, NEW S, S \subseteq 0 .. N, S # {}
    PROVE  \E m \in S : \A k \in S : k <= m
<1> DEFINE T == {t \in 0 .. N : N - t \in S}
<1>1. PICK k \in S : k \in 0 .. N
  OBVIOUS
<1>2. N - k \in T
  BY <1>1
<1>3. PICK t \in T : \A u \in T : t <= u
  <2>1. T \subseteq Nat /\ T # {}
    BY <1>2
  <2> HIDE DEF T
  <2> QED
    BY <2>1, LeastNumber
<1>4. \A j \in S : j <= N - t
  <2> SUFFICES ASSUME NEW j \in S PROVE j <= N - t
    OBVIOUS
  <2>1. N - j \in T
    OBVIOUS
  <2> QED
    BY <1>3, <2>1
<1> QED
  BY <1>4

\* A value and a step define a function on the numbers up to N.
Built(N, X, x, step) ==
    CHOOSE h \in [0 .. N -> X] :
        h = [i \in 0 .. N |-> IF i = 0 THEN x ELSE step[<<i, h[i - 1]>>]]

IsBuilt(h, N, X, x, step) ==
    h \in [0 .. N -> X] /\ h[0] = x /\ \A i \in 1 .. N : h[i] = step[<<i, h[i - 1]>>]

LEMMA BuiltIs ==
    ASSUME NEW N \in Nat, NEW X, NEW x \in X, NEW step \in [(1 .. N) \X X -> X]
    PROVE  IsBuilt(Built(N, X, x, step), N, X, x, step)
<1> DEFINE Body(h) == [i \in 0 .. N |-> IF i = 0 THEN x ELSE step[<<i, h[i - 1]>>]]
           Upto(k, h) == h \in [0 .. N -> X] /\ \A i \in 0 .. k : h[i] = Body(h)[i]
           S == {k \in 0 .. N : ~\E h : Upto(k, h)}
<1>1. \A h \in [0 .. N -> X] : Body(h) \in [0 .. N -> X]
  <2> SUFFICES ASSUME NEW h \in [0 .. N -> X], NEW i \in 0 .. N
               PROVE  (IF i = 0 THEN x ELSE step[<<i, h[i - 1]>>]) \in X
    OBVIOUS
  <2>1. i # 0 => <<i, h[i - 1]>> \in (1 .. N) \X X
    OBVIOUS
  <2> QED
    BY <2>1
<1>2. S = {}
  <2>1. SUFFICES ASSUME S # {} PROVE FALSE
    OBVIOUS
  <2>2. PICK m \in S : \A k \in S : m <= k
    <3>1. S \subseteq Nat
      OBVIOUS
    <3> HIDE DEF S
    <3> QED
      BY <2>1, <3>1, LeastNumber
  <2>3. m \in 0 .. N /\ ~\E h : Upto(m, h)
    OBVIOUS
  <2>4. CASE m = 0
    <3> DEFINE h == [i \in 0 .. N |-> x]
    <3>1. Upto(0, h)
      OBVIOUS
    <3> HIDE DEF h, Upto
    <3> QED
      BY <2>3, <2>4, <3>1
  <2>5. CASE m # 0
    <3>1. m - 1 \in 0 .. N /\ ~(m <= m - 1)
      BY <2>3, <2>5
    <3>2. PICK h : Upto(m - 1, h)
      <4>1. m - 1 \notin S
        BY <2>2, <3>1
      <4> HIDE DEF Upto
      <4> QED
        BY <3>1, <4>1
    <3> DEFINE g == Body(h)
    <3>3. g \in [0 .. N -> X]
      BY <1>1, <3>2
    <3>4. \A i \in 0 .. m : g[i] = Body(g)[i]
      <4> SUFFICES ASSUME NEW i \in 0 .. m PROVE g[i] = Body(g)[i]
        OBVIOUS
      <4>1. i \in 0 .. N
        BY <2>3
      <4>2. ASSUME i # 0 PROVE g[i - 1] = h[i - 1]
        <5>1. i - 1 \in 0 .. m - 1 /\ i - 1 \in 0 .. N
          BY <2>3, <4>2
        <5> QED
          BY <3>2, <5>1
      <4> QED
        BY <4>1, <4>2
    <3>5. Upto(m, g)
      BY <3>3, <3>4
    <3> HIDE DEF g, Upto
    <3> QED
      BY <2>3, <3>5
  <2> QED
    BY <2>4, <2>5
<1>3. PICK h : Upto(N, h)
  <2>1. N \in 0 .. N
    OBVIOUS
  <2>2. N \notin S
    <3> HIDE DEF S
    <3> QED
      BY <1>2
  <2> HIDE DEF Upto
  <2> QED
    BY <2>1, <2>2
<1>4. \A i \in 0 .. N : h[i] = Body(h)[i]
  BY <1>3
<1>5. h = Body(h)
  BY <1>3, <1>4
<1> DEFINE b == Built(N, X, x, step)
<1>6. b \in [0 .. N -> X] /\ b = Body(b)
  BY <1>3, <1>5 DEF Built
<1> HIDE DEF b
<1>7. b[0] = x /\ \A i \in 1 .. N : b[i] = step[<<i, b[i - 1]>>]
  BY <1>6
<1> QED
  BY <1>6, <1>7 DEF b, IsBuilt

(***************************************************************************)
(* UserBits                                                                     *)
(***************************************************************************)
LEMMA Powers ==
    /\ 2^0 = 1 /\ 2^1 = 2 /\ 2^2 = 4 /\ 2^3 = 8 /\ 2^4 = 16
    /\ 2^5 = 32 /\ 2^6 = 64 /\ 2^7 = 128
OBVIOUS

LEMMA PowerType ==
    ASSUME NEW n \in 0 .. 7
    PROVE  2^n \in Nat \ {0}
<1>1. CASE n = 0  BY <1>1
<1>2. CASE n = 1  BY <1>2
<1>3. CASE n = 2  BY <1>3
<1>4. CASE n = 3  BY <1>4
<1>5. CASE n = 4  BY <1>5
<1>6. CASE n = 5  BY <1>6
<1>7. CASE n = 6  BY <1>7
<1>8. CASE n = 7  BY <1>8
<1> QED
  BY <1>1, <1>2, <1>3, <1>4, <1>5, <1>6, <1>7, <1>8

LEMMA BitType ==
    ASSUME NEW v \in Nat, NEW n \in 0 .. 7
    PROVE  Sms!Bit(v, n) \in {0, 1}
<1> DEFINE p == 2^n
<1>1. p \in Nat \ {0}
  BY PowerType
<1>2. Sms!Bit(v, n) = (v \div p) % 2
  BY DEF Sms!Bit
<1> HIDE DEF p
<1>3. v \div p \in Int
  BY <1>1
<1> QED
  BY <1>2, <1>3

LEMMA BitIs ==
    ASSUME NEW v \in Nat
    PROVE  /\ Sms!Bit(v, 0) = v % 2          /\ Sms!Bit(v, 1) = (v \div 2) % 2
           /\ Sms!Bit(v, 2) = (v \div 4) % 2  /\ Sms!Bit(v, 3) = (v \div 8) % 2
           /\ Sms!Bit(v, 4) = (v \div 16) % 2 /\ Sms!Bit(v, 5) = (v \div 32) % 2
           /\ Sms!Bit(v, 6) = (v \div 64) % 2 /\ Sms!Bit(v, 7) = (v \div 128) % 2
BY Powers DEF Sms!Bit

\* getvalue_of_bits doubles what it has, and adds the next bit.
Adding(s, first, n) ==
    CHOOSE h : h = [i \in 0 .. n |-> IF i = 0 THEN 0 ELSE 2 * h[i - 1] + s[first + i - 1]]

LEMMA AddingIs ==
    ASSUME NEW s, NEW first \in Nat, NEW n \in Nat,
           \A b \in Nat : b < n => s[first + b] \in {0, 1}
    PROVE  Adding(s, first, n)
             = [i \in 0 .. n |-> IF i = 0 THEN 0
                                 ELSE 2 * Adding(s, first, n)[i - 1] + s[first + i - 1]]
<1> DEFINE Body(h) == [i \in 0 .. n |-> IF i = 0 THEN 0 ELSE 2 * h[i - 1] + s[first + i - 1]]
           step == [c \in (1 .. n) \X Int |-> 2 * c[2] + s[first + c[1] - 1]]
<1>1. step \in [(1 .. n) \X Int -> Int]
  <2> SUFFICES ASSUME NEW i \in 1 .. n, NEW z \in Int PROVE 2 * z + s[first + i - 1] \in Int
    OBVIOUS
  <2>1. i - 1 \in Nat /\ i - 1 < n /\ first + (i - 1) = first + i - 1
    OBVIOUS
  <2>2. s[first + (i - 1)] \in {0, 1}
    BY <2>1
  <2> QED
    BY <2>1, <2>2
<1> DEFINE h == Built(n, Int, 0, step)
<1>2. h \in [0 .. n -> Int] /\ h[0] = 0 /\ \A i \in 1 .. n : h[i] = step[<<i, h[i - 1]>>]
  <2>1. 0 \in Int
    OBVIOUS
  <2> HIDE DEF step
  <2>2. IsBuilt(h, n, Int, 0, step)
    BY <1>1, <2>1, BuiltIs
  <2> QED
    BY <2>2 DEF IsBuilt
<1> HIDE DEF h
<1>3. h = Body(h)
  <2>1. ASSUME NEW i \in 0 .. n PROVE h[i] = Body(h)[i]
    <3>1. ASSUME i # 0 PROVE i \in 1 .. n /\ i - 1 \in 0 .. n
      BY <3>1
    <3> QED
      BY <1>2, <3>1
  <2> QED
    BY <1>2, <2>1
<1> QED
  BY <1>3 DEF Adding

LEMMA AddingNext ==
    ASSUME NEW s, NEW first \in Nat, NEW n \in Nat,
           \A b \in Nat : b < n => s[first + b] \in {0, 1}
    PROVE  /\ Adding(s, first, n)[0] = 0
           /\ \A i \in 0 .. n - 1 :
                Adding(s, first, n)[i + 1] = 2 * Adding(s, first, n)[i] + s[first + i]
<1> DEFINE f == Adding(s, first, n)
<1>1. f = [i \in 0 .. n |-> IF i = 0 THEN 0 ELSE 2 * f[i - 1] + s[first + i - 1]]
  BY AddingIs
<1> HIDE DEF f
<1>2. f[0] = 0
  BY <1>1
<1>3. ASSUME NEW i \in 0 .. n - 1 PROVE f[i + 1] = 2 * f[i] + s[first + i]
  <2>1. i + 1 \in 0 .. n /\ i + 1 # 0 /\ (i + 1) - 1 = i /\ first + (i + 1) - 1 = first + i
    OBVIOUS
  <2> QED
    BY <1>1, <2>1
<1> QED
  BY <1>2, <1>3 DEF f

LEMMA GetBitsIs ==
    ASSUME NEW s, NEW first, NEW n
    PROVE  Sms!GetBits(s, first, n) = Adding(s, first, n)[n]
BY DEF Sms!GetBits, Adding

\* Hence it returns the number whose bits it finds.
LEMMA GetFive ==
    ASSUME NEW s, NEW first \in Nat, NEW v \in 0 .. 31,
           \A b \in 0 .. 4 : s[first + b] = Sms!Bit(v, 4 - b)
    PROVE  Sms!GetBits(s, first, 5) = v
<1>1. \A b \in Nat : b < 5 => s[first + b] \in {0, 1}
  BY BitType
<1> DEFINE f == Adding(s, first, 5)
<1>2. /\ Sms!GetBits(s, first, 5) = f[5] /\ f[0] = 0
      /\ \A i \in 0 .. 4 : f[i + 1] = 2 * f[i] + s[first + i]
  <2>1. ASSUME NEW n \in Nat, n = 5
        PROVE  /\ Adding(s, first, n)[0] = 0
               /\ \A i \in 0 .. n - 1 :
                    Adding(s, first, n)[i + 1] = 2 * Adding(s, first, n)[i] + s[first + i]
    <3>1. \A b \in Nat : b < n => s[first + b] \in {0, 1}
      BY <1>1, <2>1
    <3> QED
      BY <3>1, AddingNext
  <2>2. f[0] = 0 /\ \A i \in 0 .. 4 : f[i + 1] = 2 * f[i] + s[first + i]
    BY <2>1
  <2>3. Sms!GetBits(s, first, 5) = f[5]
    BY GetBitsIs
  <2> QED
    BY <2>2, <2>3
<1>b. /\ Sms!Bit(v, 0) = v % 2          /\ Sms!Bit(v, 1) = (v \div 2) % 2
      /\ Sms!Bit(v, 2) = (v \div 4) % 2  /\ Sms!Bit(v, 3) = (v \div 8) % 2
      /\ Sms!Bit(v, 4) = (v \div 16) % 2 /\ Sms!Bit(v, 5) = (v \div 32) % 2
      /\ Sms!Bit(v, 6) = (v \div 64) % 2 /\ Sms!Bit(v, 7) = (v \div 128) % 2
  <2>1. v \in Nat
    OBVIOUS
  <2> QED
    BY <2>1, BitIs
<1>3. f[1] = v \div 16
  <2>1. f[1] = (v \div 16) % 2
    BY <1>2, <1>b
  <2> QED
    BY <2>1
<1>4. f[2] = v \div 8
  <2>1. f[2] = 2 * f[1] + Sms!Bit(v, 3)
    BY <1>2
  <2>2. f[2] = 2 * (v \div 16) + ((v \div 8) % 2)
    BY <1>b, <1>3, <2>1
  <2> QED
    BY <2>2
<1>5. f[3] = v \div 4
  <2>1. f[3] = 2 * f[2] + Sms!Bit(v, 2)
    BY <1>2
  <2>2. f[3] = 2 * (v \div 8) + ((v \div 4) % 2)
    BY <1>b, <1>4, <2>1
  <2> QED
    BY <2>2
<1>6. f[4] = v \div 2
  <2>1. f[4] = 2 * f[3] + Sms!Bit(v, 1)
    BY <1>2
  <2>2. f[4] = 2 * (v \div 4) + ((v \div 2) % 2)
    BY <1>b, <1>5, <2>1
  <2> QED
    BY <2>2
<1>7. f[5] = v
  <2>1. f[5] = 2 * f[4] + Sms!Bit(v, 0)
    BY <1>2
  <2>2. f[5] = 2 * (v \div 2) + (v % 2)
    BY <1>b, <1>6, <2>1
  <2> QED
    BY <2>2
<1> QED
  BY <1>2, <1>7


LEMMA GetSeven ==
    ASSUME NEW s, NEW first \in Nat, NEW v \in 0 .. 255,
           \A b \in 0 .. 6 : s[first + b] = Sms!Bit(v, 6 - b)
    PROVE  Sms!GetBits(s, first, 7) = v % 128
<1>1. \A b \in Nat : b < 7 => s[first + b] \in {0, 1}
  BY BitType
<1> DEFINE f == Adding(s, first, 7)
<1>2. /\ Sms!GetBits(s, first, 7) = f[7] /\ f[0] = 0
      /\ \A i \in 0 .. 6 : f[i + 1] = 2 * f[i] + s[first + i]
  <2>1. ASSUME NEW n \in Nat, n = 7
        PROVE  /\ Adding(s, first, n)[0] = 0
               /\ \A i \in 0 .. n - 1 :
                    Adding(s, first, n)[i + 1] = 2 * Adding(s, first, n)[i] + s[first + i]
    <3>1. \A b \in Nat : b < n => s[first + b] \in {0, 1}
      BY <1>1, <2>1
    <3> QED
      BY <3>1, AddingNext
  <2>2. f[0] = 0 /\ \A i \in 0 .. 6 : f[i + 1] = 2 * f[i] + s[first + i]
    BY <2>1
  <2>3. Sms!GetBits(s, first, 7) = f[7]
    BY GetBitsIs
  <2> QED
    BY <2>2, <2>3
<1>b. /\ Sms!Bit(v, 0) = v % 2          /\ Sms!Bit(v, 1) = (v \div 2) % 2
      /\ Sms!Bit(v, 2) = (v \div 4) % 2  /\ Sms!Bit(v, 3) = (v \div 8) % 2
      /\ Sms!Bit(v, 4) = (v \div 16) % 2 /\ Sms!Bit(v, 5) = (v \div 32) % 2
      /\ Sms!Bit(v, 6) = (v \div 64) % 2 /\ Sms!Bit(v, 7) = (v \div 128) % 2
  <2>1. v \in Nat
    OBVIOUS
  <2> QED
    BY <2>1, BitIs
<1>3. f[1] = (v % 128) \div 64
  <2>1. f[1] = (v \div 64) % 2
    BY <1>2, <1>b
  <2> QED
    BY <2>1
<1>4. f[2] = (v % 128) \div 32
  <2>1. f[2] = 2 * f[1] + Sms!Bit(v, 5)
    BY <1>2
  <2>2. f[2] = 2 * ((v % 128) \div 64) + ((v \div 32) % 2)
    BY <1>b, <1>3, <2>1
  <2> QED
    BY <2>2
<1>5. f[3] = (v % 128) \div 16
  <2>1. f[3] = 2 * f[2] + Sms!Bit(v, 4)
    BY <1>2
  <2>2. f[3] = 2 * ((v % 128) \div 32) + ((v \div 16) % 2)
    BY <1>b, <1>4, <2>1
  <2> QED
    BY <2>2
<1>6. f[4] = (v % 128) \div 8
  <2>1. f[4] = 2 * f[3] + Sms!Bit(v, 3)
    BY <1>2
  <2>2. f[4] = 2 * ((v % 128) \div 16) + ((v \div 8) % 2)
    BY <1>b, <1>5, <2>1
  <2> QED
    BY <2>2
<1>7. f[5] = (v % 128) \div 4
  <2>1. f[5] = 2 * f[4] + Sms!Bit(v, 2)
    BY <1>2
  <2>2. f[5] = 2 * ((v % 128) \div 8) + ((v \div 4) % 2)
    BY <1>b, <1>6, <2>1
  <2> QED
    BY <2>2
<1>8. f[6] = (v % 128) \div 2
  <2>1. f[6] = 2 * f[5] + Sms!Bit(v, 1)
    BY <1>2
  <2>2. f[6] = 2 * ((v % 128) \div 4) + ((v \div 2) % 2)
    BY <1>b, <1>7, <2>1
  <2> QED
    BY <2>2
<1>9. f[7] = (v % 128)
  <2>1. f[7] = 2 * f[6] + Sms!Bit(v, 0)
    BY <1>2
  <2>2. f[7] = 2 * ((v % 128) \div 2) + (v % 2)
    BY <1>b, <1>8, <2>1
  <2> QED
    BY <2>2
<1> QED
  BY <1>2, <1>9


LEMMA GetEight ==
    ASSUME NEW s, NEW first \in Nat, NEW v \in 0 .. 255,
           \A b \in 0 .. 7 : s[first + b] = Sms!Bit(v, 7 - b)
    PROVE  Sms!GetBits(s, first, 8) = v
<1>1. \A b \in Nat : b < 8 => s[first + b] \in {0, 1}
  BY BitType
<1> DEFINE f == Adding(s, first, 8)
<1>2. /\ Sms!GetBits(s, first, 8) = f[8] /\ f[0] = 0
      /\ \A i \in 0 .. 7 : f[i + 1] = 2 * f[i] + s[first + i]
  <2>1. ASSUME NEW n \in Nat, n = 8
        PROVE  /\ Adding(s, first, n)[0] = 0
               /\ \A i \in 0 .. n - 1 :
                    Adding(s, first, n)[i + 1] = 2 * Adding(s, first, n)[i] + s[first + i]
    <3>1. \A b \in Nat : b < n => s[first + b] \in {0, 1}
      BY <1>1, <2>1
    <3> QED
      BY <3>1, AddingNext
  <2>2. f[0] = 0 /\ \A i \in 0 .. 7 : f[i + 1] = 2 * f[i] + s[first + i]
    BY <2>1
  <2>3. Sms!GetBits(s, first, 8) = f[8]
    BY GetBitsIs
  <2> QED
    BY <2>2, <2>3
<1>b. /\ Sms!Bit(v, 0) = v % 2          /\ Sms!Bit(v, 1) = (v \div 2) % 2
      /\ Sms!Bit(v, 2) = (v \div 4) % 2  /\ Sms!Bit(v, 3) = (v \div 8) % 2
      /\ Sms!Bit(v, 4) = (v \div 16) % 2 /\ Sms!Bit(v, 5) = (v \div 32) % 2
      /\ Sms!Bit(v, 6) = (v \div 64) % 2 /\ Sms!Bit(v, 7) = (v \div 128) % 2
  <2>1. v \in Nat
    OBVIOUS
  <2> QED
    BY <2>1, BitIs
<1>3. f[1] = v \div 128
  <2>1. f[1] = (v \div 128) % 2
    BY <1>2, <1>b
  <2> QED
    BY <2>1
<1>4. f[2] = v \div 64
  <2>1. f[2] = 2 * f[1] + Sms!Bit(v, 6)
    BY <1>2
  <2>2. f[2] = 2 * (v \div 128) + ((v \div 64) % 2)
    BY <1>b, <1>3, <2>1
  <2> QED
    BY <2>2
<1>5. f[3] = v \div 32
  <2>1. f[3] = 2 * f[2] + Sms!Bit(v, 5)
    BY <1>2
  <2>2. f[3] = 2 * (v \div 64) + ((v \div 32) % 2)
    BY <1>b, <1>4, <2>1
  <2> QED
    BY <2>2
<1>6. f[4] = v \div 16
  <2>1. f[4] = 2 * f[3] + Sms!Bit(v, 4)
    BY <1>2
  <2>2. f[4] = 2 * (v \div 32) + ((v \div 16) % 2)
    BY <1>b, <1>5, <2>1
  <2> QED
    BY <2>2
<1>7. f[5] = v \div 8
  <2>1. f[5] = 2 * f[4] + Sms!Bit(v, 3)
    BY <1>2
  <2>2. f[5] = 2 * (v \div 16) + ((v \div 8) % 2)
    BY <1>b, <1>6, <2>1
  <2> QED
    BY <2>2
<1>8. f[6] = v \div 4
  <2>1. f[6] = 2 * f[5] + Sms!Bit(v, 2)
    BY <1>2
  <2>2. f[6] = 2 * (v \div 8) + ((v \div 4) % 2)
    BY <1>b, <1>7, <2>1
  <2> QED
    BY <2>2
<1>9. f[7] = v \div 2
  <2>1. f[7] = 2 * f[6] + Sms!Bit(v, 1)
    BY <1>2
  <2>2. f[7] = 2 * (v \div 4) + ((v \div 2) % 2)
    BY <1>b, <1>8, <2>1
  <2> QED
    BY <2>2
<1>10. f[8] = v
  <2>1. f[8] = 2 * f[7] + Sms!Bit(v, 0)
    BY <1>2
  <2>2. f[8] = 2 * (v \div 2) + (v % 2)
    BY <1>b, <1>9, <2>1
  <2> QED
    BY <2>2
<1> QED
  BY <1>2, <1>10

(***************************************************************************)
(* The user data: what Pack returns                                         *)
(***************************************************************************)
UserBits(n) == [0 .. n - 1 -> {0, 1}]

IsSet(r, s, n, first, w, v) ==
    /\ r \in UserBits(n)
    /\ \A b \in 0 .. w - 1 : r[first + b] = Sms!Bit(v, w - 1 - b)
    /\ \A b \in 0 .. n - 1 : b \notin first .. first + w - 1 => r[b] = s[b]

\* UserBits that are not set are given the value.
LEMMA SetBitsIs ==
    ASSUME NEW n \in Nat, NEW s \in UserBits(n), NEW first \in Nat, NEW w \in 1 .. 8,
           first + w <= n, NEW v \in Nat, \A b \in 0 .. w - 1 : s[first + b] = 0
    PROVE  IsSet(Sms!SetBits(s, first, w, v), s, n, first, w, v)
<1> DEFINE r == [b \in 0 .. n - 1 |->
                   IF b \in first .. first + w - 1 /\ Sms!Bit(v, first + w - 1 - b) = 1
                   THEN 1 ELSE s[b]]
<1>1. Sms!SetBits(s, first, w, v) = r
  BY DEF Sms!SetBits, UserBits
<1>2. r \in UserBits(n)
  BY DEF UserBits
<1>3. ASSUME NEW b \in 0 .. w - 1 PROVE r[first + b] = Sms!Bit(v, w - 1 - b)
  <2>1. first + b \in 0 .. n - 1 /\ first + b \in first .. first + w - 1
        /\ first + w - 1 - (first + b) = w - 1 - b /\ w - 1 - b \in 0 .. 7
    OBVIOUS
  <2>2. Sms!Bit(v, w - 1 - b) \in {0, 1}
    BY <2>1, BitType
  <2> QED
    BY <2>1, <2>2
<1>4. \A b \in 0 .. n - 1 : b \notin first .. first + w - 1 => r[b] = s[b]
  OBVIOUS
<1> HIDE DEF r
<1> QED
  BY <1>1, <1>2, <1>3, <1>4 DEF IsSet

FirstBit(i, w)  == 13 + i * w
Size(L, w)   == 8 * (2 + (L * w + 5) \div 8 + 1)
Header(n, encoding, count) ==
    Sms!SetBits(Sms!SetBits(Sms!Clear(n), 0, 5, encoding), 5, 8, count)

LEMMA Places ==
    ASSUME NEW w \in {7, 8}, NEW i \in Nat
    PROVE  /\ FirstBit(i, w) \in Nat /\ FirstBit(i, w) >= 13 /\ FirstBit(0, w) = 13
           /\ FirstBit(i + 1, w) = FirstBit(i, w) + w
           /\ \A k \in Nat : k < i => FirstBit(k, w) + w <= FirstBit(i, w)
           /\ Size(i, w) \in Nat /\ FirstBit(i, w) <= Size(i, w)
<1>1. CASE w = 7
  BY <1>1 DEF FirstBit, Size
<1>2. CASE w = 8
  BY <1>2 DEF FirstBit, Size
<1> QED
  BY <1>1, <1>2

LEMMA HeaderIs ==
    ASSUME NEW n \in Nat, n >= 13, NEW encoding \in 0 .. 31, NEW count \in 0 .. 255
    PROVE  /\ Header(n, encoding, count) \in UserBits(n)
           /\ \A b \in 0 .. 4 : Header(n, encoding, count)[b] = Sms!Bit(encoding, 4 - b)
           /\ \A b \in 0 .. 7 : Header(n, encoding, count)[5 + b] = Sms!Bit(count, 7 - b)
           /\ \A b \in 13 .. n - 1 : Header(n, encoding, count)[b] = 0
<1> DEFINE c == Sms!Clear(n)
           f == Sms!SetBits(c, 0, 5, encoding)
           g == Sms!SetBits(f, 5, 8, count)
<1>1. c \in UserBits(n) /\ \A b \in 0 .. n - 1 : c[b] = 0
  BY DEF Sms!Clear, UserBits
<1> HIDE DEF c
<1>2. IsSet(f, c, n, 0, 5, encoding)
  <2>1. /\ 0 \in Nat /\ 5 \in 1 .. 8 /\ 0 + 5 <= n /\ encoding \in Nat
        /\ \A b \in 0 .. 5 - 1 : c[0 + b] = 0
    BY <1>1
  <2> QED
    BY <1>1, <2>1, SetBitsIs
<1> HIDE DEF f
<1>3. f \in UserBits(n) /\ (\A b \in 0 .. 4 : f[b] = Sms!Bit(encoding, 4 - b))
      /\ \A b \in 5 .. n - 1 : f[b] = 0
  BY <1>1, <1>2 DEF IsSet
<1>4. IsSet(g, f, n, 5, 8, count)
  <2>1. /\ 5 \in Nat /\ 8 \in 1 .. 8 /\ 5 + 8 <= n /\ count \in Nat
        /\ \A b \in 0 .. 8 - 1 : f[5 + b] = 0
    BY <1>3
  <2> QED
    BY <1>3, <2>1, SetBitsIs
<1> HIDE DEF g
<1>5. Header(n, encoding, count) = g
  BY DEF Header, g, f, c
<1>6. g \in UserBits(n) /\ \A b \in 0 .. 4 : g[b] = Sms!Bit(encoding, 4 - b)
  BY <1>3, <1>4 DEF IsSet
<1>7. \A b \in 0 .. 7 : g[5 + b] = Sms!Bit(count, 7 - b)
  BY <1>4 DEF IsSet
<1>8. \A b \in 13 .. n - 1 : g[b] = 0
  BY <1>3, <1>4 DEF IsSet
<1> QED
  BY <1>5, <1>6, <1>7, <1>8

\* The bits after i characters, from a header h that is followed by zeros.
Packing(h, w, message) ==
    CHOOSE d : d = [i \in 0 .. Len(message) |->
                      IF i = 0 THEN h
                      ELSE Sms!SetBits(d[i - 1], 13 + (i - 1) * w, w, message[i])]

IsPacked(d, h, w, message) ==
    /\ d[0] = h
    /\ \A i \in 1 .. Len(message) :
         d[i] = Sms!SetBits(d[i - 1], FirstBit(i - 1, w), w, message[i])

LEMMA PackingIs ==
    ASSUME NEW w \in {7, 8}, NEW n \in Nat, NEW h \in UserBits(n), NEW message \in Seq(0 .. 255)
    PROVE  IsPacked(Packing(h, w, message), h, w, message)
<1> DEFINE L == Len(message)
           Body(d) == [i \in 0 .. L |->
                         IF i = 0 THEN h
                         ELSE Sms!SetBits(d[i - 1], 13 + (i - 1) * w, w, message[i])]
           step == [c \in (1 .. L) \X UserBits(n) |->
                      Sms!SetBits(c[2], 13 + (c[1] - 1) * w, w, message[c[1]])]
           b == Built(L, UserBits(n), h, step)
           p == Packing(h, w, message)
<1>0. L \in Nat
  OBVIOUS
<1>1. step \in [(1 .. L) \X UserBits(n) -> UserBits(n)]
  <2> SUFFICES ASSUME NEW i \in 1 .. L, NEW s \in UserBits(n)
               PROVE  Sms!SetBits(s, 13 + (i - 1) * w, w, message[i]) \in UserBits(n)
    OBVIOUS
  <2> QED
    BY DEF Sms!SetBits, UserBits
<1>2. IsBuilt(b, L, UserBits(n), h, step)
  <2> HIDE DEF step, L
  <2> QED
    BY <1>0, <1>1, BuiltIs
<1> HIDE DEF b
<1>3. b \in [0 .. L -> UserBits(n)] /\ b[0] = h /\ \A i \in 1 .. L : b[i] = step[<<i, b[i - 1]>>]
  BY <1>2 DEF IsBuilt
<1>4. b = Body(b)
  <2>1. ASSUME NEW i \in 0 .. L PROVE b[i] = Body(b)[i]
    <3>1. ASSUME i # 0 PROVE i \in 1 .. L /\ i - 1 \in 0 .. L
      BY <3>1
    <3> QED
      BY <1>3, <3>1
  <2> QED
    BY <1>3, <2>1
<1>5. p = Body(p)
  BY <1>4 DEF Packing
<1> HIDE DEF p
<1>6. p[0] = h /\ \A i \in 1 .. L : p[i] = Sms!SetBits(p[i - 1], 13 + (i - 1) * w, w, message[i])
  BY <1>0, <1>5
<1> QED
  BY <1>6 DEF p, IsPacked, FirstBit

LEMMA PackIsPacking ==
    ASSUME NEW encoding, NEW count, NEW w, NEW message
    PROVE  Sms!Pack(encoding, count, w, message)
             = Packing(Header(Size(Len(message), w), encoding, count), w, message)[Len(message)]
BY DEF Sms!Pack, Packing, Header, Size

\* After j characters, they are in their places and the rest is zero.
Packed(s, h, n, w, message, j) ==
    /\ s \in UserBits(n)
    /\ \A b \in 0 .. 12 : s[b] = h[b]
    /\ \A k \in 1 .. j : \A b \in 0 .. w - 1 :
         s[FirstBit(k - 1, w) + b] = Sms!Bit(message[k], w - 1 - b)
    /\ \A b \in FirstBit(j, w) .. n - 1 : s[b] = 0

LEMMA PackedNext ==
    ASSUME NEW w \in {7, 8}, NEW message \in Seq(0 .. 255), NEW n \in Nat,
           FirstBit(Len(message), w) <= n, NEW h,
           NEW j \in 1 .. Len(message), NEW s, Packed(s, h, n, w, message, j - 1)
    PROVE  Packed(Sms!SetBits(s, FirstBit(j - 1, w), w, message[j]), h, n, w, message, j)
<1> DEFINE L == Len(message)
           first == FirstBit(j - 1, w)
           v == message[j]
           r == Sms!SetBits(s, first, w, v)
<1>0. L \in Nat
  OBVIOUS
<1>1. j - 1 \in Nat /\ (j - 1) + 1 = j /\ v \in Nat /\ w \in 1 .. 8
  <2>1. v \in 0 .. 255
    BY ElementOfSeq
  <2> HIDE DEF v
  <2> QED
    BY <2>1
<1>2. first \in Nat /\ first >= 13 /\ FirstBit(j, w) = first + w
  BY <1>1, Places
<1>3. first + w <= n
  <2>1. j - 1 < L
    BY <1>0
  <2>2. first + w <= FirstBit(L, w)
    <3> HIDE DEF L
    <3> QED
      BY <1>0, <1>1, <2>1, Places
  <2>3. FirstBit(L, w) \in Nat
    BY <1>0, Places
  <2> QED
    BY <1>2, <2>2, <2>3
<1>4. s \in UserBits(n) /\ (\A b \in 0 .. 12 : s[b] = h[b]) /\ \A b \in first .. n - 1 : s[b] = 0
  BY DEF Packed
<1>5. \A k \in 1 .. j - 1 : \A b \in 0 .. w - 1 :
        s[FirstBit(k - 1, w) + b] = Sms!Bit(message[k], w - 1 - b)
  BY DEF Packed
<1> HIDE DEF first, v
<1>6. IsSet(r, s, n, first, w, v)
  <2>1. \A b \in 0 .. w - 1 : s[first + b] = 0
    BY <1>1, <1>2, <1>3, <1>4
  <2> QED
    BY <1>1, <1>2, <1>3, <1>4, <2>1, SetBitsIs
<1> HIDE DEF r
<1>7. /\ r \in UserBits(n)
      /\ \A b \in 0 .. w - 1 : r[first + b] = Sms!Bit(v, w - 1 - b)
      /\ \A b \in 0 .. n - 1 : b \notin first .. first + w - 1 => r[b] = s[b]
  BY <1>6 DEF IsSet
<1>8. ASSUME NEW b \in 0 .. 12 PROVE r[b] = h[b]
  <2>1. b \in 0 .. n - 1 /\ b \notin first .. first + w - 1
    BY <1>1, <1>2, <1>3
  <2> QED
    BY <1>4, <1>7, <2>1
<1>9. ASSUME NEW k \in 1 .. j, NEW b \in 0 .. w - 1
      PROVE  r[FirstBit(k - 1, w) + b] = Sms!Bit(message[k], w - 1 - b)
  <2>1. CASE k = j
    BY <1>7, <2>1 DEF first, v
  <2>2. CASE k # j
    <3>1. k - 1 \in Nat /\ k - 1 < j - 1 /\ k \in 1 .. j - 1
      BY <2>2
    <3>2. FirstBit(k - 1, w) \in Nat /\ FirstBit(k - 1, w) + w <= first
      BY <1>1, <3>1, Places DEF first
    <3>3. s[FirstBit(k - 1, w) + b] = Sms!Bit(message[k], w - 1 - b)
      BY <1>5, <3>1
    <3>4. FirstBit(k - 1, w) + b \in 0 .. n - 1
          /\ FirstBit(k - 1, w) + b \notin first .. first + w - 1
      BY <1>1, <1>2, <1>3, <3>2
    <3> QED
      BY <1>7, <3>3, <3>4
  <2> QED
    BY <2>1, <2>2
<1>10. ASSUME NEW b \in FirstBit(j, w) .. n - 1 PROVE r[b] = 0
  <2>1. b \in 0 .. n - 1 /\ b \notin first .. first + w - 1 /\ b \in first .. n - 1
    BY <1>1, <1>2, <1>3
  <2> QED
    BY <1>4, <1>7, <2>1
<1> QED
  BY <1>7, <1>8, <1>9, <1>10 DEF Packed, r, first, v

LEMMA PackedAtEnd ==
    ASSUME NEW w \in {7, 8}, NEW message \in Seq(0 .. 255), NEW n \in Nat,
           FirstBit(Len(message), w) <= n,
           NEW h \in UserBits(n), \A b \in 13 .. n - 1 : h[b] = 0,
           NEW d, IsPacked(d, h, w, message)
    PROVE  Packed(d[Len(message)], h, n, w, message, Len(message))
<1> DEFINE L == Len(message)
           Good(j) == Packed(d[j], h, n, w, message, j)
           S == {j \in 0 .. L : ~Good(j)}
<1>0. L \in Nat
  OBVIOUS
<1>1. Good(0)
  <2>1. d[0] = h
    BY DEF IsPacked
  <2>2. 0 \in Nat /\ 0 .. 12 \subseteq Int
    OBVIOUS
  <2>3. FirstBit(0, w) = 13
    BY <2>2, Places
  <2> QED
    BY <2>1, <2>3 DEF Packed
<1>2. ASSUME NEW j \in 1 .. L, Good(j - 1) PROVE Good(j)
  <2>1. d[j] = Sms!SetBits(d[j - 1], FirstBit(j - 1, w), w, message[j])
    BY DEF IsPacked
  <2> QED
    BY <1>2, <2>1, PackedNext
<1>3. S = {}
  <2>1. SUFFICES ASSUME S # {} PROVE FALSE
    OBVIOUS
  <2>2. PICK m \in S : \A k \in S : m <= k
    <3>1. S \subseteq Nat
      OBVIOUS
    <3> HIDE DEF S
    <3> QED
      BY <2>1, <3>1, LeastNumber
  <2>3. m \in 0 .. L /\ ~Good(m)
    OBVIOUS
  <2> HIDE DEF Good
  <2>4. m \in 1 .. L /\ m - 1 \in 0 .. L /\ ~(m <= m - 1)
    BY <1>0, <1>1, <2>3
  <2>5. Good(m - 1)
    BY <2>2, <2>4
  <2> QED
    BY <1>2, <2>3, <2>4, <2>5
<1>4. L \in 0 .. L
  BY <1>0
<1>5. Good(L)
  <2> HIDE DEF Good
  <2> QED
    BY <1>3, <1>4
<1> QED
  BY <1>5

UserData(d, encoding, count, w, message) ==
    /\ Sms!GetBits(d, 0, 5) = encoding
    /\ Sms!GetBits(d, 5, 8) = count
    /\ \A k \in 1 .. Len(message) : \A b \in 0 .. w - 1 :
         d[FirstBit(k - 1, w) + b] = Sms!Bit(message[k], w - 1 - b)

\* The parts of the user data are where the other side looks for them.
LEMMA PackIs ==
    ASSUME NEW w \in {7, 8}, NEW message \in Seq(0 .. 255),
           NEW encoding \in 0 .. 31, NEW count \in 0 .. 255,
           NEW d, d = Sms!Pack(encoding, count, w, message)
    PROVE  UserData(d, encoding, count, w, message)
<1> DEFINE L == Len(message)
           n == Size(L, w)
           h == Header(n, encoding, count)
           p == Packing(h, w, message)
<1>0. L \in Nat
  OBVIOUS
<1>1. n \in Nat /\ n >= 13 /\ FirstBit(L, w) <= n
  <2> HIDE DEF L
  <2>1. n \in Nat /\ FirstBit(L, w) <= n /\ FirstBit(L, w) >= 13 /\ FirstBit(L, w) \in Nat
    BY <1>0, Places
  <2> QED
    BY <2>1
<1> HIDE DEF n
<1>2. h \in UserBits(n)
  BY <1>1, HeaderIs
<1>3. \A b \in 0 .. 4 : h[b] = Sms!Bit(encoding, 4 - b)
  BY <1>1, HeaderIs
<1>4. \A b \in 0 .. 7 : h[5 + b] = Sms!Bit(count, 7 - b)
  BY <1>1, HeaderIs
<1>5. \A b \in 13 .. n - 1 : h[b] = 0
  BY <1>1, HeaderIs
<1>6. d = p[L]
  BY PackIsPacking DEF n
<1> HIDE DEF h
<1>7. IsPacked(p, h, w, message)
  BY <1>1, <1>2, PackingIs
<1> HIDE DEF p
<1>8. Packed(d, h, n, w, message, L)
  BY <1>1, <1>2, <1>5, <1>6, <1>7, PackedAtEnd
<1>9. \A b \in 0 .. 12 : d[b] = h[b]
  BY <1>8 DEF Packed
<1>10. \A k \in 1 .. L : \A b \in 0 .. w - 1 :
         d[FirstBit(k - 1, w) + b] = Sms!Bit(message[k], w - 1 - b)
  BY <1>8 DEF Packed
<1>11. Sms!GetBits(d, 0, 5) = encoding
  <2>1. 0 \in Nat /\ \A b \in 0 .. 4 : d[0 + b] = Sms!Bit(encoding, 4 - b)
    BY <1>3, <1>9
  <2> QED
    BY <2>1, GetFive
<1>12. Sms!GetBits(d, 5, 8) = count
  <2>1. 5 \in Nat /\ \A b \in 0 .. 7 : d[5 + b] = Sms!Bit(count, 7 - b)
    BY <1>4, <1>9
  <2> QED
    BY <2>1, GetEight
<1> QED
  BY <1>10, <1>11, <1>12 DEF UserData

LEMMA CdmaAscii ==
    ASSUME NEW message \in Seq(0 .. 255), Len(message) <= 255
    PROVE  Sms!DecodeCdma(Sms!EncodeCdma("ascii", message))
             = [j \in 1 .. Len(message) |-> message[j] % 128]
<1> DEFINE L == Len(message)
           d == Sms!Pack(2, L, 7, message)
<1>1. Sms!EncodeCdma("ascii", message) = d
  BY DEF Sms!EncodeCdma, Sms!ASCII
<1>2. L \in 0 .. 255 /\ 7 \in {7, 8} /\ 2 \in 0 .. 31
  <2>1. L \in Nat /\ L <= 255
    OBVIOUS
  <2> HIDE DEF L
  <2> QED
    BY <2>1
<1> HIDE DEF d
<1>3. UserData(d, 2, L, 7, message)
  BY <1>2, PackIs DEF d
<1>4. Sms!GetBits(d, 0, 5) = 2 /\ Sms!GetBits(d, 5, 8) = L
  BY <1>3 DEF UserData
<1>5. \A k \in 1 .. L : \A b \in 0 .. 6 :
        d[FirstBit(k - 1, 7) + b] = Sms!Bit(message[k], 6 - b)
  BY <1>3 DEF UserData
<1>6. ASSUME NEW k \in 1 .. L
      PROVE  Sms!GetBits(d, 13 + 7 * (k - 1), 7) = message[k] % 128
  <2> DEFINE first == 13 + 7 * (k - 1)
  <2>1. first \in Nat /\ FirstBit(k - 1, 7) = first
    BY <1>2 DEF FirstBit
  <2>2. message[k] \in 0 .. 255
    BY ElementOfSeq
  <2> HIDE DEF first
  <2>3. \A b \in 0 .. 6 : d[first + b] = Sms!Bit(message[k], 6 - b)
    BY <1>5, <2>1
  <2>4. Sms!GetBits(d, first, 7) = message[k] % 128
    BY <2>1, <2>2, <2>3, GetSeven
  <2> QED
    BY <2>4 DEF first
<1>7. Sms!DecodeCdma(d) = [j \in 1 .. L |-> Sms!GetBits(d, 13 + 7 * (j - 1), 7)]
  BY <1>3, <1>4 DEF Sms!DecodeCdma, Sms!ASCII
<1> QED
  BY <1>1, <1>6, <1>7

\* A message of octets is counted in pairs.
LEMMA CdmaOctets ==
    ASSUME NEW message \in Seq(0 .. 255), Len(message) <= 255, NEW f, f # "ascii"
    PROVE  Sms!DecodeCdma(Sms!EncodeCdma(f, message))
             = [j \in 1 .. 2 * (Len(message) \div 2) |-> message[j]]
<1> DEFINE L == Len(message)
           half == L \div 2
           d == Sms!Pack(4, half, 8, message)
<1>1. Sms!EncodeCdma(f, message) = d
  BY DEF Sms!EncodeCdma, Sms!UNICODE
<1>2. half \in 0 .. 255 /\ 8 \in {7, 8} /\ 4 \in 0 .. 31 /\ 2 * half <= L /\ 4 # 2 /\ L \in Nat
  <2>1. L \in Nat /\ L <= 255
    OBVIOUS
  <2> HIDE DEF L
  <2> QED
    BY <2>1
<1> HIDE DEF d, half
<1>3. UserData(d, 4, half, 8, message)
  BY <1>2, PackIs DEF d
<1>4. Sms!GetBits(d, 0, 5) = 4 /\ Sms!GetBits(d, 5, 8) = half
  BY <1>3 DEF UserData
<1>5. \A k \in 1 .. L : \A b \in 0 .. 7 :
        d[FirstBit(k - 1, 8) + b] = Sms!Bit(message[k], 7 - b)
  BY <1>3 DEF UserData
<1>6. ASSUME NEW k \in 1 .. 2 * half
      PROVE  Sms!GetBits(d, 13 + 8 * (k - 1), 8) = message[k]
  <2> DEFINE first == 13 + 8 * (k - 1)
  <2>0. k \in 1 .. L
    BY <1>2
  <2>1. first \in Nat /\ FirstBit(k - 1, 8) = first
    BY <1>2 DEF FirstBit
  <2>2. message[k] \in 0 .. 255
    BY <2>0, ElementOfSeq
  <2> HIDE DEF first
  <2>3. \A b \in 0 .. 7 : d[first + b] = Sms!Bit(message[k], 7 - b)
    BY <1>5, <2>0, <2>1
  <2>4. Sms!GetBits(d, first, 8) = message[k]
    BY <2>1, <2>2, <2>3, GetEight
  <2> QED
    BY <2>4 DEF first
<1>7. Sms!DecodeCdma(d) = [j \in 1 .. 2 * half |-> Sms!GetBits(d, 13 + 8 * (j - 1), 8)]
  BY <1>2, <1>3, <1>4 DEF Sms!DecodeCdma, Sms!ASCII
<1> QED
  BY <1>1, <1>6, <1>7 DEF half

(***************************************************************************)
(* Septets                                                                  *)
(***************************************************************************)
\* A loop is a function of its variables: of rank, what it does when it is
\* done, the variables of the next round, and what a round adds to that.
IsLoop(f, D, X, done, last, succ, step) ==
    /\ f \in [D -> X]
    /\ \A c \in D : f[c] = IF c \in done THEN last[c] ELSE step[<<c, f[succ[c]]>>]

LEMMA LoopExists ==
    ASSUME NEW D, NEW X, NEW done, NEW last \in [D -> X], NEW succ \in [D -> D],
           NEW step \in [D \X X -> X], NEW N \in Nat, NEW rank \in [D -> 0 .. N],
           \A c \in D : c \notin done => rank[succ[c]] < rank[c]
    PROVE  \E f : IsLoop(f, D, X, done, last, succ, step)
<1> DEFINE Round(h, c) == IF c \in done THEN last[c] ELSE step[<<c, h[succ[c]]>>]
           Upto(k, h) == h \in [D -> X] /\ \A c \in D : rank[c] <= k => h[c] = Round(h, c)
           S == {k \in 0 .. N : ~\E h : Upto(k, h)}
<1>1. S = {}
  <2>1. SUFFICES ASSUME S # {} PROVE FALSE
    OBVIOUS
  <2>2. PICK m \in S : \A k \in S : m <= k
    <3>1. S \subseteq Nat
      OBVIOUS
    <3> HIDE DEF S
    <3> QED
      BY <2>1, <3>1, LeastNumber
  <2>3. m \in 0 .. N /\ ~\E h : Upto(m, h)
    OBVIOUS
  <2>4. CASE m = 0
    <3>1. Upto(0, last)
      OBVIOUS
    <3> HIDE DEF Upto
    <3> QED
      BY <2>3, <2>4, <3>1
  <2>5. CASE m # 0
    <3>1. m - 1 \in 0 .. N /\ ~(m <= m - 1)
      BY <2>3, <2>5
    <3>2. PICK h : Upto(m - 1, h)
      <4>1. m - 1 \notin S
        BY <2>2, <3>1
      <4> HIDE DEF Upto
      <4> QED
        BY <3>1, <4>1
    <3> DEFINE g == [c \in D |-> Round(h, c)]
    <3>3. g \in [D -> X]
      <4> SUFFICES ASSUME NEW c \in D PROVE Round(h, c) \in X
        OBVIOUS
      <4> QED
        BY <3>2
    <3>4. ASSUME NEW c \in D, rank[c] <= m PROVE g[c] = Round(g, c)
      <4>1. CASE c \in done
        BY <4>1
      <4>2. CASE c \notin done
        <5>1. succ[c] \in D /\ rank[succ[c]] < rank[c] /\ rank[c] \in 0 .. N
              /\ rank[succ[c]] \in 0 .. N
          BY <4>2
        <5>2. rank[succ[c]] <= m - 1
          BY <2>3, <3>4, <5>1
        <5>3. g[succ[c]] = h[succ[c]]
          BY <3>2, <5>1, <5>2
        <5> QED
          BY <4>2, <5>3
      <4> QED
        BY <4>1, <4>2
    <3>5. Upto(m, g)
      BY <3>3, <3>4
    <3> HIDE DEF g, Upto
    <3> QED
      BY <2>3, <3>5
  <2> QED
    BY <2>4, <2>5
<1>2. PICK h : Upto(N, h)
  <2>1. N \in 0 .. N
    OBVIOUS
  <2>2. N \notin S
    <3> HIDE DEF S
    <3> QED
      BY <1>1
  <2> HIDE DEF Upto
  <2> QED
    BY <2>1, <2>2
<1>3. \A c \in D : h[c] = Round(h, c)
  <2> SUFFICES ASSUME NEW c \in D PROVE h[c] = Round(h, c)
    OBVIOUS
  <2>1. rank[c] \in 0 .. N
    OBVIOUS
  <2>2. rank[c] <= N
    BY <2>1
  <2> QED
    BY <1>2, <2>2
<1>4. IsLoop(h, D, X, done, last, succ, step)
  BY <1>2, <1>3 DEF IsLoop
<1> QED
  BY <1>4

\* What an octet of septets is made of, and what is found in it: r bits of
\* the septet b have gone before, and 7 - r bits of the next one, a, follow.
Octet(a, b, r) == (a * 2^(7 - r) + b \div 2^r) % 256

\* The bits of b come first: moved to their place, they are what is left of
\* b.  The bits of a come last.
LEMMA OctetBits ==
    ASSUME NEW a \in 0 .. 127, NEW b \in 0 .. 127, NEW r \in 0 .. 6
    PROVE  /\ (Octet(a, b, r) * 2^r) % 128 = b - (b % 2^r)
           /\ Octet(a, b, r) \div 2^(7 - r) = a % 2^(r + 1)
<1>0. CASE r = 0
  <2>1. 7 - r = 7 /\ 2^0 = 1 /\ 2^7 = 128 /\ 2^1 = 2 /\ r + 1 = 1
    BY <1>0, Powers
  <2>2. b \div 1 = b
    OBVIOUS
  <2>3. Octet(a, b, r) = (a * 128 + b) % 256
    BY <1>0, <2>1, <2>2, Zenon DEF Octet
  <2>4. (((a * 128 + b) % 256) * 1) % 128 = b
    OBVIOUS
  <2>5. b = b - (b % 1)
    OBVIOUS
  <2>6. ((a * 128 + b) % 256) \div 128 = a % 2
    OBVIOUS
  <2>7. 2^r = 1 /\ 2^(7 - r) = 128 /\ 2^(r + 1) = 2
    BY <1>0, <2>1, Zenon
  <2> DEFINE o == Octet(a, b, r)
             p == 2^r
             q == 2^(7 - r)
             t == 2^(r + 1)
  <2>8. o = (a * 128 + b) % 256 /\ p = 1 /\ q = 128 /\ t = 2
    BY <2>3, <2>7
  <2> HIDE DEF o, p, q, t
  <2>9. (o * 1) % 128 = b - (b % 1) /\ o \div 128 = a % 2
    BY <2>4, <2>5, <2>6, <2>8
  <2>10. (o * p) % 128 = b - (b % p) /\ o \div q = a % t
    BY <2>8, <2>9
  <2> QED
    BY <2>10 DEF o, p, q, t
<1>1. CASE r = 1
  <2>1. 7 - r = 6 /\ 2^1 = 2 /\ 2^6 = 64 /\ 2^2 = 4 /\ r + 1 = 2
    BY <1>1, Powers
  <2>3. Octet(a, b, r) = (a * 64 + b \div 2) % 256
    BY <1>1, <2>1, Zenon DEF Octet
  <2>4. (((a * 64 + b \div 2) % 256) * 2) % 128 = (b \div 2) * 2
    OBVIOUS
  <2>5. (b \div 2) * 2 = b - (b % 2)
    OBVIOUS
  <2>6. ((a * 64 + b \div 2) % 256) \div 64 = a % 4
    OBVIOUS
  <2>7. 2^r = 2 /\ 2^(7 - r) = 64 /\ 2^(r + 1) = 4
    BY <1>1, <2>1, Zenon
  <2> DEFINE o == Octet(a, b, r)
             p == 2^r
             q == 2^(7 - r)
             t == 2^(r + 1)
  <2>8. o = (a * 64 + b \div 2) % 256 /\ p = 2 /\ q = 64 /\ t = 4
    BY <2>3, <2>7
  <2> HIDE DEF o, p, q, t
  <2>9. (o * 2) % 128 = b - (b % 2) /\ o \div 64 = a % 4
    BY <2>4, <2>5, <2>6, <2>8
  <2>10. (o * p) % 128 = b - (b % p) /\ o \div q = a % t
    BY <2>8, <2>9
  <2> QED
    BY <2>10 DEF o, p, q, t
<1>2. CASE r = 2
  <2>1. 7 - r = 5 /\ 2^2 = 4 /\ 2^5 = 32 /\ 2^3 = 8 /\ r + 1 = 3
    BY <1>2, Powers
  <2>3. Octet(a, b, r) = (a * 32 + b \div 4) % 256
    BY <1>2, <2>1, Zenon DEF Octet
  <2>4. (((a * 32 + b \div 4) % 256) * 4) % 128 = (b \div 4) * 4
    OBVIOUS
  <2>5. (b \div 4) * 4 = b - (b % 4)
    OBVIOUS
  <2>6. ((a * 32 + b \div 4) % 256) \div 32 = a % 8
    OBVIOUS
  <2>7. 2^r = 4 /\ 2^(7 - r) = 32 /\ 2^(r + 1) = 8
    BY <1>2, <2>1, Zenon
  <2> DEFINE o == Octet(a, b, r)
             p == 2^r
             q == 2^(7 - r)
             t == 2^(r + 1)
  <2>8. o = (a * 32 + b \div 4) % 256 /\ p = 4 /\ q = 32 /\ t = 8
    BY <2>3, <2>7
  <2> HIDE DEF o, p, q, t
  <2>9. (o * 4) % 128 = b - (b % 4) /\ o \div 32 = a % 8
    BY <2>4, <2>5, <2>6, <2>8
  <2>10. (o * p) % 128 = b - (b % p) /\ o \div q = a % t
    BY <2>8, <2>9
  <2> QED
    BY <2>10 DEF o, p, q, t
<1>3. CASE r = 3
  <2>1. 7 - r = 4 /\ 2^3 = 8 /\ 2^4 = 16 /\ 2^4 = 16 /\ r + 1 = 4
    BY <1>3, Powers
  <2>3. Octet(a, b, r) = (a * 16 + b \div 8) % 256
    BY <1>3, <2>1, Zenon DEF Octet
  <2>4. (((a * 16 + b \div 8) % 256) * 8) % 128 = (b \div 8) * 8
    OBVIOUS
  <2>5. (b \div 8) * 8 = b - (b % 8)
    OBVIOUS
  <2>6. ((a * 16 + b \div 8) % 256) \div 16 = a % 16
    OBVIOUS
  <2>7. 2^r = 8 /\ 2^(7 - r) = 16 /\ 2^(r + 1) = 16
    BY <1>3, <2>1, Zenon
  <2> DEFINE o == Octet(a, b, r)
             p == 2^r
             q == 2^(7 - r)
             t == 2^(r + 1)
  <2>8. o = (a * 16 + b \div 8) % 256 /\ p = 8 /\ q = 16 /\ t = 16
    BY <2>3, <2>7
  <2> HIDE DEF o, p, q, t
  <2>9. (o * 8) % 128 = b - (b % 8) /\ o \div 16 = a % 16
    BY <2>4, <2>5, <2>6, <2>8
  <2>10. (o * p) % 128 = b - (b % p) /\ o \div q = a % t
    BY <2>8, <2>9
  <2> QED
    BY <2>10 DEF o, p, q, t
<1>4. CASE r = 4
  <2>1. 7 - r = 3 /\ 2^4 = 16 /\ 2^3 = 8 /\ 2^5 = 32 /\ r + 1 = 5
    BY <1>4, Powers
  <2>3. Octet(a, b, r) = (a * 8 + b \div 16) % 256
    BY <1>4, <2>1, Zenon DEF Octet
  <2>4. (((a * 8 + b \div 16) % 256) * 16) % 128 = (b \div 16) * 16
    OBVIOUS
  <2>5. (b \div 16) * 16 = b - (b % 16)
    OBVIOUS
  <2>6. ((a * 8 + b \div 16) % 256) \div 8 = a % 32
    OBVIOUS
  <2>7. 2^r = 16 /\ 2^(7 - r) = 8 /\ 2^(r + 1) = 32
    BY <1>4, <2>1, Zenon
  <2> DEFINE o == Octet(a, b, r)
             p == 2^r
             q == 2^(7 - r)
             t == 2^(r + 1)
  <2>8. o = (a * 8 + b \div 16) % 256 /\ p = 16 /\ q = 8 /\ t = 32
    BY <2>3, <2>7
  <2> HIDE DEF o, p, q, t
  <2>9. (o * 16) % 128 = b - (b % 16) /\ o \div 8 = a % 32
    BY <2>4, <2>5, <2>6, <2>8
  <2>10. (o * p) % 128 = b - (b % p) /\ o \div q = a % t
    BY <2>8, <2>9
  <2> QED
    BY <2>10 DEF o, p, q, t
<1>5. CASE r = 5
  <2>1. 7 - r = 2 /\ 2^5 = 32 /\ 2^2 = 4 /\ 2^6 = 64 /\ r + 1 = 6
    BY <1>5, Powers
  <2>3. Octet(a, b, r) = (a * 4 + b \div 32) % 256
    BY <1>5, <2>1, Zenon DEF Octet
  <2>4. (((a * 4 + b \div 32) % 256) * 32) % 128 = (b \div 32) * 32
    OBVIOUS
  <2>5. (b \div 32) * 32 = b - (b % 32)
    OBVIOUS
  <2>6. ((a * 4 + b \div 32) % 256) \div 4 = a % 64
    OBVIOUS
  <2>7. 2^r = 32 /\ 2^(7 - r) = 4 /\ 2^(r + 1) = 64
    BY <1>5, <2>1, Zenon
  <2> DEFINE o == Octet(a, b, r)
             p == 2^r
             q == 2^(7 - r)
             t == 2^(r + 1)
  <2>8. o = (a * 4 + b \div 32) % 256 /\ p = 32 /\ q = 4 /\ t = 64
    BY <2>3, <2>7
  <2> HIDE DEF o, p, q, t
  <2>9. (o * 32) % 128 = b - (b % 32) /\ o \div 4 = a % 64
    BY <2>4, <2>5, <2>6, <2>8
  <2>10. (o * p) % 128 = b - (b % p) /\ o \div q = a % t
    BY <2>8, <2>9
  <2> QED
    BY <2>10 DEF o, p, q, t
<1>6. CASE r = 6
  <2>1. 7 - r = 1 /\ 2^6 = 64 /\ 2^1 = 2 /\ 2^7 = 128 /\ r + 1 = 7
    BY <1>6, Powers
  <2>3. Octet(a, b, r) = (a * 2 + b \div 64) % 256
    BY <1>6, <2>1, Zenon DEF Octet
  <2>4. (((a * 2 + b \div 64) % 256) * 64) % 128 = (b \div 64) * 64
    OBVIOUS
  <2>5. (b \div 64) * 64 = b - (b % 64)
    OBVIOUS
  <2>6. ((a * 2 + b \div 64) % 256) \div 2 = a % 128
    OBVIOUS
  <2>7. 2^r = 64 /\ 2^(7 - r) = 2 /\ 2^(r + 1) = 128
    BY <1>6, <2>1, Zenon
  <2> DEFINE o == Octet(a, b, r)
             p == 2^r
             q == 2^(7 - r)
             t == 2^(r + 1)
  <2>8. o = (a * 2 + b \div 64) % 256 /\ p = 64 /\ q = 2 /\ t = 128
    BY <2>3, <2>7
  <2> HIDE DEF o, p, q, t
  <2>9. (o * 64) % 128 = b - (b % 64) /\ o \div 2 = a % 128
    BY <2>4, <2>5, <2>6, <2>8
  <2>10. (o * p) % 128 = b - (b % p) /\ o \div q = a % t
    BY <2>8, <2>9
  <2> QED
    BY <2>10 DEF o, p, q, t
<1> QED
  BY <1>0, <1>1, <1>2, <1>3, <1>4, <1>5, <1>6

LEMMA OctetType ==
    ASSUME NEW a \in 0 .. 127, NEW b \in 0 .. 127, NEW r \in 0 .. 6
    PROVE  Octet(a, b, r) \in 0 .. 255
<1> DEFINE p == 2^(7 - r)
           q == 2^r
<1>1. p \in Nat \ {0}
  <2>1. 7 - r \in 0 .. 7
    OBVIOUS
  <2> QED
    BY <2>1, PowerType
<1>2. q \in Nat \ {0}
  <2>1. r \in 0 .. 7
    OBVIOUS
  <2> QED
    BY <2>1, PowerType
<1>3. Octet(a, b, r) = (a * p + b \div q) % 256
  BY DEF Octet
<1> HIDE DEF p, q
<1>4. a * p \in Int /\ b \div q \in Int
  BY <1>1, <1>2
<1>5. a * p + b \div q \in Int
  BY <1>4
<1> QED
  BY <1>3, <1>5

\* A sequence with one more element at its head.
LEMMA Cons ==
    ASSUME NEW X, NEW x \in X, NEW s \in Seq(X)
    PROVE  /\ <<x>> \o s \in Seq(X)
           /\ Len(<<x>> \o s) = Len(s) + 1
           /\ (<<x>> \o s)[1] = x
           /\ \A k \in 1 .. Len(s) : (<<x>> \o s)[k + 1] = s[k]
OBVIOUS

\* The characters of a message, numbered from 0, and zeros after it.
Char(message, i) == IF i < Len(message) THEN message[i + 1] ELSE 0

\* Round n of both loops is at the character n + n \div 7, of which n % 7 bits
\* are in the octet before.
Rounds(L) == L - L \div 8
At(n)     == n + n \div 7

GsmOctet(message, n) == Octet(Char(message, At(n) + 1), Char(message, At(n)), n % 7)

LEMMA RoundsType ==
    ASSUME NEW L \in Nat
    PROVE  Rounds(L) \in Nat /\ At(0) = 0
BY DEF Rounds, At

LEMMA AtIs ==
    ASSUME NEW L \in Nat, NEW n \in Nat, n <= Rounds(L)
    PROVE  /\ At(n) \in Nat /\ At(n) <= L + 1 /\ n % 7 \in 0 .. 6
           /\ n = Rounds(L) => At(n) >= L
           /\ n < Rounds(L) => At(n) < L
           /\ n % 7 = 6 => At(n + 1) = At(n) + 2 /\ (n + 1) % 7 = 0
           /\ n % 7 # 6 => At(n + 1) = At(n) + 1 /\ (n + 1) % 7 = (n % 7) + 1
<1> DEFINE K == Rounds(L)
<1>1. K = L - L \div 8
  BY DEF Rounds
<1>2. At(n) = n + n \div 7 /\ At(n + 1) = n + 1 + (n + 1) \div 7
  BY DEF At
<1>3. n % 7 \in 0 .. 6 /\ n = 7 * (n \div 7) + (n % 7) /\ n \div 7 \in Nat
  OBVIOUS
<1>4. L % 8 \in 0 .. 7 /\ L = 8 * (L \div 8) + (L % 8) /\ L \div 8 \in Nat
  OBVIOUS
<1>5. n = K => At(n) >= L
  BY <1>1, <1>2
<1>6. n < K => At(n) < L
  BY <1>1, <1>2
<1>7. At(n) \in Nat /\ At(n) <= L + 1
  BY <1>1, <1>2
<1>8. n % 7 = 6 => (n + 1) \div 7 = n \div 7 + 1 /\ (n + 1) % 7 = 0
  OBVIOUS
<1>9. n % 7 # 6 => (n + 1) \div 7 = n \div 7 /\ (n + 1) % 7 = (n % 7) + 1
  OBVIOUS
<1>10. n % 7 = 6 => At(n + 1) = At(n) + 2
  BY <1>2, <1>3, <1>8
<1>11. n % 7 # 6 => At(n + 1) = At(n) + 1
  BY <1>2, <1>3, <1>9
<1> QED
  BY <1>3, <1>5, <1>6, <1>7, <1>8, <1>9, <1>10, <1>11

LEMMA CharType ==
    ASSUME NEW message \in Seq(0 .. 127), NEW i \in Nat
    PROVE  Char(message, i) \in 0 .. 127
<1>1. CASE i < Len(message)
  <2>1. i + 1 \in 1 .. Len(message)
    BY <1>1
  <2> QED
    BY <1>1, <2>1, ElementOfSeq DEF Char
<1>2. CASE ~(i < Len(message))
  BY <1>2 DEF Char
<1> QED
  BY <1>1, <1>2

LEMMA GsmOctetType ==
    ASSUME NEW message \in Seq(0 .. 127), NEW n \in Nat
    PROVE  GsmOctet(message, n) \in 0 .. 255
<1> DEFINE a == Char(message, At(n) + 1)
           b == Char(message, At(n))
<1>1. At(n) \in Nat /\ At(n) + 1 \in Nat /\ n % 7 \in 0 .. 6
  BY DEF At
<1>2. a \in 0 .. 127
  BY <1>1, CharType
<1>3. b \in 0 .. 127
  BY <1>1, CharType
<1> HIDE DEF a, b
<1>4. Octet(a, b, n % 7) \in 0 .. 255
  BY <1>1, <1>2, <1>3, OctetType
<1> QED
  BY <1>4 DEF GsmOctet, a, b

(***************************************************************************)
(* encode_gsm_sms_pdu                                                       *)
(***************************************************************************)
EncodeVars(L) == [i : 0 .. L + 1, s : 1 .. 7]
EncodeNext(c) == IF c.s = 1 THEN [i |-> c.i + 2, s |-> 7] ELSE [i |-> c.i + 1, s |-> c.s - 1]
Sent(message, c) ==
    (Char(message, c.i + 1) * 2^c.s + Char(message, c.i) \div 2^(7 - c.s)) % 256

EncodeLoop(message) ==
    CHOOSE f : f = [c \in EncodeVars(Len(message)) |->
                      IF c.i >= Len(message) THEN << >>
                      ELSE <<Sent(message, c)>> \o f[EncodeNext(c)]]

IsEncodeLoop(f, message) ==
    \A c \in EncodeVars(Len(message)) :
        f[c] = IF c.i >= Len(message) THEN << >>
               ELSE <<Sent(message, c)>> \o f[EncodeNext(c)]

LEMMA EncodeGsmIs ==
    ASSUME NEW message
    PROVE  Sms!EncodeGsm(message) = EncodeLoop(message)[[i |-> 0, s |-> 7]]
BY DEF Sms!EncodeGsm, EncodeLoop, EncodeVars, EncodeNext, Sent, Char

LEMMA SentType ==
    ASSUME NEW message \in Seq(0 .. 127), NEW i \in Nat, NEW s \in 1 .. 7,
           NEW c, c.i = i, c.s = s
    PROVE  /\ Sent(message, c) = Octet(Char(message, i + 1), Char(message, i), 7 - s)
           /\ Sent(message, c) \in 0 .. 255
<1>1. 7 - (7 - s) = s /\ 7 - s \in 0 .. 6 /\ i + 1 \in Nat
  OBVIOUS
<1>2. Sent(message, c) = Octet(Char(message, i + 1), Char(message, i), 7 - s)
  BY <1>1, Zenon DEF Sent, Octet
<1>3. Char(message, i + 1) \in 0 .. 127
  BY <1>1, CharType
<1>4. Char(message, i) \in 0 .. 127
  BY CharType
<1>5. Octet(Char(message, i + 1), Char(message, i), 7 - s) \in 0 .. 255
  BY <1>1, <1>3, <1>4, OctetType
<1> QED
  BY <1>2, <1>5, Zenon

LEMMA EncodeLoopIs ==
    ASSUME NEW message \in Seq(0 .. 127)
    PROVE  IsEncodeLoop(EncodeLoop(message), message)
<1> DEFINE L == Len(message)
           D == EncodeVars(L)
           X == Seq(0 .. 255)
           done == {c \in D : c.i >= L}
           last == [c \in D |-> << >>]
           succ == [c \in D |-> IF c.i >= L THEN c ELSE EncodeNext(c)]
           step == [p \in D \X X |-> <<Sent(message, p[1])>> \o p[2]]
           rank == [c \in D |-> L + 1 - c.i]
           Body(f) == [c \in D |-> IF c.i >= L THEN << >>
                                   ELSE <<Sent(message, c)>> \o f[EncodeNext(c)]]
           e == EncodeLoop(message)
<1>0. L \in Nat
  OBVIOUS
<1> HIDE DEF L
<1>1. last \in [D -> X]
  OBVIOUS
<1>2. succ \in [D -> D]
  BY <1>0 DEF EncodeVars, EncodeNext
<1>3. step \in [D \X X -> X]
  <2> SUFFICES ASSUME NEW c \in D, NEW x \in X PROVE <<Sent(message, c)>> \o x \in X
    OBVIOUS
  <2>1. c.i \in Nat /\ c.s \in 1 .. 7
    BY <1>0 DEF EncodeVars
  <2>2. Sent(message, c) \in 0 .. 255
    BY <2>1, SentType
  <2> QED
    BY <2>2, Cons
<1>4. rank \in [D -> 0 .. L + 1]
  BY <1>0 DEF EncodeVars
<1>5. \A c \in D : c \notin done => rank[succ[c]] < rank[c]
  BY <1>0, <1>2 DEF EncodeVars, EncodeNext
<1>6. PICK f : IsLoop(f, D, X, done, last, succ, step)
  <2>1. L + 1 \in Nat
    BY <1>0
  <2> HIDE DEF D, X, done, last, succ, step, rank
  <2> QED
    BY <1>1, <1>2, <1>3, <1>4, <1>5, <2>1, LoopExists
<1>7. f \in [D -> X] /\ \A c \in D : f[c] = IF c \in done THEN last[c] ELSE step[<<c, f[succ[c]]>>]
  BY <1>6 DEF IsLoop
<1>8. f = Body(f)
  <2>1. ASSUME NEW c \in D PROVE f[c] = Body(f)[c]
    <3>1. CASE c \in done
      BY <1>7, <3>1
    <3>2. CASE c \notin done
      <4>1. succ[c] = EncodeNext(c) /\ succ[c] \in D
        BY <1>2, <3>2
      <4>2. f[c] = step[<<c, f[EncodeNext(c)]>>] /\ f[EncodeNext(c)] \in X
        BY <1>7, <3>2, <4>1
      <4>3. step[<<c, f[EncodeNext(c)]>>] = <<Sent(message, c)>> \o f[EncodeNext(c)]
        BY <4>2
      <4> QED
        BY <3>2, <4>2, <4>3
    <3> QED
      BY <3>1, <3>2
  <2> QED
    BY <1>7, <2>1
<1>9. e = Body(e)
  BY <1>8 DEF EncodeLoop, L
<1> HIDE DEF e
<1>10. \A c \in D : e[c] = IF c.i >= L THEN << >> ELSE <<Sent(message, c)>> \o e[EncodeNext(c)]
  BY <1>9
<1> QED
  BY <1>10 DEF IsEncodeLoop, e, L

\* From round n on, the octets of the message from number n on are sent.
Octets(q, message, n) ==
    /\ q \in Seq(0 .. 255)
    /\ Len(q) = Rounds(Len(message)) - n
    /\ \A k \in 1 .. Rounds(Len(message)) - n : q[k] = GsmOctet(message, n + k - 1)

AtRound(n) == [i |-> At(n), s |-> 7 - (n % 7)]

LEMMA EncodeRound ==
    ASSUME NEW message \in Seq(0 .. 127), NEW f, IsEncodeLoop(f, message),
           NEW n \in Nat, n < Rounds(Len(message)), Octets(f[AtRound(n + 1)], message, n + 1)
    PROVE  Octets(f[AtRound(n)], message, n)
<1> DEFINE L == Len(message)
           K == Rounds(L)
           c == AtRound(n)
           q == f[AtRound(n + 1)]
           x == GsmOctet(message, n)
<1>0. L \in Nat /\ K \in Nat /\ n + 1 \in Nat
  BY RoundsType
<1>1. /\ At(n) \in Nat /\ At(n) <= L + 1 /\ n % 7 \in 0 .. 6 /\ At(n) < L
      /\ n % 7 = 6 => At(n + 1) = At(n) + 2 /\ (n + 1) % 7 = 0
      /\ n % 7 # 6 => At(n + 1) = At(n) + 1 /\ (n + 1) % 7 = (n % 7) + 1
  <2> HIDE DEF L
  <2>1. n <= Rounds(L) /\ n < Rounds(L)
    BY <1>0 DEF L
  <2> QED
    BY <1>0, <2>1, AtIs
<1> DEFINE r == n % 7
           i == At(n)
<1> HIDE DEF r, i
<1>2. i \in Nat /\ i < L /\ r \in 0 .. 6 /\ c = [i |-> i, s |-> 7 - r] /\ c \in EncodeVars(L)
  <2>1. i \in Nat /\ i < L /\ r \in 0 .. 6 /\ c = [i |-> i, s |-> 7 - r]
    BY <1>1 DEF AtRound, r, i
  <2> QED
    BY <1>0, <2>1 DEF EncodeVars
<1>3. EncodeNext(c) = AtRound(n + 1)
  <2>1. CASE r = 6
    <3>1. 7 - r = 1 /\ At(n + 1) = i + 2 /\ (n + 1) % 7 = 0
      BY <1>1, <2>1 DEF r, i
    <3> QED
      BY <1>2, <3>1 DEF EncodeNext, AtRound
  <2>2. CASE r # 6
    <3>1. 7 - r # 1 /\ At(n + 1) = i + 1 /\ (n + 1) % 7 = r + 1
      BY <1>1, <1>2, <2>2 DEF r, i
    <3>2. 7 - (r + 1) = (7 - r) - 1
      BY <1>2
    <3> QED
      BY <1>2, <3>1, <3>2 DEF EncodeNext, AtRound
  <2> QED
    BY <2>1, <2>2
<1>4. Sent(message, c) = x
  <2>1. c.i = i /\ c.s = 7 - r /\ 7 - r \in 1 .. 7 /\ 7 - (7 - r) = r
    BY <1>2
  <2>2. Sent(message, c) = Octet(Char(message, i + 1), Char(message, i), 7 - (7 - r))
    BY <1>2, <2>1, SentType
  <2> QED
    BY <2>1, <2>2 DEF GsmOctet, r, i
<1>5. f[c] = <<x>> \o q
  <2>1. ~(c.i >= L)
    BY <1>0, <1>2
  <2>2. f[c] = <<Sent(message, c)>> \o f[EncodeNext(c)]
    BY <1>2, <2>1 DEF IsEncodeLoop
  <2> QED
    BY <1>3, <1>4, <2>2
<1>6. x \in 0 .. 255
  BY GsmOctetType
<1>7. /\ q \in Seq(0 .. 255) /\ Len(q) = K - (n + 1)
      /\ \A k \in 1 .. K - (n + 1) : q[k] = GsmOctet(message, (n + 1) + k - 1)
  BY DEF Octets
<1> DEFINE p == <<x>> \o q
<1>8. /\ p \in Seq(0 .. 255) /\ Len(p) = Len(q) + 1 /\ p[1] = x
      /\ \A k \in 1 .. Len(q) : p[k + 1] = q[k]
  BY <1>6, <1>7, Cons
<1>9. ASSUME NEW k \in 1 .. K - n PROVE p[k] = GsmOctet(message, n + k - 1)
  <2>1. CASE k = 1
    <3>1. n + 1 - 1 = n
      OBVIOUS
    <3> HIDE DEF p
    <3> QED
      BY <1>8, <2>1, <3>1
  <2>2. CASE k # 1
    <3>1. k - 1 \in 1 .. K - (n + 1) /\ (k - 1) + 1 = k /\ (n + 1) + (k - 1) - 1 = n + k - 1
      BY <1>0, <2>2
    <3> HIDE DEF p, q, x
    <3>2. p[(k - 1) + 1] = q[k - 1]
      BY <1>7, <1>8, <3>1
    <3> QED
      BY <1>7, <3>1, <3>2
  <2> QED
    BY <2>1, <2>2
<1> HIDE DEF p, q, x
<1>10. Len(p) = K - n
  BY <1>0, <1>7, <1>8
<1>11. f[AtRound(n)] = p
  BY <1>5 DEF p
<1> QED
  BY <1>8, <1>9, <1>10, <1>11 DEF Octets

LEMMA EncodeIs ==
    ASSUME NEW message \in Seq(0 .. 127)
    PROVE  Octets(Sms!EncodeGsm(message), message, 0)
<1> DEFINE L == Len(message)
           K == Rounds(L)
           f == EncodeLoop(message)
           Good(n) == Octets(f[AtRound(n)], message, n)
           S == {n \in 0 .. K : ~Good(n)}
<1>0. L \in Nat /\ K \in Nat
  BY RoundsType
<1>1. IsEncodeLoop(f, message)
  BY EncodeLoopIs
<1> HIDE DEF f
<1>2. Good(K)
  <2>1. At(K) \in Nat /\ At(K) <= L + 1 /\ At(K) >= L /\ K % 7 \in 0 .. 6
    <3> HIDE DEF L
    <3>1. K <= Rounds(L) /\ K = Rounds(L)
      BY <1>0
    <3> QED
      BY <1>0, <3>1, AtIs
  <2>2. AtRound(K) \in EncodeVars(L) /\ AtRound(K).i = At(K)
    BY <1>0, <2>1 DEF AtRound, EncodeVars
  <2>3. f[AtRound(K)] = << >>
    BY <1>1, <2>1, <2>2 DEF IsEncodeLoop
  <2>4. K - K = 0
    BY <1>0
  <2> QED
    BY <2>3, <2>4 DEF Octets
<1>3. ASSUME NEW n \in Nat, n < K, Good(n + 1) PROVE Good(n)
  BY <1>1, <1>3, EncodeRound
<1>4. S = {}
  <2>1. SUFFICES ASSUME S # {} PROVE FALSE
    OBVIOUS
  <2>2. PICK m \in S : \A k \in S : k <= m
    <3>1. S \subseteq 0 .. K
      OBVIOUS
    <3> HIDE DEF S, K
    <3> QED
      BY <1>0, <2>1, <3>1, GreatestNumber
  <2>3. m \in 0 .. K /\ ~Good(m)
    OBVIOUS
  <2> HIDE DEF Good, K
  <2>4. m \in Nat /\ m < K /\ m + 1 \in 0 .. K /\ ~(m + 1 <= m)
    BY <1>0, <1>2, <2>3
  <2>5. Good(m + 1)
    BY <2>2, <2>4
  <2> QED
    BY <1>3, <2>3, <2>4, <2>5
<1>5. Good(0)
  <2>1. 0 \in 0 .. K
    BY <1>0
  <2> HIDE DEF Good
  <2> QED
    BY <1>4, <2>1
<1>6. AtRound(0) = [i |-> 0, s |-> 7]
  <2>1. 0 % 7 = 0 /\ 7 - 0 = 7 /\ At(0) = 0
    BY DEF At
  <2> QED
    BY <2>1 DEF AtRound
<1>7. Sms!EncodeGsm(message) = f[AtRound(0)]
  BY <1>6, EncodeGsmIs DEF f
<1> QED
  BY <1>5, <1>7

(***************************************************************************)
(* decode_gsm_sms_pdu                                                       *)
(***************************************************************************)
DecodeVars(K) == [i : 0 .. K, s : 1 .. 7, v : 0 .. 127]
Found(data, c)      == ((data[c.i + 1] * 2^(c.s - 1)) % 128) + c.v
Left(data, c)       == data[c.i + 1] \div 2^(8 - c.s)
DecodeNext(data, c) == IF c.s = 7 THEN [i |-> c.i + 1, s |-> 1, v |-> 0]
                       ELSE [i |-> c.i + 1, s |-> c.s + 1, v |-> Left(data, c)]
DecodeOne(data, c)  == IF c.s = 7 THEN <<Found(data, c), Left(data, c)>>
                       ELSE <<Found(data, c)>>

DecodeLoop(data) ==
    CHOOSE f : f = [c \in DecodeVars(Len(data)) |->
                      IF c.i >= Len(data) THEN <<c.v>>
                      ELSE IF c.s = 7
                      THEN <<Found(data, c), Left(data, c)>> \o f[[i |-> c.i + 1, s |-> 1, v |-> 0]]
                      ELSE <<Found(data, c)>>
                             \o f[[i |-> c.i + 1, s |-> c.s + 1, v |-> Left(data, c)]]]

IsDecodeLoop(f, data) ==
    \A c \in DecodeVars(Len(data)) :
        f[c] = IF c.i >= Len(data) THEN <<c.v>>
               ELSE DecodeOne(data, c) \o f[DecodeNext(data, c)]

LEMMA DecodeGsmIs ==
    ASSUME NEW data, NEW length
    PROVE  Sms!DecodeGsm(data, length)
             = SubSeq(DecodeLoop(data)[[i |-> 0, s |-> 1, v |-> 0]], 1, length)
BY DEF Sms!DecodeGsm, DecodeLoop, DecodeVars, Found, Left

LEMMA HalfOfOctet ==
    ASSUME NEW o \in 0 .. 255, NEW n \in 1 .. 7
    PROVE  o \div 2^n \in 0 .. 127
<1>1. CASE n = 1  BY <1>1
<1>2. CASE n = 2  BY <1>2
<1>3. CASE n = 3  BY <1>3
<1>4. CASE n = 4  BY <1>4
<1>5. CASE n = 5  BY <1>5
<1>6. CASE n = 6  BY <1>6
<1>7. CASE n = 7  BY <1>7
<1> QED
  BY <1>1, <1>2, <1>3, <1>4, <1>5, <1>6, <1>7

LEMMA SeptetIsNat == ASSUME NEW x, x \in 0 .. 127 PROVE x \in Nat
OBVIOUS

LEMMA DecodeTypes ==
    ASSUME NEW data \in Seq(0 .. 255), NEW c \in DecodeVars(Len(data)), c.i < Len(data)
    PROVE  /\ Found(data, c) \in Nat /\ Left(data, c) \in 0 .. 127
           /\ DecodeNext(data, c) \in DecodeVars(Len(data))
           /\ DecodeNext(data, c).i = c.i + 1
           /\ DecodeOne(data, c) \in Seq(Nat)
<1> DEFINE L == Len(data)
           o == data[c.i + 1]
<1>0. L \in Nat
  OBVIOUS
<1>1. c.i \in Nat /\ c.i < L /\ c.s \in 1 .. 7 /\ c.v \in 0 .. 127 /\ c.i + 1 \in 1 .. L
  BY <1>0 DEF DecodeVars
<1>2. o \in 0 .. 255
  <2>1. \A k \in 1 .. Len(data) : data[k] \in 0 .. 255
    BY ElementOfSeq
  <2> QED
    BY <1>1, <2>1
<1> HIDE DEF o
<1>3. 8 - c.s \in 1 .. 7 /\ c.s - 1 \in 0 .. 7
  BY <1>1
<1>4. Left(data, c) \in 0 .. 127
  BY <1>2, <1>3, HalfOfOctet DEF Left, o
<1>5. Found(data, c) \in Nat
  <2> DEFINE p == 2^(c.s - 1)
  <2>1. p \in Nat
    BY <1>3, PowerType
  <2>2. Found(data, c) = ((o * p) % 128) + c.v
    BY DEF Found, o
  <2> HIDE DEF p
  <2>3. o * p \in Nat
    BY <1>2, <2>1
  <2> DEFINE x == (o * p) % 128
  <2>4. x \in Nat
    BY <2>3
  <2>6. c.v \in Nat
    BY <1>1, SeptetIsNat
  <2>5. Found(data, c) = x + c.v
    BY <2>2
  <2> HIDE DEF x
  <2> QED
    BY <2>4, <2>5, <2>6
<1>6. DecodeNext(data, c) \in DecodeVars(L) /\ DecodeNext(data, c).i = c.i + 1
  <2> HIDE DEF L
  <2> QED
    BY <1>0, <1>1, <1>4 DEF DecodeVars, DecodeNext
<1>7. DecodeOne(data, c) \in Seq(Nat)
  <2>1. Left(data, c) \in Nat
    BY <1>4, SeptetIsNat
  <2>2. <<Found(data, c), Left(data, c)>> \in Seq(Nat) /\ <<Found(data, c)>> \in Seq(Nat)
    BY <1>5, <2>1
  <2> QED
    BY <2>2 DEF DecodeOne
<1> QED
  BY <1>4, <1>5, <1>6, <1>7

LEMMA DecodeLoopIs ==
    ASSUME NEW data \in Seq(0 .. 255)
    PROVE  IsDecodeLoop(DecodeLoop(data), data)
<1> DEFINE L == Len(data)
           D == DecodeVars(L)
           X == Seq(Nat)
           done == {c \in D : c.i >= L}
           last == [c \in D |-> <<c.v>>]
           succ == [c \in D |-> IF c.i >= L THEN c ELSE DecodeNext(data, c)]
           step == [p \in D \X X |-> IF p[1].i >= L THEN p[2] ELSE DecodeOne(data, p[1]) \o p[2]]
           rank == [c \in D |-> L - c.i]
           Body(f) == [c \in D |->
                      IF c.i >= L THEN <<c.v>>
                      ELSE IF c.s = 7
                      THEN <<Found(data, c), Left(data, c)>> \o f[[i |-> c.i + 1, s |-> 1, v |-> 0]]
                      ELSE <<Found(data, c)>>
                             \o f[[i |-> c.i + 1, s |-> c.s + 1, v |-> Left(data, c)]]]
           e == DecodeLoop(data)
<1>0. L \in Nat
  OBVIOUS
<1>a. ASSUME NEW c \in D, ~(c.i >= L)
      PROVE  /\ DecodeNext(data, c) \in D /\ DecodeNext(data, c).i = c.i + 1
             /\ DecodeOne(data, c) \in X
  <2>1. c.i < L
    BY <1>0, <1>a DEF DecodeVars
  <2> QED
    BY <2>1, DecodeTypes
<1> HIDE DEF L
<1>1. last \in [D -> X]
  <2> SUFFICES ASSUME NEW c \in D PROVE <<c.v>> \in X
    OBVIOUS
  <2>1. c.v \in 0 .. 127
    BY DEF DecodeVars
  <2>2. c.v \in Nat
    BY <2>1, SeptetIsNat
  <2> QED
    BY <2>2
<1>2. succ \in [D -> D]
  <2> SUFFICES ASSUME NEW c \in D PROVE (IF c.i >= L THEN c ELSE DecodeNext(data, c)) \in D
    OBVIOUS
  <2> HIDE DEF D
  <2> QED
    BY <1>a
<1>3. step \in [D \X X -> X]
  <2> SUFFICES ASSUME NEW c \in D, NEW x \in X
               PROVE  (IF c.i >= L THEN x ELSE DecodeOne(data, c) \o x) \in X
    OBVIOUS
  <2>1. CASE c.i >= L
    BY <2>1
  <2>2. CASE ~(c.i >= L)
    <3>1. DecodeOne(data, c) \in X
      <4> HIDE DEF D, X
      <4> QED
        BY <1>a, <2>2
    <3> QED
      BY <2>2, <3>1
  <2> QED
    BY <2>1, <2>2
<1>4. rank \in [D -> 0 .. L]
  BY <1>0 DEF DecodeVars
<1>5. ASSUME NEW c \in D, c \notin done PROVE rank[succ[c]] < rank[c]
  <2>1. ~(c.i >= L) /\ c.i \in Int
    BY <1>5 DEF DecodeVars
  <2>2. DecodeNext(data, c) \in D /\ DecodeNext(data, c).i = c.i + 1
    <3> HIDE DEF D
    <3> QED
      BY <1>a, <2>1
  <2>3. succ[c] = DecodeNext(data, c)
    BY <2>1
  <2>4. rank[succ[c]] = L - (c.i + 1) /\ rank[c] = L - c.i
    BY <2>2, <2>3
  <2> HIDE DEF rank
  <2> QED
    BY <1>0, <2>1, <2>4
<1>6. PICK f : IsLoop(f, D, X, done, last, succ, step)
  <2> HIDE DEF D, X, done, last, succ, step, rank
  <2> QED
    BY <1>0, <1>1, <1>2, <1>3, <1>4, <1>5, LoopExists
<1>7. f \in [D -> X] /\ \A c \in D : f[c] = IF c \in done THEN last[c] ELSE step[<<c, f[succ[c]]>>]
  BY <1>6 DEF IsLoop
<1>8. ASSUME NEW c \in D, ~(c.i >= L)
      PROVE  f[c] = DecodeOne(data, c) \o f[DecodeNext(data, c)]
  <2>1. DecodeNext(data, c) \in D
    <3> HIDE DEF D
    <3> QED
      BY <1>a, <1>8
  <2>2. succ[c] = DecodeNext(data, c) /\ c \notin done
    BY <1>8
  <2>3. f[c] = step[<<c, f[DecodeNext(data, c)]>>] /\ f[DecodeNext(data, c)] \in X
    BY <1>7, <2>1, <2>2
  <2>4. step[<<c, f[DecodeNext(data, c)]>>] = DecodeOne(data, c) \o f[DecodeNext(data, c)]
    BY <1>8, <2>3
  <2> QED
    BY <2>3, <2>4
<1>9. f = Body(f)
  <2>1. ASSUME NEW c \in D PROVE f[c] = Body(f)[c]
    <3>1. CASE c.i >= L
      BY <1>7, <3>1
    <3>2. CASE ~(c.i >= L)
      <4>1. f[c] = DecodeOne(data, c) \o f[DecodeNext(data, c)]
        BY <1>8, <3>2
      <4>2. CASE c.s = 7
        <5>1. DecodeOne(data, c) = <<Found(data, c), Left(data, c)>>
              /\ DecodeNext(data, c) = [i |-> c.i + 1, s |-> 1, v |-> 0]
          BY <4>2 DEF DecodeOne, DecodeNext
        <5> QED
          BY <3>2, <4>1, <4>2, <5>1
      <4>3. CASE c.s # 7
        <5>1. DecodeOne(data, c) = <<Found(data, c)>>
              /\ DecodeNext(data, c) = [i |-> c.i + 1, s |-> c.s + 1, v |-> Left(data, c)]
          BY <4>3 DEF DecodeOne, DecodeNext
        <5> QED
          BY <3>2, <4>1, <4>3, <5>1
      <4> QED
        BY <4>2, <4>3
    <3> QED
      BY <3>1, <3>2
  <2> QED
    BY <1>7, <2>1
<1>10. e = Body(e)
  BY <1>9 DEF DecodeLoop, L
<1> HIDE DEF e
<1>11. ASSUME NEW c \in D
       PROVE  e[c] = IF c.i >= L THEN <<c.v>> ELSE DecodeOne(data, c) \o e[DecodeNext(data, c)]
  BY <1>10 DEF DecodeOne, DecodeNext
<1> QED
  BY <1>11 DEF IsDecodeLoop, e, L

\* From a round on, the characters from number j on are found.
Decoded(q, message, j) ==
    /\ q \in Seq(Nat)
    /\ \A k \in 1 .. Len(message) - j : k <= Len(q) /\ q[k] = message[j + k]

Before(data, n)   == IF n % 7 = 0 THEN 0 ELSE data[n] \div 2^(8 - (n % 7))
DecodeAt(data, n) == [i |-> n, s |-> (n % 7) + 1, v |-> Before(data, n)]

\* What an octet has of the next character is what the next octet lacks.
LEMMA BeforeIs ==
    ASSUME NEW message \in Seq(0 .. 127), NEW data, Octets(data, message, 0),
           NEW n \in Nat, n <= Rounds(Len(message))
    PROVE  /\ Before(data, n) \in 0 .. 127
           /\ Before(data, n) = Char(message, At(n)) % 2^(n % 7)
<1> DEFINE L == Len(message)
           b == Char(message, At(n))
<1>0. L \in Nat /\ Rounds(L) \in Nat
  BY RoundsType
<1>1. n % 7 \in 0 .. 6 /\ At(n) \in Nat
  BY DEF At
<1>2. b \in 0 .. 127
  BY <1>1, CharType
<1>3. CASE n % 7 = 0
  <2>1. Before(data, n) = 0
    BY <1>3 DEF Before
  <2> HIDE DEF b
  <2>2. b % 1 = 0 /\ 2^0 = 1 /\ 0 \in 0 .. 127
    BY <1>2, Powers
  <2>3. b % 2^(n % 7) = 0
    BY <1>3, <2>2, Zenon
  <2> QED
    BY <2>1, <2>2, <2>3 DEF b
<1>4. CASE n % 7 # 0
  <2> DEFINE r == (n - 1) % 7
             a == Char(message, At(n - 1))
             o == GsmOctet(message, n - 1)
  <2>1. n \in 1 .. Rounds(L) /\ n - 1 \in Nat /\ (n - 1) + 1 = n /\ n - 1 <= Rounds(L)
    BY <1>0, <1>4
  <2>2. r \in 0 .. 6 /\ r # 6 /\ n % 7 = r + 1
    <3>1. n \in Nat /\ n % 7 # 0 => (n - 1) % 7 = (n % 7) - 1
      OBVIOUS
    <3>2. r = (n % 7) - 1
      BY <1>4, <3>1
    <3> HIDE DEF r
    <3> QED
      BY <1>1, <1>4, <3>2
  <2>3. At(n) = At(n - 1) + 1 /\ At(n - 1) \in Nat
    <3> HIDE DEF L
    <3>1. At(n - 1) \in Nat /\ ((n - 1) % 7 # 6 => At((n - 1) + 1) = At(n - 1) + 1)
      BY <1>0, <2>1, AtIs
    <3> QED
      BY <2>1, <2>2, <3>1
  <2>4. data[n] = o
    <3>1. Rounds(L) - 0 = Rounds(L) /\ 0 + n - 1 = n - 1
      BY <1>0, <2>1
    <3> QED
      BY <2>1, <3>1 DEF Octets
  <2>5. o = Octet(b, a, r)
    BY <2>3 DEF GsmOctet
  <2>6. a \in 0 .. 127
    BY <2>3, CharType
  <2> HIDE DEF r, a, b, o
  <2>7. Octet(b, a, r) \div 2^(7 - r) = b % 2^(r + 1)
    BY <1>2, <2>2, <2>6, OctetBits
  <2>8. 8 - (n % 7) = 7 - r
    BY <2>2
  <2>9. Before(data, n) = b % 2^(n % 7)
    BY <1>4, <2>2, <2>4, <2>5, <2>7, <2>8, Zenon DEF Before
  <2>10. Octet(b, a, r) \in 0 .. 255
    BY <1>2, <2>2, <2>6, OctetType
  <2>11. 8 - (n % 7) \in 1 .. 7
    BY <2>2
  <2>12. data[n] \div 2^(8 - (n % 7)) \in 0 .. 127
    BY <2>4, <2>5, <2>10, <2>11, HalfOfOctet
  <2> QED
    BY <1>4, <2>9, <2>12 DEF Before, b
<1> QED
  BY <1>3, <1>4

LEMMA ConsTwo ==
    ASSUME NEW X, NEW x \in X, NEW y \in X, NEW s \in Seq(X)
    PROVE  /\ <<x, y>> \o s \in Seq(X)
           /\ Len(<<x, y>> \o s) = Len(s) + 2
           /\ (<<x, y>> \o s)[1] = x
           /\ (<<x, y>> \o s)[2] = y
           /\ \A k \in 1 .. Len(s) : (<<x, y>> \o s)[k + 2] = s[k]
OBVIOUS

\* Before the last round of seven, a round finds one character.
LEMMA DecodedOne ==
    ASSUME NEW message \in Seq(0 .. 127), NEW j \in Nat, NEW q, Decoded(q, message, j + 1)
    PROVE  Decoded(<<Char(message, j)>> \o q, message, j)
<1> DEFINE L == Len(message)
           x == Char(message, j)
           p == <<x>> \o q
<1>1. L \in Nat /\ x \in Nat
  BY CharType, SeptetIsNat
<1>2. q \in Seq(Nat) /\ \A k \in 1 .. L - (j + 1) : k <= Len(q) /\ q[k] = message[j + 1 + k]
  BY DEF Decoded
<1> HIDE DEF x
<1>3. /\ p \in Seq(Nat) /\ Len(p) = Len(q) + 1 /\ p[1] = x
      /\ \A k \in 1 .. Len(q) : p[k + 1] = q[k]
  BY <1>1, <1>2, Cons
<1>4. Len(q) \in Nat
  BY <1>2
<1> HIDE DEF p
<1>5. ASSUME NEW k \in 1 .. L - j PROVE k <= Len(p) /\ p[k] = message[j + k]
  <2>1. CASE k = 1
    <3>1. j < L
      BY <1>1, <2>1
    <3> QED
      BY <1>3, <1>4, <2>1, <3>1 DEF x, Char
  <2>2. CASE k # 1
    <3>1. k - 1 \in 1 .. L - (j + 1) /\ (k - 1) + 1 = k /\ j + 1 + (k - 1) = j + k
      BY <1>1, <2>2
    <3>2. k - 1 <= Len(q) /\ q[k - 1] = message[j + 1 + (k - 1)]
      BY <1>2, <3>1
    <3>3. k - 1 \in 1 .. Len(q)
      BY <1>4, <3>1, <3>2
    <3>4. p[(k - 1) + 1] = q[k - 1]
      BY <1>3, <3>3
    <3>5. k <= Len(p)
      BY <1>3, <1>4, <3>1, <3>2
    <3> QED
      BY <3>1, <3>2, <3>4, <3>5
  <2> QED
    BY <2>1, <2>2
<1> QED
  BY <1>3, <1>5 DEF Decoded, p, x

\* The last of seven finds two.
LEMMA DecodedTwo ==
    ASSUME NEW message \in Seq(0 .. 127), NEW j \in Nat, NEW q, Decoded(q, message, j + 2)
    PROVE  Decoded(<<Char(message, j), Char(message, j + 1)>> \o q, message, j)
<1> DEFINE L == Len(message)
           x == Char(message, j)
           y == Char(message, j + 1)
           p == <<x, y>> \o q
<1>0. L \in Nat /\ j + 1 \in Nat
  OBVIOUS
<1>1. x \in Nat
  BY CharType, SeptetIsNat
<1>a. y \in Nat
  BY <1>0, CharType, SeptetIsNat
<1>2. q \in Seq(Nat) /\ \A k \in 1 .. L - (j + 2) : k <= Len(q) /\ q[k] = message[j + 2 + k]
  BY DEF Decoded
<1> HIDE DEF x, y
<1>3. /\ p \in Seq(Nat) /\ Len(p) = Len(q) + 2 /\ p[1] = x /\ p[2] = y
      /\ \A k \in 1 .. Len(q) : p[k + 2] = q[k]
  BY <1>1, <1>a, <1>2, ConsTwo
<1>4. Len(q) \in Nat
  BY <1>2
<1> HIDE DEF p
<1>5. ASSUME NEW k \in 1 .. L - j PROVE k <= Len(p) /\ p[k] = message[j + k]
  <2>1. CASE k = 1
    <3>1. j < L
      BY <1>0, <2>1
    <3> QED
      BY <1>3, <1>4, <2>1, <3>1 DEF x, Char
  <2>2. CASE k = 2
    <3>1. j + 1 < L /\ (j + 1) + 1 = j + 2
      BY <1>0, <2>2
    <3> QED
      BY <1>3, <1>4, <2>2, <3>1 DEF y, Char
  <2>3. CASE k # 1 /\ k # 2
    <3>1. k - 2 \in 1 .. L - (j + 2) /\ (k - 2) + 2 = k /\ j + 2 + (k - 2) = j + k
      BY <1>0, <2>3
    <3>2. k - 2 <= Len(q) /\ q[k - 2] = message[j + 2 + (k - 2)]
      BY <1>2, <3>1
    <3>3. k - 2 \in 1 .. Len(q)
      BY <1>4, <3>1, <3>2
    <3>4. p[(k - 2) + 2] = q[k - 2]
      BY <1>3, <3>3
    <3>5. k <= Len(p)
      BY <1>3, <1>4, <3>1, <3>2
    <3> QED
      BY <3>1, <3>2, <3>4, <3>5
  <2> QED
    BY <2>1, <2>2, <2>3
<1> QED
  BY <1>3, <1>5 DEF Decoded, p, x, y

LEMMA DecodeRound ==
    ASSUME NEW message \in Seq(0 .. 127), NEW data, Octets(data, message, 0),
           NEW f, IsDecodeLoop(f, data), NEW n \in Nat, n < Rounds(Len(message)),
           Decoded(f[DecodeAt(data, n + 1)], message, At(n + 1))
    PROVE  Decoded(f[DecodeAt(data, n)], message, At(n))
<1> DEFINE L == Len(message)
           K == Rounds(L)
           r == n % 7
           j == At(n)
           a == Char(message, j + 1)
           b == Char(message, j)
           o == data[n + 1]
           v == Before(data, n)
           c == DecodeAt(data, n)
           q == f[DecodeAt(data, n + 1)]
<1>0. L \in Nat /\ K \in Nat /\ n + 1 \in Nat
  BY RoundsType
<1>1. /\ j \in Nat /\ r \in 0 .. 6
      /\ r = 6 => At(n + 1) = j + 2 /\ (n + 1) % 7 = 0
      /\ r # 6 => At(n + 1) = j + 1 /\ (n + 1) % 7 = r + 1
  <2> HIDE DEF L
  <2>1. n <= Rounds(L) /\ n < Rounds(L)
    BY <1>0 DEF L
  <2> QED
    BY <1>0, <2>1, AtIs
<1>2. b \in 0 .. 127
  BY <1>1, CharType
<1>3. a \in 0 .. 127
  <2>1. j + 1 \in Nat
    BY <1>1
  <2> QED
    BY <2>1, CharType
<1>4. v \in 0 .. 127 /\ v = b % 2^r
  <2>1. n <= Rounds(Len(message))
    BY <1>0
  <2> QED
    BY <2>1, BeforeIs
<1>5. data \in Seq(0 .. 255) /\ Len(data) = K /\ o = Octet(a, b, r)
  <2>1. Rounds(L) - 0 = Rounds(L) /\ 0 + (n + 1) - 1 = n /\ n + 1 \in 1 .. K
    BY <1>0
  <2>2. o = GsmOctet(message, n)
    BY <2>1 DEF Octets
  <2>3. data \in Seq(0 .. 255) /\ Len(data) = K
    BY <2>1 DEF Octets
  <2> QED
    BY <2>2, <2>3 DEF GsmOctet
<1> HIDE DEF L, K, r, j, a, b, o, v
<1>6. (Octet(a, b, r) * 2^r) % 128 = b - (b % 2^r) /\ Octet(a, b, r) \div 2^(7 - r) = a % 2^(r + 1)
  BY <1>1, <1>2, <1>3, OctetBits
<1>7. c = [i |-> n, s |-> r + 1, v |-> v]
  BY DEF DecodeAt, r, v
<1>8. c \in DecodeVars(Len(data)) /\ ~(c.i >= Len(data))
  BY <1>0, <1>1, <1>4, <1>5, <1>7 DEF DecodeVars, K, L
<1>9. f[c] = DecodeOne(data, c) \o f[DecodeNext(data, c)]
  BY <1>8 DEF IsDecodeLoop
<1>10. Found(data, c) = b
  <2>1. c.s - 1 = r /\ c.i + 1 = n + 1 /\ c.v = v
    BY <1>1, <1>7
  <2>2. Found(data, c) = ((o * 2^r) % 128) + v
    BY <2>1 DEF Found, o
  <2> DEFINE x == 2^r
             y == b % x
  <2>3. x \in Nat \ {0}
    <3>1. r \in 0 .. 7
      BY <1>1
    <3> QED
      BY <3>1, PowerType
  <2>4. y \in Int
    <3> HIDE DEF x
    <3> QED
      BY <1>2, <2>3
  <2>5. Found(data, c) = (b - y) + y
    BY <1>4, <1>5, <1>6, <2>2, Zenon
  <2> HIDE DEF y
  <2> QED
    BY <1>2, <2>4, <2>5
<1>11. CASE r = 6
  <2>1. c.s = 7 /\ c.i = n /\ 8 - 7 = 1 /\ 7 - 6 = 1 /\ 6 + 1 = 7 /\ 2^7 = 128
    BY <1>7, <1>11, Powers
  <2>2. Left(data, c) = o \div 2^1
    BY <2>1 DEF Left, o
  <2>3. o \div 2^1 = a % 128
    BY <1>5, <1>6, <1>11, <2>1, Zenon
  <2>4. Left(data, c) = a
    BY <1>3, <2>2, <2>3
  <2>5. DecodeAt(data, n + 1) = [i |-> n + 1, s |-> 1, v |-> 0]
    BY <1>1, <1>11 DEF DecodeAt, Before
  <2>6. DecodeNext(data, c) = DecodeAt(data, n + 1)
    BY <2>1, <2>5 DEF DecodeNext
  <2>7. DecodeOne(data, c) = <<b, a>>
    BY <1>10, <2>1, <2>4 DEF DecodeOne
  <2>8. f[c] = <<b, a>> \o q
    BY <1>9, <2>6, <2>7
  <2>9. Decoded(q, message, j + 2)
    BY <1>1, <1>11
  <2> HIDE DEF q
  <2>10. Decoded(<<b, a>> \o q, message, j)
    BY <1>1, <2>9, DecodedTwo DEF b, a
  <2> QED
    BY <2>8, <2>10 DEF j
<1>12. CASE r # 6
  <2>1. c.s = r + 1 /\ c.s # 7 /\ c.i = n /\ (n + 1) % 7 = r + 1 /\ (n + 1) % 7 # 0
        /\ c.s + 1 = (r + 1) + 1
    BY <1>1, <1>7, <1>12
  <2>2. Left(data, c) = Before(data, n + 1)
    BY <2>1 DEF Left, Before
  <2>3. DecodeNext(data, c) = DecodeAt(data, n + 1)
    BY <2>1, <2>2 DEF DecodeNext, DecodeAt
  <2>4. DecodeOne(data, c) = <<b>>
    BY <1>10, <2>1 DEF DecodeOne
  <2>5. f[c] = <<b>> \o q
    BY <1>9, <2>3, <2>4
  <2>6. Decoded(q, message, j + 1)
    BY <1>1, <1>12
  <2> HIDE DEF q
  <2>7. Decoded(<<b>> \o q, message, j)
    BY <1>1, <2>6, DecodedOne DEF b
  <2> QED
    BY <2>5, <2>7 DEF j
<1> QED
  BY <1>11, <1>12

\* What encode_gsm_sms_pdu packs, decode_gsm_sms_pdu unpacks.
LEMMA Gsm ==
    ASSUME NEW message \in Seq(0 .. 127)
    PROVE  Sms!DecodeGsm(Sms!EncodeGsm(message), Len(message))
             = [k \in 1 .. Len(message) |-> message[k]]
<1> DEFINE L == Len(message)
           K == Rounds(L)
           data == Sms!EncodeGsm(message)
           f == DecodeLoop(data)
           Good(n) == Decoded(f[DecodeAt(data, n)], message, At(n))
           S == {n \in 0 .. K : ~Good(n)}
<1>0. L \in Nat /\ K \in Nat
  BY RoundsType
<1>1. Octets(data, message, 0)
  BY EncodeIs
<1> HIDE DEF data
<1>2. data \in Seq(0 .. 255) /\ Len(data) = K
  BY <1>0, <1>1 DEF Octets
<1>3. IsDecodeLoop(f, data)
  BY <1>2, DecodeLoopIs
<1> HIDE DEF f
<1>4. Good(K)
  <2>1. At(K) \in Nat /\ At(K) >= L /\ K % 7 \in 0 .. 6
    <3> HIDE DEF L
    <3>1. K <= Rounds(L) /\ K = Rounds(L)
      BY <1>0
    <3> QED
      BY <1>0, <3>1, AtIs
  <2> DEFINE v == Before(data, K)
             c == DecodeAt(data, K)
  <2>2. v \in 0 .. 127
    <3>1. K <= Rounds(Len(message))
      BY <1>0
    <3> QED
      BY <1>0, <1>1, <3>1, BeforeIs
  <2>3. c = [i |-> K, s |-> (K % 7) + 1, v |-> v]
    BY DEF DecodeAt
  <2> HIDE DEF v, c
  <2>4. c \in DecodeVars(Len(data)) /\ c.i >= Len(data) /\ c.v = v
    <3> HIDE DEF K
    <3> QED
      BY <1>0, <1>2, <2>1, <2>2, <2>3 DEF DecodeVars
  <2>5. f[c] = <<v>>
    BY <1>3, <2>4 DEF IsDecodeLoop
  <2>6. v \in Nat
    BY <2>2, SeptetIsNat
  <2>7. \A k \in 1 .. L - At(K) : FALSE
    BY <1>0, <2>1
  <2>8. <<v>> \in Seq(Nat)
    BY <2>6
  <2> QED
    BY <2>5, <2>7, <2>8 DEF Decoded, c
<1>5. ASSUME NEW n \in Nat, n < K, Good(n + 1) PROVE Good(n)
  BY <1>1, <1>3, <1>5, DecodeRound
<1>6. S = {}
  <2>1. SUFFICES ASSUME S # {} PROVE FALSE
    OBVIOUS
  <2>2. PICK m \in S : \A k \in S : k <= m
    <3>1. S \subseteq 0 .. K
      OBVIOUS
    <3> HIDE DEF S, K
    <3> QED
      BY <1>0, <2>1, <3>1, GreatestNumber
  <2>3. m \in 0 .. K /\ ~Good(m)
    OBVIOUS
  <2> HIDE DEF Good, K
  <2>4. m \in Nat /\ m < K /\ m + 1 \in 0 .. K /\ ~(m + 1 <= m)
    BY <1>0, <1>4, <2>3
  <2>5. Good(m + 1)
    BY <2>2, <2>4
  <2> QED
    BY <1>5, <2>3, <2>4, <2>5
<1> DEFINE q == f[DecodeAt(data, 0)]
<1>7. Decoded(q, message, 0)
  <2>1. 0 \in 0 .. K
    BY <1>0
  <2>2. Good(0)
    <3> HIDE DEF Good
    <3> QED
      BY <1>6, <2>1
  <2>3. At(0) = 0
    BY <1>0, RoundsType
  <2> QED
    BY <2>2, <2>3
<1>8. DecodeAt(data, 0) = [i |-> 0, s |-> 1, v |-> 0]
  <2>1. 0 % 7 = 0 /\ 0 + 1 = 1
    OBVIOUS
  <2> QED
    BY <2>1 DEF DecodeAt, Before
<1>9. Sms!DecodeGsm(data, L) = SubSeq(q, 1, L)
  BY <1>8, DecodeGsmIs DEF f
<1> HIDE DEF q
<1>10. \A k \in 1 .. L : q[k] = message[k]
  BY <1>0, <1>7 DEF Decoded
<1>11. SubSeq(q, 1, L) = [k \in 1 .. L |-> q[k]]
  <2>1. \A k \in 1 .. L : k <= Len(q)
    BY <1>0, <1>7 DEF Decoded
  <2>2. q \in Seq(Nat) /\ Len(q) \in Nat
    BY <1>7 DEF Decoded
  <2>3. L <= Len(q)
    BY <1>0, <2>1, <2>2
  <2> HIDE DEF L
  <2> QED
    BY <1>0, <2>2, <2>3
<1> QED
  BY <1>9, <1>10, <1>11 DEF data

-----------------------------------------------------------------------------
(* The specification.                                                       *)

LEMMA TextIs ==
    ASSUME NEW f \in {"ascii", "unicode", "gsm"}, NEW t \in Sms!Texts(f)
    PROVE  /\ t \in Seq(0 .. 255) /\ Len(t) <= 255 /\ DOMAIN t = 1 .. Len(t)
           /\ f = "gsm" => t \in Seq(0 .. 127)
<1> DEFINE C == {c \in Characters : f = "gsm" => c < 128}
<1>1. Characters \subseteq 0 .. 255 /\ MaxLength[f] \in 0 .. 255
  BY StandaloneAssumption DEF Sms!SmsAssumption
<1>2. PICK n \in 0 .. MaxLength[f] : t \in [1 .. n -> C]
  BY DEF Sms!Texts
<1>3. n \in Nat /\ n <= 255
  <2> DEFINE M == MaxLength[f]
  <2>1. M \in 0 .. 255 /\ n \in 0 .. M
    BY <1>1, <1>2
  <2> HIDE DEF M
  <2> QED
    BY <2>1
<1>4. C \subseteq 0 .. 255 /\ (f = "gsm" => C \subseteq 0 .. 127)
  <2>1. ASSUME NEW c \in C PROVE c \in 0 .. 255 /\ (f = "gsm" => c < 128)
    BY <1>1
  <2> HIDE DEF C
  <2>2. ASSUME NEW c \in C, f = "gsm" PROVE c \in 0 .. 127
    <3>1. c \in 0 .. 255 /\ c < 128
      BY <2>1, <2>2
    <3> QED
      BY <3>1
  <2> QED
    BY <2>1, <2>2
<1> HIDE DEF C
<1>5. t \in Seq(C) /\ Len(t) = n /\ DOMAIN t = 1 .. Len(t)
  BY <1>2, <1>3
<1>6. t \in Seq(0 .. 255) /\ (f = "gsm" => t \in Seq(0 .. 127))
  <2>1. ASSUME NEW D, C \subseteq D PROVE t \in Seq(D)
    <3>1. t \in [1 .. n -> D]
      BY <1>2, <2>1
    <3> QED
      BY <1>3, <3>1
  <2> QED
    BY <1>4, <2>1
<1> QED
  BY <1>3, <1>5, <1>6

\* What Decode makes of what Encode has packed.
Survived(q, f, t) ==
    /\ q = CASE f = "unicode" -> SubSeq(t, 1, 2 * (Len(t) \div 2))
             [] OTHER         -> [i \in DOMAIN t |-> t[i] % 128]
    /\ \A i \in DOMAIN q : q[i] \in 0 .. 255

LEMMA Unpacked ==
    ASSUME NEW f \in {"ascii", "unicode", "gsm"}, NEW t \in Sms!Texts(f), NEW q,
           q = IF f = "gsm" THEN Sms!DecodeGsm(Sms!EncodeGsm(t), Len(t))
                            ELSE Sms!DecodeCdma(Sms!EncodeCdma(f, t))
    PROVE  Survived(q, f, t)
<1>1. t \in Seq(0 .. 255) /\ Len(t) <= 255 /\ DOMAIN t = 1 .. Len(t) /\ Len(t) \in Nat
  BY TextIs
<1>2. \A i \in 1 .. Len(t) : t[i] \in 0 .. 255
  BY <1>1, ElementOfSeq
<1>3. CASE f = "unicode"
  <2> DEFINE n == 2 * (Len(t) \div 2)
  <2>1. n \in 0 .. Len(t)
    BY <1>1
  <2>2. q = [i \in 1 .. n |-> t[i]]
    BY <1>1, <1>3, CdmaOctets
  <2> HIDE DEF n
  <2>3. SubSeq(t, 1, n) = [i \in 1 .. n |-> t[i]]
    BY <1>1, <2>1
  <2>4. ASSUME NEW i \in DOMAIN q PROVE q[i] \in 0 .. 255
    <3>1. i \in 1 .. n /\ q[i] = t[i]
      BY <2>2
    <3>2. i \in 1 .. Len(t)
      BY <1>1, <2>1, <3>1
    <3> QED
      BY <1>2, <3>1, <3>2
  <2> QED
    BY <1>3, <2>2, <2>3, <2>4 DEF n, Survived
<1>4. CASE f = "ascii"
  <2>1. q = [i \in 1 .. Len(t) |-> t[i] % 128]
    BY <1>1, <1>4, CdmaAscii
  <2>2. ASSUME NEW i \in 1 .. Len(t) PROVE t[i] % 128 \in 0 .. 255
    <3> DEFINE x == t[i]
    <3>1. x \in 0 .. 255
      BY <1>2
    <3> HIDE DEF x
    <3>2. x % 128 \in 0 .. 255
      BY <3>1
    <3> QED
      BY <3>2 DEF x
  <2>3. \A i \in DOMAIN q : q[i] \in 0 .. 255
    BY <2>1, <2>2
  <2> QED
    BY <1>1, <1>4, <2>1, <2>3 DEF Survived
<1>5. CASE f = "gsm"
  <2>1. t \in Seq(0 .. 127)
    BY <1>5, TextIs
  <2>2. q = [i \in 1 .. Len(t) |-> t[i]]
    BY <1>5, <2>1, Gsm
  <2>3. ASSUME NEW i \in 1 .. Len(t) PROVE t[i] % 128 = t[i]
    <3> DEFINE x == t[i]
    <3>1. x \in 0 .. 127
      BY <2>1, ElementOfSeq
    <3> HIDE DEF x
    <3>2. x % 128 = x
      BY <3>1
    <3> QED
      BY <3>2 DEF x
  <2>4. q = [i \in 1 .. Len(t) |-> t[i] % 128]
    BY <2>2, <2>3
  <2>5. \A i \in DOMAIN q : q[i] \in 0 .. 255
    BY <1>2, <2>2
  <2> QED
    BY <1>1, <1>5, <2>4, <2>5 DEF Survived
<1> QED
  BY <1>3, <1>4, <1>5

\* A message that is packed waits as the user data of its text.
SmsInv ==
    /\ Sms!TypeOK
    /\ at = "packed" => pdu = IF format = "gsm" THEN Sms!EncodeGsm(text)
                                                ELSE Sms!EncodeCdma(format, text)
    /\ Sms!RoundTrip

LEMMA SmsStep ==
    ASSUME SmsInv, Sms!Next \/ UNCHANGED smsVars
    PROVE  SmsInv'
<1>1. CASE UNCHANGED smsVars
  BY <1>1 DEF smsVars, SmsInv, Sms!TypeOK, Sms!RoundTrip
<1>2. ASSUME NEW f \in {"ascii", "unicode", "gsm"}, NEW message \in Sms!Texts(f),
             Sms!Encode(f, message)
      PROVE  SmsInv'
  <2>1. /\ at' = "packed" /\ format' = f /\ text' = message /\ out' = out
        /\ pdu' = IF f = "gsm" THEN Sms!EncodeGsm(message) ELSE Sms!EncodeCdma(f, message)
    BY <1>2 DEF Sms!Encode
  <2>2. Sms!TypeOK'
    BY <2>1 DEF SmsInv, Sms!TypeOK
  <2>3. Sms!RoundTrip'
    BY <2>1 DEF Sms!RoundTrip
  <2> QED
    BY <2>1, <2>2, <2>3 DEF SmsInv
<1>3. CASE Sms!Decode
  <2>1. /\ at' = "unpacked" /\ format' = format /\ text' = text
        /\ out' = IF format = "gsm" THEN Sms!DecodeGsm(Sms!EncodeGsm(text), Len(text))
                                    ELSE Sms!DecodeCdma(Sms!EncodeCdma(format, text))
    BY <1>3 DEF Sms!Decode, SmsInv
  <2>2. format \in {"ascii", "unicode", "gsm"} /\ text \in Sms!Texts(format)
    BY DEF SmsInv, Sms!TypeOK
  <2>3. Survived(out', format, text)
    BY <2>1, <2>2, Unpacked
  <2>4. Sms!TypeOK'
    BY <2>1, <2>2, <2>3 DEF Sms!TypeOK, Survived
  <2>5. Sms!RoundTrip'
    BY <2>1, <2>3 DEF Sms!RoundTrip, Survived
  <2> QED
    BY <2>1, <2>4, <2>5 DEF SmsInv
<1> QED
  BY <1>1, <1>2, <1>3 DEF Sms!Next

LEMMA SmsInvariant == Spec => []SmsInv
<1>1. Init => SmsInv
  <2> SUFFICES ASSUME Init PROVE SmsInv
    OBVIOUS
  <2>1. at = "idle" /\ format = "ascii" /\ text = << >> /\ out = << >>
    BY Zenon DEF Init, Sms!Init
  <2>2. << >> \in Sms!Texts("ascii")
    <3> DEFINE C == {c \in Characters : "ascii" = "gsm" => c < 128}
    <3>1. 0 \in 0 .. MaxLength["ascii"]
      BY StandaloneAssumption DEF Sms!SmsAssumption
    <3>2. << >> \in [1 .. 0 -> C]
      OBVIOUS
    <3> HIDE DEF C
    <3>3. << >> \in UNION {[1 .. n -> C] : n \in 0 .. MaxLength["ascii"]}
      BY <3>1, <3>2
    <3> QED
      BY <3>3 DEF Sms!Texts, C
  <2> QED
    BY <2>1, <2>2 DEF SmsInv, Sms!TypeOK, Sms!RoundTrip
<1>2. SmsInv /\ [Next]_vars => SmsInv'
  BY SmsStep DEF Next, vars
<1> QED
  BY <1>1, <1>2, PTL DEF Spec

\* What is packed is unpacked, for any characters and any length up to 255:
\* the septets of encode_gsm_sms_pdu, and the bits of encode_cdma_sms, are
\* found again by the decoders of sms.c.
THEOREM MessagesSurvive == Spec => []RoundTrip
<1>1. SmsInv => RoundTrip
  BY DEF SmsInv, RoundTrip
<1> QED
  BY SmsInvariant, <1>1, PTL
=============================================================================
