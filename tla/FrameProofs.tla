----------------------------- MODULE FrameProofs -----------------------------
(***************************************************************************)
(* What the sum, the sensor formulas and the register formats of Frame     *)
(* compute, for every converter value.                                     *)
(***************************************************************************)
EXTENDS Frame, WellFoundedInduction, TLAPS

-----------------------------------------------------------------------------
(* Searching an interval *)

(* Every set of natural numbers that is not empty has a smallest. *)
LEMMA SmallestNat ==
  ASSUME NEW T \in SUBSET Nat, T # {}
  PROVE  \E x \in T : \A y \in T : x <= y
<1>1. PICK x \in T : \A y \in T : ~ (<<y, x>> \in OpToRel(<, Nat))
  BY NatLessThanWellFounded, WFMin
<1>2. \A y \in T : ~ (y < x)
  <2> TAKE y \in T
  <2>1. y < x => <<y, x>> \in OpToRel(<, Nat)
    BY DEF OpToRel
  <2> QED
    BY <1>1, <2>1
<1> QED
  BY <1>2

(* Between a member of S and a number that is not one, there is a last      *)
(* member.                                                                  *)
LEMMA Crossing ==
  ASSUME NEW S, NEW lo \in Int, NEW n \in Nat, lo \in S, lo + n \notin S
  PROVE  \E d \in lo .. (lo + n - 1) : d \in S /\ d + 1 \notin S
<1> DEFINE T == {m \in Nat : lo + m \notin S}
<1>1. T \in SUBSET Nat /\ n \in T
  OBVIOUS
<1>2. PICK m \in T : \A y \in T : m <= y
  BY <1>1, SmallestNat
<1>3. m \in Nat /\ lo + m \notin S /\ m <= n
  BY <1>1, <1>2
<1>4. m # 0
  BY <1>3, SMT
<1>5. lo + (m - 1) \in S
  <2>1. m - 1 \in Nat
    BY <1>3, <1>4, SMT
  <2>2. m - 1 \notin T
    BY <1>2, <1>3, <1>4, SMT
  <2> QED
    BY <2>1, <2>2
<1>6. /\ lo + (m - 1) \in lo .. (lo + n - 1)
      /\ (lo + (m - 1)) + 1 = lo + m
  BY <1>3, <1>4, SMT
<1> QED
  BY <1>3, <1>5, <1>6, Zenon

-----------------------------------------------------------------------------
(* The sum *)

(* The uint16_t does not overflow: the sum is that of the ten bytes. *)
LEMMA SumIs ==
  ASSUME NEW f, \A n \in 1 .. 10 : f[n] \in 0 .. 255
  PROVE  Sum(f) = f[1] + f[2] + f[3] + f[4] + f[5] + f[6] + f[7] + f[8] + f[9] + f[10]
<1>b1. PICK b1 \in 0 .. 255 : b1 = f[1]
  BY SMT
<1>b2. PICK b2 \in 0 .. 255 : b2 = f[2]
  BY SMT
<1>b3. PICK b3 \in 0 .. 255 : b3 = f[3]
  BY SMT
<1>b4. PICK b4 \in 0 .. 255 : b4 = f[4]
  BY SMT
<1>b5. PICK b5 \in 0 .. 255 : b5 = f[5]
  BY SMT
<1>b6. PICK b6 \in 0 .. 255 : b6 = f[6]
  BY SMT
<1>b7. PICK b7 \in 0 .. 255 : b7 = f[7]
  BY SMT
<1>b8. PICK b8 \in 0 .. 255 : b8 = f[8]
  BY SMT
<1>b9. PICK b9 \in 0 .. 255 : b9 = f[9]
  BY SMT
<1>b10. PICK b10 \in 0 .. 255 : b10 = f[10]
  BY SMT
<1>b. /\ b1 = f[1] /\ b2 = f[2] /\ b3 = f[3] /\ b4 = f[4] /\ b5 = f[5]
      /\ b6 = f[6] /\ b7 = f[7] /\ b8 = f[8] /\ b9 = f[9] /\ b10 = f[10]
  BY <1>b1, <1>b2, <1>b3, <1>b4, <1>b5, <1>b6, <1>b7, <1>b8, <1>b9, <1>b10
<1> DEFINE Add(a, b) == (a + b) % 65536
           Step(g, n) == IF n = 0 THEN 0 ELSE Add(g[n - 1], f[n])
           IsSum(g) == g = [n \in 0 .. 10 |-> Step(g, n)]
           p2 == b1 + b2
           p3 == p2 + b3
           p4 == p3 + b4
           p5 == p4 + b5
           p6 == p5 + b6
           p7 == p6 + b7
           p8 == p7 + b8
           p9 == p8 + b9
           p10 == p9 + b10
           g == [n \in 0 .. 10 |->
                   IF n = 0 THEN 0 ELSE IF n = 1 THEN b1 ELSE IF n = 2 THEN p2
                   ELSE IF n = 3 THEN p3 ELSE IF n = 4 THEN p4 ELSE IF n = 5 THEN p5
                   ELSE IF n = 6 THEN p6 ELSE IF n = 7 THEN p7 ELSE IF n = 8 THEN p8
                   ELSE IF n = 9 THEN p9 ELSE p10]
<1>2. p10 = b1 + b2 + b3 + b4 + b5 + b6 + b7 + b8 + b9 + b10
  OBVIOUS
<1>p. /\ p2 \in Nat /\ p2 <= 2550 /\ p3 \in Nat /\ p3 <= 2550
      /\ p4 \in Nat /\ p4 <= 2550 /\ p5 \in Nat /\ p5 <= 2550
      /\ p6 \in Nat /\ p6 <= 2550 /\ p7 \in Nat /\ p7 <= 2550
      /\ p8 \in Nat /\ p8 <= 2550 /\ p9 \in Nat /\ p9 <= 2550
      /\ b1 \in Nat /\ b1 <= 2550 /\ 0 \in Nat /\ 0 <= 2550 /\ b1 = 0 + b1
  <2>1. p2 \in Nat /\ p2 <= 510 /\ b1 <= 2550 /\ b1 = 0 + b1
    BY SMT
  <2>2. p3 \in Nat /\ p3 <= 765
    <3> HIDE DEF p2
    <3> QED
      BY <2>1, SMT
  <2>3. p4 \in Nat /\ p4 <= 1020
    <3> HIDE DEF p3
    <3> QED
      BY <2>2, SMT
  <2>4. p5 \in Nat /\ p5 <= 1275
    <3> HIDE DEF p4
    <3> QED
      BY <2>3, SMT
  <2>5. p6 \in Nat /\ p6 <= 1530
    <3> HIDE DEF p5
    <3> QED
      BY <2>4, SMT
  <2>6. p7 \in Nat /\ p7 <= 1785
    <3> HIDE DEF p6
    <3> QED
      BY <2>5, SMT
  <2>7. p8 \in Nat /\ p8 <= 2040
    <3> HIDE DEF p7
    <3> QED
      BY <2>6, SMT
  <2>8. p9 \in Nat /\ p9 <= 2295
    <3> HIDE DEF p8
    <3> QED
      BY <2>7, SMT
  <2> HIDE DEF p2, p3, p4, p5, p6, p7, p8, p9
  <2> QED
    BY <2>1, <2>2, <2>3, <2>4, <2>5, <2>6, <2>7, <2>8, SMT
<1>q. /\ p2 = b1 + b2 /\ p3 = p2 + b3 /\ p4 = p3 + b4 /\ p5 = p4 + b5 /\ p6 = p5 + b6
      /\ p7 = p6 + b7 /\ p8 = p7 + b8 /\ p9 = p8 + b9 /\ p10 = p9 + b10
  OBVIOUS
<1> HIDE DEF p2, p3, p4, p5, p6, p7, p8, p9, p10
<1>3. /\ Add(0, b1) = b1 /\ Add(b1, b2) = p2 /\ Add(p2, b3) = p3 /\ Add(p3, b4) = p4
      /\ Add(p4, b5) = p5 /\ Add(p5, b6) = p6 /\ Add(p6, b7) = p7 /\ Add(p7, b8) = p8
      /\ Add(p8, b9) = p9 /\ Add(p9, b10) = p10
  <2>1. Add(0, b1) = b1
    <3>1. b1 \in Nat /\ b1 = 0 + b1
      BY <1>p, <1>q
    <3> QED
      BY <3>1, SMT
  <2>2. Add(b1, b2) = p2
    <3>1. b1 \in Nat /\ b1 <= 2550 /\ p2 = b1 + b2
      BY <1>p, <1>q
    <3> QED
      BY <3>1, SMTT(30)
  <2>3. Add(p2, b3) = p3
    <3>1. p2 \in Nat /\ p2 <= 2550 /\ p3 = p2 + b3
      BY <1>p, <1>q
    <3> QED
      BY <3>1, SMT
  <2>4. Add(p3, b4) = p4
    <3>1. p3 \in Nat /\ p3 <= 2550 /\ p4 = p3 + b4
      BY <1>p, <1>q
    <3> QED
      BY <3>1, SMT
  <2>5. Add(p4, b5) = p5
    <3>1. p4 \in Nat /\ p4 <= 2550 /\ p5 = p4 + b5
      BY <1>p, <1>q
    <3> QED
      BY <3>1, SMT
  <2>6. Add(p5, b6) = p6
    <3>1. p5 \in Nat /\ p5 <= 2550 /\ p6 = p5 + b6
      BY <1>p, <1>q
    <3> QED
      BY <3>1, SMT
  <2>7. Add(p6, b7) = p7
    <3>1. p6 \in Nat /\ p6 <= 2550 /\ p7 = p6 + b7
      BY <1>p, <1>q
    <3> QED
      BY <3>1, SMT
  <2>8. Add(p7, b8) = p8
    <3>1. p7 \in Nat /\ p7 <= 2550 /\ p8 = p7 + b8
      BY <1>p, <1>q
    <3> QED
      BY <3>1, SMT
  <2>9. Add(p8, b9) = p9
    <3>1. p8 \in Nat /\ p8 <= 2550 /\ p9 = p8 + b9
      BY <1>p, <1>q
    <3> QED
      BY <3>1, SMT
  <2>10. Add(p9, b10) = p10
    <3>1. p9 \in Nat /\ p9 <= 2550 /\ p10 = p9 + b10
      BY <1>p, <1>q
    <3> QED
      BY <3>1, SMT
  <2> QED
    BY <2>1, <2>2, <2>3, <2>4, <2>5, <2>6, <2>7, <2>8, <2>9, <2>10
<1> HIDE DEF Add
<1>4. /\ g[0] = 0 /\ g[1] = b1 /\ g[2] = p2 /\ g[3] = p3 /\ g[4] = p4 /\ g[5] = p5
      /\ g[6] = p6 /\ g[7] = p7 /\ g[8] = p8 /\ g[9] = p9 /\ g[10] = p10
  BY SMT
<1>5. \A n \in 0 .. 10 : g[n] = Step(g, n)
  <2>1. SUFFICES ASSUME NEW n \in 0 .. 10 PROVE g[n] = Step(g, n)
    OBVIOUS
  <2> HIDE DEF g
  <2>2. CASE n \in 0 .. 3
    BY <1>b, <1>3, <1>4, <2>2, SMT
  <2>3. CASE n \in 4 .. 7
    BY <1>b, <1>3, <1>4, <2>3, SMT
  <2>4. CASE n \in 8 .. 10
    BY <1>b, <1>3, <1>4, <2>4, SMT
  <2> QED
    BY <2>2, <2>3, <2>4, SMT
<1>6. IsSum(g)
  <2>1. g = [n \in 0 .. 10 |-> g[n]]
    OBVIOUS
  <2> HIDE DEF Step, g
  <2>2. [n \in 0 .. 10 |-> g[n]] = [n \in 0 .. 10 |-> Step(g, n)]
    BY <1>5, Zenon
  <2> QED
    BY <2>1, <2>2, Zenon
<1>7. PICK h : IsSum(h) /\ Sum(f) = h[10]
  <2>1. Sum(f) = (CHOOSE h : IsSum(h))[10]
    BY DEF Sum, Add
  <2> HIDE DEF IsSum, g
  <2> QED
    BY <1>6, <2>1, Zenon
<1>8. \A n \in 0 .. 10 : h[n] = Step(h, n)
  <2> HIDE DEF Step
  <2> QED
    BY <1>7, Zenon
<1>9. /\ h[0] = 0 /\ h[1] = Add(h[0], b1) /\ h[2] = Add(h[1], b2) /\ h[3] = Add(h[2], b3)
      /\ h[4] = Add(h[3], b4) /\ h[5] = Add(h[4], b5) /\ h[6] = Add(h[5], b6)
      /\ h[7] = Add(h[6], b7) /\ h[8] = Add(h[7], b8) /\ h[9] = Add(h[8], b9)
      /\ h[10] = Add(h[9], b10)
  BY <1>b, <1>8, SMT
<1>10. h[10] = p10
  BY <1>3, <1>9
<1> QED
  BY <1>b, <1>2, <1>7, <1>10

-----------------------------------------------------------------------------
(* Temperature *)

(* The formula inside WarmestRaw, times 625000. *)
Millivolts(k) == 544125000 - 344125 * (k - 300) - 11 * (k - 300) * (k - 300)

LEMMA MillivoltsFall ==
  ASSUME NEW k \in Int, NEW m \in Int, -4000 <= k, k <= m
  PROVE  Millivolts(m) <= Millivolts(k) /\ Millivolts(m) \in Int /\ Millivolts(k) \in Int
<1>1. 11 * (k + m - 600) + 344125 >= 0 /\ m - k >= 0
  BY SMT
<1>2. (m - k) * (11 * (k + m - 600) + 344125) >= 0
  <2>1. ASSUME NEW x \in Int, NEW y \in Int, x >= 0, y >= 0 PROVE x * y >= 0
    BY <2>1, SMT
  <2> QED
    BY <1>1, <2>1, SMT
<1>3. Millivolts(k) - Millivolts(m) = (m - k) * (11 * (k + m - 600) + 344125)
  BY SMT DEF Millivolts
<1> QED
  BY <1>2, <1>3, SMT DEF Millivolts

(* Dividing by 10000 in two parts and by 156250 keeps the order. *)
LEMMA DivisionKeepsOrder ==
  ASSUME NEW x \in Int, NEW y \in Int, x <= y
  PROVE  (1023 * (x \div 10000) + (1023 * (x % 10000)) \div 10000) \div 156250
           <= (1023 * (y \div 10000) + (1023 * (y % 10000)) \div 10000) \div 156250
<1> DEFINE u == 1023 * (x \div 10000) + (1023 * (x % 10000)) \div 10000
           v == 1023 * (y \div 10000) + (1023 * (y % 10000)) \div 10000
<1>1. u \in Int /\ v \in Int /\ u <= v
  BY SMT
<1> HIDE DEF u, v
<1>2. u \div 156250 <= v \div 156250
  BY <1>1, SMT
<1> QED
  BY <1>2 DEF u, v

(* Warmer means fewer volts. *)
LEMMA WarmestRawFalls ==
  ASSUME NEW k \in Int, NEW m \in Int, -4000 <= k, k <= m
  PROVE  WarmestRaw(m) <= WarmestRaw(k) /\ WarmestRaw(m) \in Int /\ WarmestRaw(k) \in Int
<1>1. ASSUME NEW j \in Int
      PROVE  WarmestRaw(j) = (1023 * (Millivolts(j) \div 10000)
                              + (1023 * (Millivolts(j) % 10000)) \div 10000) \div 156250
  BY DEF WarmestRaw, Millivolts
<1>2. Millivolts(m) <= Millivolts(k) /\ Millivolts(m) \in Int /\ Millivolts(k) \in Int
  BY MillivoltsFall
<1>3. ASSUME NEW x \in Int
      PROVE  (1023 * (x \div 10000) + (1023 * (x % 10000)) \div 10000) \div 156250 \in Int
  BY SMT
<1> QED
  BY <1>1, <1>2, <1>3, DivisionKeepsOrder

LEMMA WarmestRawEnds == WarmestRaw(-3010) >= 1023 /\ WarmestRaw(1860) < 0
BY SMT DEF WarmestRaw

(* The equation has a solution for every converter value, a tenth of a      *)
(* degree wide.                                                             *)
LEMMA TemperatureIs ==
  ASSUME NEW raw \in Nat, raw <= 1023
  PROVE  \E k \in Int : /\ CalculateTemperature[raw] = k /\ -3010 <= k /\ k <= 1859
                        /\ AtLeastTenths(raw, k) /\ ~ AtLeastTenths(raw, k + 1)
<1> DEFINE Degree(d) == AtLeastTenths(raw, 10 * d) /\ ~ AtLeastTenths(raw, 10 * d + 10)
           d0 == CHOOSE d \in -301 .. 185 : Degree(d)
           Tenth(k) == AtLeastTenths(raw, k) /\ ~ AtLeastTenths(raw, k + 1)
           k0 == CHOOSE k \in (10 * d0) .. (10 * d0 + 9) : Tenth(k)
<1>1. \E d \in -301 .. 185 : Degree(d)
  <2> DEFINE S == {d \in Int : AtLeastTenths(raw, 10 * d)}
  <2>1. AtLeastTenths(raw, -3010) /\ ~ AtLeastTenths(raw, 1860)
    <3>1. WarmestRaw(-3010) \in Int /\ WarmestRaw(1860) \in Int
      BY WarmestRawFalls, SMT
    <3> QED
      BY <3>1, WarmestRawEnds, SMT DEF AtLeastTenths
  <2>2. -301 \in S /\ -301 + 487 \notin S
    <3>1. 10 * (-301) = -3010 /\ -301 + 487 = 186 /\ 10 * 186 = 1860
      BY SMT
    <3> QED
      BY <2>1, <3>1
  <2>3. \E d \in -301 .. (-301 + 487 - 1) : d \in S /\ d + 1 \notin S
    <3>1. -301 \in Int /\ 487 \in Nat
      BY SMT
    <3> HIDE DEF S
    <3> QED
      BY <2>2, <3>1, Crossing
  <2>4. PICK d \in -301 .. 185 : d \in S /\ d + 1 \notin S
    BY <2>3, SMT
  <2>5. 10 * (d + 1) = 10 * d + 10 /\ d \in Int /\ d + 1 \in Int
    BY SMT
  <2> QED
    BY <2>4, <2>5
<1>2. d0 \in -301 .. 185 /\ Degree(d0)
  <2> HIDE DEF Degree
  <2> QED
    BY <1>1, Zenon
<1> HIDE DEF d0
<1>3. \E k \in (10 * d0) .. (10 * d0 + 9) : Tenth(k)
  <2> DEFINE S == {k \in Int : AtLeastTenths(raw, k)}
  <2>1. 10 * d0 \in Int /\ 10 * d0 + 10 \in Int /\ 10 \in Nat
    BY <1>2, SMT
  <2>2. 10 * d0 \in S /\ 10 * d0 + 10 \notin S
    BY <1>2, <2>1
  <2>3. \E k \in (10 * d0) .. (10 * d0 + 10 - 1) : k \in S /\ k + 1 \notin S
    <3> HIDE DEF S
    <3> QED
      BY <2>1, <2>2, Crossing
  <2>4. PICK k \in (10 * d0) .. (10 * d0 + 9) : k \in S /\ k + 1 \notin S
    BY <2>1, <2>3, SMT
  <2>5. k \in Int /\ k + 1 \in Int
    BY <2>1, <2>4, SMT
  <2> QED
    BY <2>4, <2>5
<1>4. k0 \in (10 * d0) .. (10 * d0 + 9) /\ Tenth(k0)
  <2> HIDE DEF Tenth
  <2> QED
    BY <1>3, Zenon
<1>5. k0 \in Int /\ -3010 <= k0 /\ k0 <= 1859
  <2> HIDE DEF k0
  <2> QED
    BY <1>2, <1>4, SMT
<1>6. CalculateTemperature[raw] = k0
  <2>1. raw \in 0 .. AdcMax
    <3> DEFINE n == AdcMax
    <3>1. n \in Nat /\ raw <= n
      BY SMT DEF AdcMax
    <3> HIDE DEF n
    <3>2. raw \in 0 .. n
      BY <3>1
    <3> QED
      BY <3>2 DEF n
  <2> QED
    BY <2>1, Zenon DEF CalculateTemperature, d0
<1> DEFINE Within(k) == -3010 <= k /\ k <= 1859
<1>7. k0 \in Int /\ Within(k0) /\ CalculateTemperature[raw] = k0 /\ Tenth(k0)
  BY <1>4, <1>5, <1>6
<1>8. \E k \in Int : CalculateTemperature[raw] = k /\ Within(k) /\ Tenth(k)
  <2> HIDE DEF Within, Tenth, k0
  <2> QED
    BY <1>7, Zenon
<1> QED
  BY <1>8

(* The word in the temperature register stands for the temperature: to the  *)
(* tenth from zero on, to the degree below.                                 *)
LEMMA TemperatureFormatIs ==
  ASSUME NEW raw \in Nat, raw <= 1023
  PROVE  \E w \in Nat :
           /\ TemperatureFormat(raw) = w /\ w <= 5000
           /\ w < 2000 <=> AtLeastTenths(raw, 0)
           /\ w < 2000 => AtLeastTenths(raw, w) /\ ~ AtLeastTenths(raw, w + 1)
           /\ w >= 2000 => /\ AtLeastTenths(raw, 2000 - w - 10)
                           /\ ~ AtLeastTenths(raw, 2000 - w + 1)
<1>1. PICK k \in Int : /\ CalculateTemperature[raw] = k /\ -3010 <= k /\ k <= 1859
                       /\ AtLeastTenths(raw, k) /\ ~ AtLeastTenths(raw, k + 1)
  BY TemperatureIs
<1>2. ASSUME NEW j \in Int, -4000 <= j, j <= k
      PROVE  AtLeastTenths(raw, j)
  <2>1. WarmestRaw(k) <= WarmestRaw(j) /\ WarmestRaw(k) \in Int /\ WarmestRaw(j) \in Int
    BY <1>1, <1>2, WarmestRawFalls
  <2> QED
    BY <1>1, <2>1, SMT DEF AtLeastTenths
<1>3. ASSUME NEW j \in Int, k < j
      PROVE  ~ AtLeastTenths(raw, j)
  <2>1. k + 1 \in Int /\ -4000 <= k + 1 /\ k + 1 <= j
    BY <1>1, <1>3, SMT
  <2>2. /\ WarmestRaw(j) <= WarmestRaw(k + 1) /\ WarmestRaw(k + 1) \in Int
        /\ WarmestRaw(j) \in Int
    BY <2>1, WarmestRawFalls
  <2> QED
    BY <1>1, <2>2, SMT DEF AtLeastTenths
<1>4. CASE k >= 0
  <2>1. TemperatureFormat(raw) = k
    BY <1>1, <1>4 DEF TemperatureFormat
  <2>2. k \in Nat /\ k <= 5000 /\ k < 2000 /\ ~ (k >= 2000) /\ -4000 <= 0 /\ 0 \in Int
    BY <1>1, <1>4, SMT
  <2>3. AtLeastTenths(raw, 0)
    BY <1>2, <1>4, <2>2
  <2> QED
    BY <1>1, <2>1, <2>2, <2>3, SMT
<1>5. CASE k < 0
  <2>1. PICK q \in Int : q = (-k - 1) \div 10
    BY SMT
  <2>2. /\ 0 <= q /\ q <= 300 /\ -10 * q - 10 <= k /\ k < -10 * q
    BY <1>1, <1>5, <2>1, SMT
  <2>3. PICK w \in Nat : w = 2000 + 10 * q
    BY <2>2, SMT
  <2>4. TemperatureFormat(raw) = w
    BY <1>1, <1>5, <2>1, <2>3, SMT DEF TemperatureFormat
  <2>5. /\ w <= 5000 /\ ~ (w < 2000)
        /\ 2000 - w - 10 \in Int /\ -4000 <= 2000 - w - 10 /\ 2000 - w - 10 <= k
        /\ 2000 - w + 1 \in Int /\ k < 2000 - w + 1
    BY <2>2, <2>3, SMT
  <2>6. ~ AtLeastTenths(raw, 0)
    BY <1>3, <1>5
  <2>7. AtLeastTenths(raw, 2000 - w - 10) /\ ~ AtLeastTenths(raw, 2000 - w + 1)
    BY <1>2, <1>3, <2>5
  <2> QED
    BY <2>4, <2>5, <2>6, <2>7
<1> QED
  BY <1>1, <1>4, <1>5, SMT

-----------------------------------------------------------------------------
(* Voltage and signal strength *)

(* Millivolts, rounded down. *)
LEMMA VoltageFormatIs ==
  ASSUME NEW v \in Nat, v <= 1023
  PROVE  \E w \in Nat : /\ VoltageFormat(v) = w /\ w <= 5000
                        /\ 5000 * v - 1022 <= 1023 * w /\ 1023 * w <= 5000 * v
<1>1. PICK w \in Int : w = (5000 * v) \div 1023
  BY SMT
<1>2. 0 <= w /\ w <= 5000 /\ 5000 * v - 1022 <= 1023 * w /\ 1023 * w <= 5000 * v
  BY <1>1, SMT
<1> QED
  BY <1>1, <1>2, SMT DEF VoltageFormat

(* Words, without expanding the range: the provers enumerate a range        *)
(* between two numerals.                                                    *)
LEMMA IsWord ==
  ASSUME NEW w \in Nat, w <= 65535
  PROVE  w \in Words
<1>1. ASSUME NEW n \in Nat, w <= n
      PROVE  w \in 0 .. n
  BY <1>1, SMT
<1> DEFINE n == 65535
<1>2. n \in Nat /\ w <= n /\ Words = 0 .. n
  BY DEF Words
<1> HIDE DEF n
<1> QED
  BY <1>1, <1>2

(* An int8_t and seven bits, packed in a register and unpacked.  The        *)
(* strength is read modulo 256, in the range of the int8_t.                 *)
LEMMA SignalFormatIs ==
  ASSUME NEW rssi \in 0 .. 255, NEW lqi \in 0 .. 255
  PROVE  /\ SignalFormat(rssi, lqi) \in Words
         /\ HostRssi(SignalFormat(rssi, lqi)) = Int8(Dbm(rssi))
         /\ HostLqi(SignalFormat(rssi, lqi)) = lqi % 128
<1>1. PICK r \in Int : r = Rssi(rssi)
  BY SMT DEF Rssi, Int8
<1>2. -128 <= r /\ r <= 127
  BY <1>1, SMT DEF Rssi, Int8
<1>3. r = Int8(Dbm(rssi))
  <2>1. CASE rssi < 128
    BY <1>1, <2>1, SMT DEF Rssi, Dbm, Int8
  <2>2. CASE rssi >= 128
    BY <1>1, <2>2, SMT DEF Rssi, Dbm
  <2> QED
    BY <2>1, <2>2, SMT
<1>4. PICK l \in Int : l = lqi % 128 /\ 0 <= l /\ l <= 127
  BY SMT
<1>5. PICK w \in Int : w = (256 * r + l) % 65536
  BY SMT
<1>6. 0 <= w /\ w <= 65535 /\ w = IF r >= 0 THEN 256 * r + l ELSE 65536 + 256 * r + l
  BY <1>2, <1>4, <1>5, SMT
<1>7. w % 256 = l /\ w \div 256 = IF r >= 0 THEN r ELSE 256 + r
  BY <1>2, <1>4, <1>6, SMT
<1>8. HostRssi(w) = r
  BY <1>2, <1>7, SMT DEF HostRssi, Int8
<1>9. SignalFormat(rssi, lqi) = w /\ HostLqi(w) = l
  BY <1>1, <1>4, <1>5, <1>7, SMT DEF SignalFormat, Lqi, HostLqi
<1>10. w \in Words
  <2>1. w \in Nat
    BY <1>6, SMT
  <2> QED
    BY <1>6, <2>1, IsWord
<1> QED
  BY <1>3, <1>4, <1>8, <1>9, <1>10, Zenon
===============================================================================
