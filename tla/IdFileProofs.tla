---------------------------- MODULE IdFileProofs ----------------------------
(***************************************************************************)
(* Every id survives the text of DeviceId.csv, for any number of ids, any  *)
(* width of the registers and any number of digits that is enough for it.  *)
(***************************************************************************)
EXTENDS IdFile, SequenceTheorems, WellFoundedInduction, TLAPS

-----------------------------------------------------------------------------
(* Loops *)

(* Counting up to n: what holds before the first iteration and is kept by   *)
(* each of them holds throughout.                                           *)
LEMMA LoopInduction ==
  ASSUME NEW n \in Nat, NEW T, 0 \in T, \A k \in 1 .. n : k - 1 \in T => k \in T
  PROVE  \A k \in 0 .. n : k \in T
<1> DEFINE F == {k \in 0 .. n : k \notin T}
<1>1. SUFFICES ASSUME F # {} PROVE FALSE
  OBVIOUS
<1>2. F \in SUBSET Nat
  BY SMT
<1>3. PICK k \in F : \A y \in F : ~ (<<y, k>> \in OpToRel(<, Nat))
  BY <1>1, <1>2, NatLessThanWellFounded, WFMin
<1>4. k \in 0 .. n /\ k # 0
  OBVIOUS
<1>5. k \in 1 .. n /\ k - 1 \in 0 .. n /\ k \in Nat /\ k - 1 \in Nat /\ k - 1 < k
  BY <1>4, SMT
<1>6. k - 1 \in F
  BY <1>5
<1>7. <<k - 1, k>> \in OpToRel(<, Nat)
  BY <1>5 DEF OpToRel
<1> QED
  BY <1>3, <1>6, <1>7

(* f gives the state after every iteration of a loop that starts with a and *)
(* whose iteration k takes a state s to g[<<k, s>>].                        *)
IsLoop(f, n, a, g) == f = [k \in 0 .. n |-> IF k = 0 THEN a ELSE g[<<k, f[k - 1]>>]]

(* Such a function exists for every loop that stays in a set S. *)
LEMMA LoopExists ==
  ASSUME NEW n \in Nat, NEW S, NEW a \in S, NEW g \in [(1 .. n) \X S -> S]
  PROVE  \E f \in [0 .. n -> S] : IsLoop(f, n, a, g)
<1> DEFINE P(m, f) == f[0] = a /\ \A k \in 1 .. m : f[k] = g[<<k, f[k - 1]>>]
           T == {m \in 0 .. n : \E f \in [0 .. m -> S] : P(m, f)}
<1>1. 0 \in T
  <2> DEFINE f == [k \in 0 .. 0 |-> a]
  <2>1. f \in [0 .. 0 -> S] /\ 0 \in 0 .. 0 /\ 0 \in 0 .. n /\ ~ \E k : k \in 1 .. 0
    BY SMT
  <2>2. P(0, f)
    BY <2>1, Zenon
  <2> HIDE DEF f
  <2> QED
    BY <2>1, <2>2, Zenon
<1>2. ASSUME NEW m \in 1 .. n, m - 1 \in T
      PROVE  m \in T
  <2>1. m \in 0 .. n /\ m - 1 \in 0 .. (m - 1) /\ 0 \in 0 .. m /\ m \in 0 .. m /\ 0 # m
    BY SMT
  <2>2. PICK f \in [0 .. (m - 1) -> S] : P(m - 1, f)
    BY <1>2, Zenon
  <2> DEFINE h == [k \in 0 .. m |-> IF k = m THEN g[<<m, f[m - 1]>>] ELSE f[k]]
  <2>3. \A k \in 0 .. m : k # m => k \in 0 .. (m - 1)
    BY SMT
  <2>4. g[<<m, f[m - 1]>>] \in S
    BY <2>1, <2>2, Zenon
  <2>5. h \in [0 .. m -> S]
    BY <2>2, <2>3, <2>4, Zenon
  <2>6. h[0] = a
    BY <2>1, <2>2, Zenon
  <2>7. ASSUME NEW k \in 1 .. m
        PROVE  h[k] = g[<<k, h[k - 1]>>]
    <3>1. k \in 0 .. m /\ k - 1 \in 0 .. m /\ k - 1 # m /\ (k # m => k \in 1 .. (m - 1))
      BY SMT
    <3>2. h[k - 1] = f[k - 1]
      BY <3>1, Zenon
    <3>3. CASE k = m
      BY <3>1, <3>2, <3>3, Zenon
    <3>4. CASE k # m
      <4>1. h[k] = f[k]
        BY <3>1, <3>4, Zenon
      <4> QED
        BY <2>2, <3>1, <3>2, <3>4, <4>1, Zenon
    <3> QED
      BY <3>3, <3>4
  <2> HIDE DEF h
  <2> QED
    BY <2>1, <2>5, <2>6, <2>7, Zenon
<1>3. n \in 0 .. n
  BY SMT
<1>4. n \in T
  <2> HIDE DEF T
  <2> QED
    BY <1>1, <1>2, <1>3, LoopInduction
<1>5. PICK f \in [0 .. n -> S] : P(n, f)
  BY <1>4, Zenon
<1>6. \A k \in 0 .. n : k # 0 => k \in 1 .. n
  BY SMT
<1>7. \A k \in 0 .. n : f[k] = IF k = 0 THEN a ELSE g[<<k, f[k - 1]>>]
  BY <1>5, <1>6, Zenon
<1>8. f = [k \in 0 .. n |-> f[k]]
  BY Zenon
<1> QED
  BY <1>7, <1>8, Zenon DEF IsLoop

-----------------------------------------------------------------------------
(* Powers of ten *)

LEMMA TenIs ==
  /\ Ten \in [0 .. Digits -> Nat]
  /\ Ten[0] = 1
  /\ \A k \in 1 .. Digits : Ten[k] = 10 * Ten[k - 1]
<1> DEFINE g == [x \in (1 .. Digits) \X Nat |-> 10 * x[2]]
           Step(f) == [k \in 0 .. Digits |-> IF k = 0 THEN 1 ELSE 10 * f[k - 1]]
<1>1. Digits \in Nat /\ 1 \in Nat
  BY IdFileAssumption
<1>2. g \in [(1 .. Digits) \X Nat -> Nat]
  BY SMT
<1>3. \A k \in 1 .. Digits, v \in Nat : g[<<k, v>>] = 10 * v
  BY SMT
<1> HIDE DEF g
<1>4. PICK f \in [0 .. Digits -> Nat] : IsLoop(f, Digits, 1, g)
  BY <1>1, <1>2, LoopExists
<1>5. \A k \in 0 .. Digits : k # 0 => k \in 1 .. Digits /\ k - 1 \in 0 .. Digits
  BY <1>1, SMT
<1>6. f = Step(f)
  <2>1. \A k \in 0 .. Digits : k # 0 => g[<<k, f[k - 1]>>] = 10 * f[k - 1]
    BY <1>3, <1>5, Zenon
  <2> QED
    BY <1>4, <2>1, Zenon DEF IsLoop
<1>7. Ten = Step(Ten)
  BY <1>6, Zenon DEF Ten
<1> HIDE DEF Step
<1>8. \A k \in 0 .. Digits : Ten[k] = IF k = 0 THEN 1 ELSE 10 * Ten[k - 1]
  <2>1. ASSUME NEW F, F = Step(Ten), NEW k \in 0 .. Digits
        PROVE  F[k] = IF k = 0 THEN 1 ELSE 10 * Ten[k - 1]
    BY <2>1, Zenon DEF Step
  <2> QED
    BY <1>7, <2>1, Zenon
<1>9. \A k \in 1 .. Digits : k \in 0 .. Digits /\ k # 0
  BY SMT
<1>10. 0 \in 0 .. Digits
  BY <1>1, SMT
<1>11. \A k \in 0 .. Digits : Ten[k] \in Nat
  <2> DEFINE T == {k \in 0 .. Digits : Ten[k] \in Nat}
  <2>1. 0 \in T
    BY <1>1, <1>8, <1>10, Zenon
  <2>2. ASSUME NEW k \in 1 .. Digits, k - 1 \in T
        PROVE  k \in T
    <3>1. Ten[k] = 10 * Ten[k - 1] /\ Ten[k - 1] \in Nat
      BY <1>8, <1>9, <2>2, Zenon
    <3>2. 10 * Ten[k - 1] \in Nat
      BY <3>1, SMT
    <3> QED
      BY <1>9, <3>1, <3>2, Zenon
  <2> HIDE DEF T
  <2>3. \A k \in 0 .. Digits : k \in T
    BY <1>1, <2>1, <2>2, LoopInduction
  <2> QED
    BY <2>3, Zenon DEF T
<1>12. Ten = [k \in 0 .. Digits |-> Ten[k]]
  <2>1. ASSUME NEW F, F = Step(Ten)
        PROVE  F = [k \in 0 .. Digits |-> F[k]]
    BY <2>1, Zenon DEF Step
  <2> QED
    BY <1>7, <2>1, Zenon
<1> QED
  BY <1>8, <1>9, <1>10, <1>11, <1>12, Zenon

(* The divider of IntToStr is never 0. *)
LEMMA TenPositive == \A k \in 0 .. Digits : Ten[k] \in Nat \ {0}
<1> DEFINE T == {k \in 0 .. Digits : Ten[k] \in Nat \ {0}}
<1>1. Digits \in Nat
  BY IdFileAssumption
<1>2. 0 \in T
  BY <1>1, TenIs, SMT
<1>3. ASSUME NEW k \in 1 .. Digits, k - 1 \in T
      PROVE  k \in T
  <2>1. Ten[k] = 10 * Ten[k - 1] /\ Ten[k - 1] \in Nat \ {0} /\ k \in 0 .. Digits
    BY <1>3, TenIs, SMT
  <2> QED
    BY <2>1, SMT
<1> HIDE DEF T
<1>4. \A k \in 0 .. Digits : k \in T
  BY <1>1, <1>2, <1>3, LoopInduction
<1> QED
  BY <1>4 DEF T

-----------------------------------------------------------------------------
(* Division *)

LEMMA TimesKeepsOrder ==
  ASSUME NEW b \in Nat, NEW p \in Nat, NEW q \in Nat, p < q
  PROVE  b * p + b <= b * q /\ b * p \in Nat /\ b * q \in Nat
<1>1. PICK r \in Nat : q = p + 1 + r
  <2>1. q - p - 1 \in Nat /\ q = p + 1 + (q - p - 1)
    BY SMT
  <2> QED
    BY <2>1
<1>2. b * q = b * p + b + b * r /\ b * r \in Nat /\ b * p \in Nat /\ b * q \in Nat
  BY <1>1, SMT
<1> QED
  BY <1>2, SMT

(* Quotient and remainder are the only numbers that fit. *)
LEMMA DivisionIs ==
  ASSUME NEW a \in Nat, NEW b \in Nat \ {0}, NEW q \in Nat, NEW r \in Nat,
         a = b * q + r, r < b
  PROVE  a \div b = q /\ a % b = r
<1> DEFINE p == a \div b
           t == a % b
<1>1. p \in Nat /\ t \in Nat /\ t < b /\ a = b * p + t
  BY SMT
<1> HIDE DEF p, t
<1>2. b * p \in Nat /\ b * q \in Nat
  BY <1>1, SMT
<1>3. ~ (p < q)
  <2>1. SUFFICES ASSUME p < q PROVE FALSE
    OBVIOUS
  <2>2. b * p + b <= b * q
    BY <1>1, <2>1, TimesKeepsOrder
  <2> DEFINE x == b * p
             y == b * q
  <2>3. x \in Nat /\ y \in Nat /\ x + b <= y /\ x + t = y + r
    BY <1>1, <1>2, <2>2
  <2> HIDE DEF x, y
  <2> QED
    BY <1>1, <2>3, SMT
<1>4. ~ (q < p)
  <2>1. SUFFICES ASSUME q < p PROVE FALSE
    OBVIOUS
  <2>2. b * q + b <= b * p
    BY <1>1, <2>1, TimesKeepsOrder
  <2> DEFINE x == b * p
             y == b * q
  <2>3. x \in Nat /\ y \in Nat /\ y + b <= x /\ x + t = y + r
    BY <1>1, <1>2, <2>2
  <2> HIDE DEF x, y
  <2> QED
    BY <1>1, <2>3, SMT
<1>5. p = q
  BY <1>1, <1>3, <1>4, SMT
<1>6. t = r
  <2> DEFINE y == b * q
  <2>1. y \in Nat /\ y + t = y + r
    BY <1>1, <1>2, <1>5
  <2> HIDE DEF y
  <2> QED
    BY <1>1, <2>1, SMT
<1> QED
  BY <1>5, <1>6 DEF p, t

(* One digit: what an iteration of IntToStr takes off, and what one of      *)
(* StrToInt puts back.                                                      *)
Splits(a, b, c) ==
  /\ (a % c) \div b = (a \div b) % 10
  /\ (a % c) % b = a % b
  /\ a \div b = (a \div c) * 10 + ((a \div b) % 10)
  /\ (a \div b) % 10 \in 0 .. 9 /\ a \div b \in Nat /\ a \div c \in Nat

LEMMA OneDigit ==
  ASSUME NEW a \in Nat, NEW b \in Nat \ {0}, NEW c, c = 10 * b
  PROVE  Splits(a, b, c)
<1> DEFINE q == a \div b
           r == a % b
<1>1. q \in Nat /\ r \in Nat /\ r < b /\ a = b * q + r
  BY SMT
<1> HIDE DEF q, r
<1>2. PICK s \in Nat, d \in 0 .. 9 : s = q \div 10 /\ d = q % 10 /\ q = 10 * s + d
  <2>1. q \div 10 \in Nat /\ q % 10 \in 0 .. 9 /\ q = 10 * (q \div 10) + (q % 10)
    BY <1>1, SMT
  <2> QED
    BY <2>1
<1>3. b * d \in Nat /\ b * s \in Nat /\ b * d <= 9 * b
  <2>1. d \in Nat /\ d < 10
    BY SMT
  <2>2. b * d + b <= b * 10 /\ b * d \in Nat
    BY <2>1, TimesKeepsOrder
  <2>3. b * s \in Nat
    BY SMT
  <2> DEFINE x == b * d
  <2> HIDE DEF x
  <2>4. x \in Nat /\ x + b <= b * 10
    BY <2>2 DEF x
  <2>5. x <= 9 * b
    BY <2>4, SMT
  <2> QED
    BY <2>2, <2>3, <2>5 DEF x
<1>4. a = c * s + (b * d + r)
  <2>1. b * q = 10 * (b * s) + b * d
    BY <1>1, <1>2, SMT
  <2>2. c * s = 10 * (b * s)
    BY SMT
  <2> QED
    BY <1>1, <1>3, <2>1, <2>2, SMT
<1>5. PICK e \in Nat : e = b * d + r /\ e < c
  <2> DEFINE x == b * d
  <2>1. x \in Nat /\ x <= 9 * b
    BY <1>3
  <2> HIDE DEF x
  <2>2. x + r \in Nat /\ x + r < c
    BY <1>1, <2>1, SMT
  <2> QED
    BY <2>2 DEF x
<1>6. c \in Nat \ {0}
  BY SMT
<1>7. a \div c = s /\ a % c = e
  BY <1>4, <1>5, <1>6, DivisionIs
<1>8. e \div b = d /\ e % b = r
  <2>1. d \in Nat
    BY SMT
  <2> QED
    BY <1>1, <1>5, <2>1, DivisionIs
<1>9. q = s * 10 + d
  BY <1>2, SMT
<1> QED
  BY <1>1, <1>2, <1>7, <1>8, <1>9 DEF Splits, q, r

LEMMA SmallDivision ==
  ASSUME NEW a \in Nat, NEW b \in Nat \ {0}, a < b
  PROVE  a \div b = 0 /\ a % b = a
<1>1. a = b * 0 + a /\ 0 \in Nat
  BY SMT
<1> QED
  BY <1>1, DivisionIs

(* The first digits of a number, one more and one less. *)
LEMMA NextDigit ==
  ASSUME NEW n \in Nat, NEW e \in 0 .. Digits, e + 1 \in 0 .. Digits
  PROVE  Splits(n, Ten[e], Ten[e + 1]) /\ n \div Ten[e] <= n
<1>1. PICK b \in Nat \ {0} : b = Ten[e]
  BY TenPositive
<1>2. e + 1 \in 1 .. Digits /\ (e + 1) - 1 = e
  BY SMT
<1>3. PICK c : c = 10 * b
  OBVIOUS
<1>4. c = Ten[e + 1]
  BY <1>1, <1>2, <1>3, TenIs, Zenon
<1>5. Splits(n, b, c)
  BY <1>3, OneDigit
<1>6. n \div b <= n
  <2> DEFINE q == n \div b
             r == n % b
  <2>1. q \in Nat /\ r \in Nat /\ n = b * q + r
    BY SMT
  <2> HIDE DEF q, r
  <2>2. PICK m \in Nat : b = m + 1
    <3>1. b - 1 \in Nat /\ b = (b - 1) + 1
      BY SMT
    <3> QED
      BY <3>1
  <2>3. b * q = m * q + q /\ m * q \in Nat
    BY <2>1, <2>2, SMT
  <2>4. q <= n
    BY <2>1, <2>3, SMT
  <2> QED
    BY <2>4 DEF q
<1> QED
  BY <1>1, <1>4, <1>5, <1>6, Zenon

-----------------------------------------------------------------------------
(* IntToStr *)

Loops == [str : [1 .. (Digits + 1) -> Nat], rest : Nat, pos : Nat]

(* The number, less than 10^Digits, of which IntToStr has seen k digits:    *)
(* those from the first that is not 0 on stand in the string, or 0 if there *)
(* was none, and nothing stands behind them.                                *)
DigitsInv(s, k, n) ==
  /\ s \in Loops
  /\ s.rest = n % Ten[Digits - k]
  /\ s.pos \in 0 .. k
  /\ n \div Ten[Digits - k + s.pos] = 0
  /\ \A j \in 1 .. s.pos : s.str[j] = (n \div Ten[Digits - k + s.pos - j]) % 10
  /\ s.pos = 0 /\ k # 0 => s.str[1] = 0
  /\ \A j \in 1 .. (Digits + 1) : j > s.pos /\ (j > 1 \/ k = 0) => s.str[j] = Nul

LEMMA PutDigitType ==
  ASSUME NEW s \in Loops, NEW k \in 1 .. Digits
  PROVE  PutDigit(s, k) \in Loops
<1>1. Digits - k \in 0 .. Digits
  BY IdFileAssumption, SMT
<1>2. PICK b \in Nat \ {0} : b = Ten[Digits - k]
  BY <1>1, TenPositive
<1>3. s.rest \in Nat /\ s.pos \in Nat /\ s.str \in [1 .. (Digits + 1) -> Nat]
  BY DEF Loops
<1>4. s.rest \div b \in Nat /\ s.rest % b \in Nat
  BY <1>3, SMT
<1>5. [s.str EXCEPT ![s.pos + 1] = s.rest \div b] \in [1 .. (Digits + 1) -> Nat]
  BY <1>3, <1>4, Zenon
<1>6. (IF s.rest \div b = 0 /\ s.pos = 0 THEN 0 ELSE s.pos + 1) \in Nat
  BY <1>3, SMT
<1> QED
  BY <1>2, <1>4, <1>5, <1>6, Zenon DEF PutDigit, Loops

LEMMA PutDigitKeeps ==
  ASSUME NEW n \in Nat, NEW k \in 1 .. Digits, NEW s, DigitsInv(s, k - 1, n)
  PROVE  DigitsInv(PutDigit(s, k), k, n)
<1>1. Digits \in Nat /\ s \in Loops
  BY IdFileAssumption DEF DigitsInv
<1>2. PICK pos \in Nat, chars \in [1 .. (Digits + 1) -> Nat] : pos = s.pos /\ chars = s.str
  BY <1>1 DEF Loops
<1>3. pos \in 0 .. (k - 1)
  BY <1>2 DEF DigitsInv
<1>4. PICK e \in Nat : e = Digits - k
  BY <1>1, SMT
<1>5. e \in 0 .. Digits /\ e + 1 \in 1 .. Digits /\ e + 1 = Digits - (k - 1) /\ (e + 1) - 1 = e
  BY <1>1, <1>4, SMT
<1>6. PICK b \in Nat \ {0} : b = Ten[e]
  BY <1>5, TenPositive
<1>7. Ten[e + 1] = 10 * b
  BY <1>5, <1>6, TenIs
<1>8. s.rest = n % (10 * b)
  BY <1>5, <1>7 DEF DigitsInv
<1>9. PICK c : c = 10 * b
  OBVIOUS
<1>10. Splits(n, b, c)
  BY <1>9, OneDigit
<1>11. PICK d \in 0 .. 9 : d = (n \div b) % 10
  BY <1>10 DEF Splits
<1>12. s.rest \div b = d /\ s.rest % b = n % b /\ n \div b = (n \div (10 * b)) * 10 + d
  BY <1>8, <1>9, <1>10, <1>11, Zenon DEF Splits
<1>13. d \in Nat
  BY SMT
<1> DEFINE t == PutDigit(s, k)
<1>14. /\ t.str = [chars EXCEPT ![pos + 1] = d]
       /\ t.rest = n % b
       /\ t.pos = IF d = 0 /\ pos = 0 THEN 0 ELSE pos + 1
  BY <1>2, <1>4, <1>6, <1>12 DEF PutDigit
<1>15. t \in Loops
  BY <1>1, PutDigitType
<1> HIDE DEF t
<1>16. pos + 1 \in 1 .. (Digits + 1) /\ 1 \in 1 .. (Digits + 1)
  BY <1>1, <1>3, SMT
<1>17. t.str[pos + 1] = d /\ \A j \in 1 .. (Digits + 1) : j # pos + 1 => t.str[j] = chars[j]
  BY <1>2, <1>14, <1>16, Zenon
<1>18. /\ n \div Ten[(e + 1) + pos] = 0
       /\ \A j \in 1 .. pos : chars[j] = (n \div Ten[(e + 1) + pos - j]) % 10
       /\ \A j \in 1 .. (Digits + 1) :
            j > pos /\ (j > 1 \/ k - 1 = 0) => chars[j] = Nul
  BY <1>2, <1>5, Zenon DEF DigitsInv
<1>19. ASSUME d = 0, pos = 0
       PROVE  DigitsInv(t, k, n)
  <2>1. t.pos = 0 /\ t.pos \in 0 .. k
    BY <1>14, <1>19, SMT
  <2>2. n \div (10 * b) = 0
    <3>1. (e + 1) + 0 = e + 1
      BY SMT
    <3> QED
      BY <1>7, <1>18, <1>19, <3>1, Zenon
  <2>3. n \div b = 0
    BY <1>12, <1>19, <2>2, SMT
  <2>4. n \div Ten[Digits - k + t.pos] = 0
    <3>1. Digits - k + 0 = e
      BY <1>1, <1>4, SMT
    <3> QED
      BY <1>6, <2>1, <2>3, <3>1, Zenon
  <2>5. t.str[1] = 0
    <3>1. pos + 1 = 1
      BY <1>19, SMT
    <3> QED
      BY <1>17, <1>19, <3>1, Zenon
  <2>6. ASSUME NEW j \in 1 .. (Digits + 1), j > t.pos, j > 1 \/ k = 0
        PROVE  t.str[j] = Nul
    <3>1. j > 1 /\ j # pos + 1 /\ j > pos
      BY <1>1, <1>19, <2>6, SMT
    <3> QED
      BY <1>17, <1>18, <3>1, Zenon
  <2>7. ~ \E j : j \in 1 .. 0
    BY SMT
  <2> QED
    BY <1>4, <1>6, <1>14, <1>15, <2>1, <2>4, <2>5, <2>6, <2>7, Zenon DEF DigitsInv
<1>20. ASSUME ~ (d = 0 /\ pos = 0)
       PROVE  DigitsInv(t, k, n)
  <2>1. t.pos = pos + 1 /\ t.pos \in 0 .. k /\ t.pos # 0
    <3>1. t.pos = pos + 1
      BY <1>14, <1>20, Zenon
    <3> QED
      BY <1>3, <3>1, SMT
  <2>2. Digits - k + t.pos = (e + 1) + pos
    BY <1>1, <1>4, <2>1, SMT
  <2>3. ASSUME NEW j \in 1 .. t.pos
        PROVE  t.str[j] = (n \div Ten[Digits - k + t.pos - j]) % 10
    <3>1. j \in 1 .. (Digits + 1) /\ (j # pos + 1 => j \in 1 .. pos)
      BY <1>1, <1>3, <2>1, SMT
    <3>2. Digits - k + t.pos - j = (e + 1) + pos - j
      BY <1>1, <1>4, <2>1, SMT
    <3>3. CASE j = pos + 1
      <4>1. (e + 1) + pos - j = e
        BY <3>3, SMT
      <4> QED
        BY <1>6, <1>11, <1>17, <3>2, <3>3, <4>1, Zenon
    <3>4. CASE j # pos + 1
      BY <1>17, <1>18, <3>1, <3>2, <3>4, Zenon
    <3> QED
      BY <3>3, <3>4
  <2>4. ASSUME NEW j \in 1 .. (Digits + 1), j > t.pos, j > 1 \/ k = 0
        PROVE  t.str[j] = Nul
    <3>1. j > 1 /\ j # pos + 1 /\ j > pos
      BY <1>1, <2>1, <2>4, SMT
    <3> QED
      BY <1>17, <1>18, <3>1, Zenon
  <2> QED
    BY <1>4, <1>6, <1>14, <1>15, <1>18, <2>1, <2>2, <2>3, <2>4, Zenon DEF DigitsInv
<1> QED
  BY <1>19, <1>20 DEF t

(* The loop of IntToStr, which the recursive definition in it stands for. *)
Steps(buf, n) ==
  CHOOSE f : f = [k \in 0 .. Digits |->
                    IF k = 0 THEN [str |-> buf, rest |-> n, pos |-> 0] ELSE PutDigit(f[k - 1], k)]

LEMMA IntToStrIs ==
  ASSUME NEW n \in Nat, n < Ten[Digits]
  PROVE  \E s : DigitsInv(s, Digits, n) /\ IntToStr(Blank, n) = s.str
<1> DEFINE a == [str |-> Blank, rest |-> n, pos |-> 0]
           g == [x \in (1 .. Digits) \X Loops |-> PutDigit(x[2], x[1])]
           Step(f) == [k \in 0 .. Digits |-> IF k = 0 THEN a ELSE PutDigit(f[k - 1], k)]
           steps == Steps(Blank, n)
<1>1. Digits \in Nat /\ 0 \in 0 .. Digits /\ Digits \in 0 .. Digits
  BY IdFileAssumption, SMT
<1>2. Blank \in [1 .. (Digits + 1) -> Nat] /\ \A j \in 1 .. (Digits + 1) : Blank[j] = Nul
  BY SMT DEF Blank, Nul
<1>3. a \in Loops
  BY <1>2 DEF Loops
<1>4. g \in [(1 .. Digits) \X Loops -> Loops]
  BY PutDigitType
<1>5. \A k \in 1 .. Digits, v \in Loops : g[<<k, v>>] = PutDigit(v, k)
  OBVIOUS
<1> HIDE DEF a, g
<1>6. PICK f \in [0 .. Digits -> Loops] : IsLoop(f, Digits, a, g)
  BY <1>1, <1>3, <1>4, LoopExists
<1>7. \A k \in 0 .. Digits : k # 0 => k \in 1 .. Digits /\ k - 1 \in 0 .. Digits
  BY <1>1, SMT
<1>8. f = Step(f)
  <2>1. \A k \in 0 .. Digits : k # 0 => g[<<k, f[k - 1]>>] = PutDigit(f[k - 1], k)
    BY <1>5, <1>7, Zenon
  <2> QED
    BY <1>6, <2>1, Zenon DEF IsLoop
<1>9. steps = Step(steps)
  BY <1>8, Zenon DEF Steps, a
<1> HIDE DEF steps, Step
<1>10. \A k \in 0 .. Digits : steps[k] = IF k = 0 THEN a ELSE PutDigit(steps[k - 1], k)
  <2>1. ASSUME NEW F, F = Step(steps), NEW k \in 0 .. Digits
        PROVE  F[k] = IF k = 0 THEN a ELSE PutDigit(steps[k - 1], k)
    BY <2>1, Zenon DEF Step
  <2> QED
    BY <1>9, <2>1, Zenon
<1> DEFINE T == {k \in 0 .. Digits : DigitsInv(steps[k], k, n)}
<1>11. 0 \in T
  <2>1. steps[0] = a
    BY <1>1, <1>10, Zenon
  <2>2. PICK b \in Nat \ {0} : b = Ten[Digits]
    BY <1>1, TenPositive
  <2>3. n \div b = 0 /\ n % b = n
    BY <2>2, SmallDivision
  <2>4. Digits - 0 = Digits /\ Digits - 0 + 0 = Digits /\ 0 \in 0 .. 0 /\ ~ \E j : j \in 1 .. 0
    BY <1>1, SMT
  <2>5. a.pos = 0 /\ a.rest = n /\ a.str = Blank
    BY DEF a
  <2>6. DigitsInv(a, 0, n)
    BY <1>2, <1>3, <2>2, <2>3, <2>4, <2>5, Zenon DEF DigitsInv
  <2> QED
    BY <1>1, <2>1, <2>6, Zenon
<1>12. ASSUME NEW k \in 1 .. Digits, k - 1 \in T
       PROVE  k \in T
  <2>1. k \in 0 .. Digits /\ k # 0
    BY SMT
  <2>2. steps[k] = PutDigit(steps[k - 1], k)
    BY <1>10, <2>1, Zenon
  <2>3. DigitsInv(steps[k - 1], k - 1, n)
    BY <1>12, Zenon
  <2>4. DigitsInv(PutDigit(steps[k - 1], k), k, n)
    BY <2>3, PutDigitKeeps
  <2> QED
    BY <2>1, <2>2, <2>4, Zenon
<1> HIDE DEF T
<1>13. Digits \in T
  BY <1>1, <1>11, <1>12, LoopInduction
<1>14. IntToStr(Blank, n) = steps[Digits].str
  BY Zenon DEF IntToStr, steps, Steps
<1> QED
  BY <1>13, <1>14, Zenon DEF T

(* What the buffer holds after IntToStr: L digits, the first L of the       *)
(* number's decimal form counted from its highest, and nothing behind them. *)
Holds(buf, L, n) ==
  /\ buf \in [1 .. (Digits + 1) -> 0 .. Nul]
  /\ L \in 1 .. Digits
  /\ n \div Ten[L] = 0
  /\ \A j \in 1 .. L : buf[j] = (n \div Ten[L - j]) % 10
  /\ \A j \in (L + 1) .. (Digits + 1) : buf[j] = Nul

LEMMA IntToStrHolds ==
  ASSUME NEW n \in Nat, n < Ten[Digits]
  PROVE  \E L : Holds(IntToStr(Blank, n), L, n)
<1>1. PICK s : DigitsInv(s, Digits, n) /\ IntToStr(Blank, n) = s.str
  BY IntToStrIs
<1>2. PICK pos \in Nat, buf \in [1 .. (Digits + 1) -> Nat] : pos = s.pos /\ buf = s.str
  BY <1>1 DEF DigitsInv, Loops
<1>3. Digits \in Nat \ {0} /\ Digits - Digits = 0 /\ Digits - Digits + pos = pos
  BY IdFileAssumption, SMT
<1>4. /\ pos \in 0 .. Digits
      /\ n \div Ten[pos] = 0
      /\ \A j \in 1 .. pos : buf[j] = (n \div Ten[pos - j]) % 10
      /\ pos = 0 => buf[1] = 0
      /\ \A j \in 1 .. (Digits + 1) : j > pos /\ j > 1 => buf[j] = Nul
  <2>1. Digits # 0
    BY <1>3
  <2>2. \A j \in 1 .. pos : Digits - Digits + pos - j = pos - j
    BY <1>3, SMT
  <2> QED
    BY <1>1, <1>2, <1>3, <2>1, <2>2, Zenon DEF DigitsInv
<1>5. PICK L \in 1 .. Digits : L = IF pos = 0 THEN 1 ELSE pos
  BY <1>3, <1>4, SMT
<1>6. n \div Ten[L] = 0 /\ \A j \in 1 .. L : buf[j] = (n \div Ten[L - j]) % 10
  <2>1. CASE pos = 0
    <3>1. L = 1 /\ 1 \in 1 .. Digits /\ 1 - 1 = 0 /\ \A j \in 1 .. 1 : j = 1
      BY <1>3, <1>5, <2>1, SMT
    <3>2. Ten[0] = 1 /\ Ten[1] = 10
      <4>1. Ten[1] = 10 * Ten[0] /\ Ten[0] = 1
        BY <3>1, TenIs, Zenon
      <4> QED
        BY <4>1, SMT
    <3>3. n \div 1 = 0
      BY <1>4, <2>1, <3>2, Zenon
    <3>4. n = 0
      BY <3>3, SMT
    <3>5. n \div 10 = 0 /\ (n \div 1) % 10 = 0
      BY <3>4, SMT
    <3>6. buf[1] = 0
      BY <1>4, <2>1, Zenon
    <3> QED
      BY <3>1, <3>2, <3>5, <3>6, Zenon
  <2>2. CASE pos # 0
    BY <1>4, <1>5, <2>2, Zenon
  <2> QED
    BY <2>1, <2>2
<1>7. \A j \in (L + 1) .. (Digits + 1) : j \in 1 .. (Digits + 1) /\ j > pos /\ j > 1
  BY <1>3, <1>5, SMT
<1>8. \A j \in 1 .. (Digits + 1) : buf[j] \in 0 .. Nul
  <2> TAKE j \in 1 .. (Digits + 1)
  <2>1. CASE j \in (L + 1) .. (Digits + 1)
    <3>1. buf[j] = Nul
      BY <1>4, <1>7, <2>1, Zenon
    <3> QED
      BY <3>1, SMT DEF Nul
  <2>2. CASE j \in 1 .. L
    <3>1. L - j \in 0 .. Digits
      BY <1>3, <2>2, SMT
    <3>2. PICK b \in Nat \ {0} : b = Ten[L - j]
      BY <3>1, TenPositive
    <3>3. buf[j] = (n \div b) % 10
      BY <1>6, <2>2, <3>2, Zenon
    <3>4. n \div b \in Nat
      BY SMT
    <3> QED
      BY <3>3, <3>4, SMT DEF Nul
  <2> QED
    BY <1>3, <2>1, <2>2, SMT
<1>9. buf \in [1 .. (Digits + 1) -> 0 .. Nul]
  BY <1>8, Zenon
<1>10. \A j \in (L + 1) .. (Digits + 1) : buf[j] = Nul
  BY <1>4, <1>7, Zenon
<1> QED
  BY <1>1, <1>2, <1>6, <1>9, <1>10, Zenon DEF Holds

-----------------------------------------------------------------------------
(* strlen, memset and StrToInt *)

LEMMA DigitIsNotNul ==
  ASSUME NEW buf, NEW L, NEW n \in Nat, Holds(buf, L, n), NEW j \in 1 .. L
  PROVE  buf[j] \in 0 .. 9 /\ buf[j] # Nul
<1>1. Digits \in Nat /\ L \in 1 .. Digits
  BY IdFileAssumption DEF Holds
<1>2. L - j \in 0 .. Digits
  BY <1>1, SMT
<1>3. PICK b \in Nat \ {0} : b = Ten[L - j]
  BY <1>2, TenPositive
<1>4. buf[j] = (n \div b) % 10
  BY <1>3, Zenon DEF Holds
<1>5. n \div b \in Nat
  BY SMT
<1> QED
  BY <1>4, <1>5, SMT DEF Nul

LEMMA StrLenIs ==
  ASSUME NEW buf, NEW L, NEW n \in Nat, Holds(buf, L, n)
  PROVE  StrLen(buf) = L
<1> DEFINE P(k) == buf[k + 1] = Nul /\ \A j \in 1 .. k : buf[j] # Nul
<1>1. Digits \in Nat /\ L \in 1 .. Digits
  BY IdFileAssumption DEF Holds
<1>2. L \in 0 .. Digits /\ L + 1 \in (L + 1) .. (Digits + 1)
  BY <1>1, SMT
<1>3. P(L)
  BY <1>2, DigitIsNotNul, ZenonT(60) DEF Holds
<1>4. ASSUME NEW k \in 0 .. Digits, P(k)
      PROVE  k = L
  <2>1. CASE k < L
    <3>1. k + 1 \in 1 .. L
      BY <1>1, <2>1, SMT
    <3> QED
      BY <1>4, <3>1, DigitIsNotNul, Zenon
  <2>2. CASE k > L
    <3>1. L + 1 \in 1 .. k
      BY <1>1, <2>2, SMT
    <3> QED
      BY <1>2, <1>4, <3>1, Zenon DEF Holds
  <2> QED
    BY <1>1, <2>1, <2>2, SMT
<1>5. StrLen(buf) = CHOOSE k \in 0 .. Digits : P(k)
  BY Zenon DEF StrLen
<1> HIDE DEF P
<1> QED
  BY <1>2, <1>3, <1>4, <1>5, Zenon

(* memset leaves nothing of a number, so that the next one finds the buffer *)
(* as the first did.                                                        *)
LEMMA ClearedIsBlank ==
  ASSUME NEW buf, NEW L, NEW n \in Nat, Holds(buf, L, n)
  PROVE  Cleared(buf) = Blank
<1>1. StrLen(buf) = L /\ L \in 1 .. Digits /\ Digits \in Nat
  <2>1. StrLen(buf) = L
    BY StrLenIs
  <2>2. L \in 1 .. Digits
    BY Zenon DEF Holds
  <2> QED
    BY <2>1, <2>2, IdFileAssumption, Zenon
<1>2. DOMAIN buf = 1 .. (Digits + 1)
  BY Zenon DEF Holds
<1>3. \A k \in 1 .. (Digits + 1) : ~ (k <= L) => k \in (L + 1) .. (Digits + 1)
  BY <1>1, SMT
<1>4. \A k \in 1 .. (Digits + 1) : (IF k <= L THEN Nul ELSE buf[k]) = Nul
  BY <1>3, Zenon DEF Holds
<1> QED
  BY <1>1, <1>2, <1>4, Zenon DEF Cleared, Blank

LEMMA TextIs ==
  ASSUME NEW buf, NEW L, NEW n \in Nat, Holds(buf, L, n)
  PROVE  /\ Text(buf) \in Seq(0 .. Nul)
         /\ Len(Text(buf)) = L
         /\ \A j \in 1 .. L : Text(buf)[j] = buf[j]
<1>1. StrLen(buf) = L /\ L \in 1 .. Digits /\ Digits \in Nat
  <2>1. StrLen(buf) = L
    BY StrLenIs
  <2>2. L \in 1 .. Digits
    BY Zenon DEF Holds
  <2> QED
    BY <2>1, <2>2, IdFileAssumption, Zenon
<1>2. Text(buf) = SubSeq(buf, 1, L)
  BY <1>1 DEF Text
<1>3. ASSUME NEW S, buf \in [1 .. (Digits + 1) -> S]
      PROVE  /\ SubSeq(buf, 1, L) \in Seq(S) /\ Len(SubSeq(buf, 1, L)) = L
             /\ \A j \in 1 .. L : SubSeq(buf, 1, L)[j] = buf[j]
  <2>1. PICK m \in Nat : m = Digits + 1 /\ L \in 1 .. m
    BY <1>1, SMT
  <2>2. buf \in Seq(S) /\ Len(buf) = m
    BY <1>3, <2>1, SMT
  <2> QED
    BY <2>1, <2>2, SMT
<1>4. buf \in [1 .. (Digits + 1) -> 0 .. Nul]
  BY Zenon DEF Holds
<1> QED
  BY <1>2, <1>3, <1>4

(* The loop of StrToInt, which the recursive definition in it stands for. *)
Reads(text) ==
  CHOOSE f : f = [k \in 0 .. Len(text) |->
                    IF k = 0 THEN 0 ELSE (f[k - 1] * 10 + text[k]) % (Half * Half)]

(* StrToInt undoes IntToStr: no uint32_t wraps on the way. *)
LEMMA StrToIntIs ==
  ASSUME NEW buf, NEW L, NEW n \in Nat, Holds(buf, L, n), n < Half * Half
  PROVE  StrToInt(Text(buf)) = n
<1> DEFINE text == Text(buf)
           Step(f) == [k \in 0 .. L |->
                         IF k = 0 THEN 0 ELSE (f[k - 1] * 10 + text[k]) % (Half * Half)]
           W == [k \in 0 .. L |-> n \div Ten[L - k]]
           reads == Reads(text)
<1>1. /\ Len(text) = L /\ L \in 1 .. Digits /\ Digits \in Nat
      /\ \A j \in 1 .. L : text[j] = (n \div Ten[L - j]) % 10
  <2>1. Len(text) = L /\ \A j \in 1 .. L : text[j] = buf[j]
    BY TextIs
  <2>2. L \in 1 .. Digits /\ \A j \in 1 .. L : buf[j] = (n \div Ten[L - j]) % 10
    BY Zenon DEF Holds
  <2> QED
    BY <2>1, <2>2, IdFileAssumption, Zenon
<1> HIDE DEF text
<1>2. PICK H \in Nat \ {0} : H = Half * Half
  <2>1. Half \in Nat \ {0}
    BY IdFileAssumption
  <2>2. Half * Half \in Nat \ {0}
    BY <2>1, SMT
  <2> QED
    BY <2>2
<1>3. n \div Ten[L - 0] = 0
  <2>1. L - 0 = L
    BY <1>1, SMT
  <2> QED
    BY <2>1, Zenon DEF Holds
<1>4. ASSUME NEW k \in 1 .. L
      PROVE  ((n \div Ten[L - (k - 1)]) * 10 + text[k]) % (Half * Half) = n \div Ten[L - k]
  <2>1. PICK e \in 0 .. Digits : e = L - k /\ e + 1 = L - (k - 1) /\ e + 1 \in 0 .. Digits
    BY <1>1, SMT
  <2>2. PICK q \in Nat : q = n \div Ten[e]
    BY <2>1, NextDigit, Zenon DEF Splits
  <2>3. q = (n \div Ten[e + 1]) * 10 + (q % 10) /\ q <= n
    BY <2>1, <2>2, NextDigit, Zenon DEF Splits
  <2>4. text[k] = q % 10
    BY <1>1, <2>1, <2>2, Zenon
  <2>5. (n \div Ten[L - (k - 1)]) * 10 + text[k] = q
    BY <2>1, <2>3, <2>4, Zenon
  <2>6. q < H
    BY <1>2, <2>3, SMT
  <2>7. q % H = q
    BY <2>6, SmallDivision
  <2> QED
    BY <1>2, <2>1, <2>2, <2>5, <2>7, Zenon
<1>5. \A k \in 0 .. L : k # 0 => k \in 1 .. L /\ k - 1 \in 0 .. L
  BY <1>1, SMT
<1>6. 0 \in 0 .. L /\ L \in 0 .. L /\ L \in Nat
  BY <1>1, SMT
<1>7. W = Step(W)
  <2>1. \A k \in 0 .. L : k # 0 => W[k - 1] = n \div Ten[L - (k - 1)]
    BY <1>5, Zenon
  <2>2. \A k \in 0 .. L : n \div Ten[L - k]
              = IF k = 0 THEN 0 ELSE (W[k - 1] * 10 + text[k]) % (Half * Half)
    BY <1>3, <1>4, <1>5, <2>1, Zenon
  <2>3. ASSUME NEW F, F = W
        PROVE  [k \in 0 .. L |-> n \div Ten[L - k]] = Step(F)
    BY <2>2, <2>3, Zenon
  <2> QED
    BY <2>3, Zenon
<1> HIDE DEF W
<1>8. reads = Step(reads)
  BY <1>1, <1>7, Zenon DEF Reads
<1> HIDE DEF reads, Step
<1>9. \A k \in 0 .. L :
        reads[k] = IF k = 0 THEN 0 ELSE (reads[k - 1] * 10 + text[k]) % (Half * Half)
  <2>1. ASSUME NEW F, F = Step(reads), NEW k \in 0 .. L
        PROVE  F[k] = IF k = 0 THEN 0 ELSE (reads[k - 1] * 10 + text[k]) % (Half * Half)
    BY <2>1, Zenon DEF Step
  <2> QED
    BY <1>8, <2>1, Zenon
<1> DEFINE T == {k \in 0 .. L : reads[k] = n \div Ten[L - k]}
<1>10. 0 \in T
  BY <1>3, <1>6, <1>9, Zenon
<1>11. ASSUME NEW k \in 1 .. L, k - 1 \in T
       PROVE  k \in T
  <2>1. k \in 0 .. L /\ k # 0
    BY SMT
  <2> QED
    BY <1>4, <1>9, <1>11, <2>1, Zenon
<1> HIDE DEF T
<1>12. L \in T
  BY <1>6, <1>10, <1>11, LoopInduction
<1>13. reads[L] = n
  <2>1. L - L = 0 /\ n \div 1 = n
    BY <1>6, SMT
  <2>2. reads[L] = n \div Ten[L - L]
    BY <1>12, Zenon DEF T
  <2> QED
    BY <2>1, <2>2, TenIs, Zenon
<1> QED
  BY <1>1, <1>13, Zenon DEF StrToInt, reads, Reads, text

(* A number comes back from its text, and the buffer is as it was. *)
LEMMA ThereAndBack ==
  ASSUME NEW n \in Nat, n < Half * Half
  PROVE  /\ StrToInt(Text(IntToStr(Blank, n))) = n
         /\ Cleared(IntToStr(Blank, n)) = Blank
         /\ Text(IntToStr(Blank, n)) \in Seq(0 .. Nul)
<1>1. n < Ten[Digits]
  <2>1. Half \in Nat /\ Digits \in 0 .. Digits /\ Half * Half <= Ten[Digits]
    BY IdFileAssumption
  <2>2. PICK h \in Nat, t \in Nat : h = Half * Half /\ t = Ten[Digits]
    <3>1. Half * Half \in Nat
      BY <2>1, SMT
    <3>2. Ten[Digits] \in Nat
      BY <2>1, TenPositive
    <3> QED
      BY <3>1, <3>2
  <2>3. n < t
    BY <2>1, <2>2, SMT
  <2> QED
    BY <2>2, <2>3
<1>2. PICK L : Holds(IntToStr(Blank, n), L, n)
  BY <1>1, IntToStrHolds
<1> QED
  BY <1>2, StrToIntIs, ClearedIsBlank, TextIs

-----------------------------------------------------------------------------
(* The file *)

Lines == [num : Seq(0 .. Nul), id : Seq(0 .. Nul)]

IdTypes ==
  /\ pc \in {"index", "id", "gets", "done"}
  /\ ids \in [Slots -> Pair] /\ regs \in [Slots -> Pair]
  /\ line \in Slots /\ str = Blank /\ file \in Seq(Lines)

(* A line that will be read as the id of slot i. *)
IsLineOf(l, i) == StrToInt(l.num) = i /\ StrToInt(l.id) = Value(ids[i])

(* While the file is written it has the lines of the first slots, the last  *)
(* perhaps without its id; while it is read it has those of the last slots, *)
(* and the ids of the others are back.                                      *)
FileInv ==
  /\ pc = "index" => /\ Len(file) = line
                     /\ \A i \in 1 .. Len(file) : IsLineOf(file[i], i - 1)
  /\ pc = "id" => /\ Len(file) = line + 1 /\ StrToInt(file[line + 1].num) = line
                  /\ \A i \in 1 .. line : IsLineOf(file[i], i - 1)
  /\ pc = "gets" => /\ Len(file) <= N
                    /\ \A i \in 1 .. Len(file) : IsLineOf(file[i], N - Len(file) + i - 1)
                    /\ \A i \in Slots : i < N - Len(file) => regs[i] = ids[i]
  /\ pc = "done" => regs = ids

LEMMA Sizes == N \in Nat \ {0} /\ Half \in Nat \ {0, 1} /\ Half * Half \in Nat /\ N <= Half * Half
<1>1. N \in Nat \ {0} /\ Half \in Nat \ {0, 1} /\ N <= Half * Half
  BY IdFileAssumption
<1>2. Half * Half \in Nat
  BY <1>1, SMT
<1> QED
  BY <1>1, <1>2

(* An id is a uint32_t, and its two registers can be told from it. *)
LEMMA ValueOfPair ==
  ASSUME NEW p \in Pair
  PROVE  /\ Value(p) \in Nat /\ Value(p) < Half * Half
         /\ Value(p) % Half = p.lo /\ Value(p) \div Half = p.hi
         /\ p = [lo |-> p.lo, hi |-> p.hi]
<1>1. PICK h \in Nat \ {0} : h = Half
  BY Sizes
<1>2. PICK lo \in Nat, hi \in Nat : lo = p.lo /\ hi = p.hi /\ lo < h /\ hi < h
  <2>1. p.lo \in 0 .. (h - 1) /\ p.hi \in 0 .. (h - 1)
    BY <1>1 DEF Pair
  <2>2. p.lo \in Nat /\ p.hi \in Nat /\ p.lo < h /\ p.hi < h
    BY <2>1, SMT
  <2> QED
    BY <2>2
<1>3. PICK v \in Nat : v = h * hi + lo /\ v = Value(p)
  <2>1. h * hi + lo \in Nat /\ h * hi + lo = lo + h * hi
    BY SMT
  <2> QED
    BY <1>1, <1>2, <2>1 DEF Value
<1>4. v \div h = hi /\ v % h = lo
  BY <1>2, <1>3, DivisionIs
<1>5. v < h * h
  <2>1. h * hi + h <= h * h /\ h * hi \in Nat /\ h * h \in Nat
    BY <1>2, TimesKeepsOrder
  <2> DEFINE x == h * hi
             y == h * h
  <2>2. x \in Nat /\ y \in Nat /\ x + h <= y /\ v = x + lo
    BY <1>3, <2>1
  <2> HIDE DEF x, y
  <2>3. v < y
    BY <1>2, <2>2, SMT
  <2> QED
    BY <2>3 DEF y
<1>6. p = [lo |-> p.lo, hi |-> p.hi]
  BY DEF Pair
<1> QED
  BY <1>1, <1>2, <1>3, <1>4, <1>5, <1>6, Zenon

LEMMA InitFile == Init => IdTypes /\ FileInv
<1> SUFFICES ASSUME Init PROVE IdTypes /\ FileInv
  OBVIOUS
<1>1. [lo : Words, hi : Words] \subseteq Pair
  BY IdFileAssumption DEF Pair
<1>2. ids \in [Slots -> Pair]
  BY <1>1 DEF Init
<1>3. 0 \in Slots /\ 0 \in 0 .. (Half - 1)
  BY Sizes, SMT DEF Slots
<1>4. regs \in [Slots -> Pair]
  BY <1>3 DEF Init, Pair
<1>5. file = <<>> /\ file \in Seq(Lines) /\ Len(file) = 0 /\ ~ \E i : i \in 1 .. 0
  BY SMT DEF Init
<1> QED
  BY <1>2, <1>3, <1>4, <1>5, Zenon DEF Init, IdTypes, FileInv

LEMMA PutIndexKeeps == IdTypes /\ FileInv /\ PutIndex => IdTypes' /\ FileInv'
<1> SUFFICES ASSUME IdTypes, FileInv, PutIndex PROVE IdTypes' /\ FileInv'
  OBVIOUS
<1>1. PICK n \in Nat : n = line /\ n < Half * Half
  <2>1. line \in 0 .. (N - 1)
    BY DEF IdTypes, Slots
  <2>2. PICK h \in Nat : h = Half * Half /\ N <= h
    BY Sizes
  <2>3. line \in Nat /\ line < h
    BY <2>1, <2>2, Sizes, SMT
  <2> QED
    BY <2>2, <2>3
<1> DEFINE text == Text(IntToStr(Blank, n))
           new == [num |-> text, id |-> <<>>]
<1>2. StrToInt(text) = n /\ text \in Seq(0 .. Nul) /\ Cleared(IntToStr(Blank, n)) = Blank
  BY <1>1, ThereAndBack
<1>3. file' = Append(file, new) /\ str' = Blank /\ pc' = "id"
  BY <1>1, <1>2, Zenon DEF PutIndex, IdTypes
<1> HIDE DEF text
<1>4. new \in Lines
  <2>1. \A S : <<>> \in Seq(S)
    BY SMT
  <2> QED
    BY <1>2, <2>1, Zenon DEF Lines
<1>5. new.num = text
  BY Zenon
<1> HIDE DEF new
<1>6. file \in Seq(Lines) /\ Len(file) = n /\ \A i \in 1 .. n : IsLineOf(file[i], i - 1)
  BY <1>1, Zenon DEF IdTypes, FileInv, PutIndex
<1>7. /\ file' \in Seq(Lines) /\ Len(file') = n + 1 /\ file'[n + 1] = new
      /\ \A i \in 1 .. n : file'[i] = file[i]
  BY <1>3, <1>4, <1>6, AppendProperties
<1>8. UNCHANGED <<ids, regs, line>>
  BY DEF PutIndex
<1>9. IdTypes'
  BY <1>3, <1>7, <1>8, Zenon DEF IdTypes
<1>10. \A i \in 1 .. n : IsLineOf(file[i], i - 1)'
  BY <1>6, <1>7, <1>8, Zenon DEF IsLineOf
<1>11. FileInv'
  BY <1>1, <1>2, <1>3, <1>5, <1>7, <1>8, <1>10, Zenon DEF FileInv
<1> QED
  BY <1>9, <1>11

LEMMA PutIdKeeps == IdTypes /\ FileInv /\ PutId => IdTypes' /\ FileInv'
<1> SUFFICES ASSUME IdTypes, FileInv, PutId PROVE IdTypes' /\ FileInv'
  OBVIOUS
<1>1. PICK k \in Nat : k = line /\ k < N /\ k \in Slots
  <2>1. line \in Slots
    BY DEF IdTypes
  <2>2. line \in Nat /\ line < N
    BY <2>1, Sizes, SMT DEF Slots
  <2> QED
    BY <2>1, <2>2
<1>2. PICK n \in Nat : n = Value(ids[k]) /\ n < Half * Half
  <2>1. ids[k] \in Pair
    BY <1>1 DEF IdTypes
  <2> QED
    BY <2>1, ValueOfPair
<1> DEFINE text == Text(IntToStr(Blank, n))
<1>3. StrToInt(text) = n /\ text \in Seq(0 .. Nul) /\ Cleared(IntToStr(Blank, n)) = Blank
  BY <1>2, ThereAndBack
<1>4. file' = [file EXCEPT ![Len(file)].id = text] /\ str' = Blank
  BY <1>1, <1>2, <1>3, Zenon DEF PutId, IdTypes
<1> HIDE DEF text
<1>5. /\ file \in Seq(Lines) /\ Len(file) = k + 1 /\ StrToInt(file[k + 1].num) = k
      /\ \A i \in 1 .. k : IsLineOf(file[i], i - 1)
  BY <1>1, Zenon DEF IdTypes, FileInv, PutId
<1>6. file[k + 1] \in Lines
  BY <1>5, SMT
<1> DEFINE new == [file[k + 1] EXCEPT !.id = text]
<1>7. new \in Lines /\ new.num = file[k + 1].num /\ new.id = text
  BY <1>3, <1>6, Zenon DEF Lines
<1>8. file' = [file EXCEPT ![k + 1] = new]
  BY <1>4, <1>5, Zenon
<1> HIDE DEF new
<1>9. /\ file' \in Seq(Lines) /\ Len(file') = k + 1 /\ file'[k + 1] = new
      /\ \A i \in 1 .. k : file'[i] = file[i]
  BY <1>5, <1>7, <1>8, SMT
<1>10. ids' = ids /\ regs' = regs
  BY DEF PutId
<1>11. \A i \in 1 .. (k + 1) : IsLineOf(file[i], i - 1)'
  <2> TAKE i \in 1 .. (k + 1)
  <2>1. (i # k + 1 => i \in 1 .. k) /\ (k + 1) - 1 = k
    BY SMT
  <2>2. CASE i = k + 1
    BY <1>2, <1>3, <1>5, <1>7, <1>9, <1>10, <2>1, <2>2, Zenon DEF IsLineOf
  <2>3. CASE i # k + 1
    BY <1>5, <1>9, <1>10, <2>1, <2>3, Zenon DEF IsLineOf
  <2> QED
    BY <2>2, <2>3
<1>12. CASE k + 1 < N
  <2>1. pc' = "index" /\ line' = k + 1
    BY <1>1, <1>12 DEF PutId
  <2>2. line' \in Slots
    BY <1>12, <2>1, Sizes, SMT DEF Slots
  <2>3. IdTypes'
    BY <1>4, <1>9, <1>10, <2>1, <2>2, Zenon DEF IdTypes
  <2>4. FileInv'
    BY <1>9, <1>11, <2>1, Zenon DEF FileInv
  <2> QED
    BY <2>3, <2>4
<1>13. CASE ~ (k + 1 < N)
  <2>1. pc' = "gets" /\ line' = line
    BY <1>1, <1>13 DEF PutId
  <2>2. k + 1 = N
    BY <1>1, <1>13, Sizes, SMT
  <2>3. IdTypes'
    BY <1>4, <1>9, <1>10, <2>1, Zenon DEF IdTypes
  <2>4. /\ Len(file') <= N /\ \A i \in Slots : ~ (i < N - Len(file'))
        /\ \A i \in 1 .. (k + 1) : N - Len(file') + i - 1 = i - 1
    BY <1>9, <2>2, SMT DEF Slots
  <2>5. FileInv'
    BY <1>9, <1>11, <2>1, <2>4, Zenon DEF FileInv, Slots
  <2> QED
    BY <2>3, <2>5
<1> QED
  BY <1>12, <1>13

LEMMA GetLineKeeps == IdTypes /\ FileInv /\ GetLine => IdTypes' /\ FileInv'
<1> SUFFICES ASSUME IdTypes, FileInv, GetLine PROVE IdTypes' /\ FileInv'
  OBVIOUS
<1>1. /\ pc = "gets" /\ file # <<>> /\ file \in Seq(Lines) /\ file' = Tail(file)
      /\ UNCHANGED <<pc, ids, line, str>>
      /\ ids \in [Slots -> Pair] /\ regs \in [Slots -> Pair]
  BY DEF GetLine, IdTypes
<1>2. PICK m \in Nat : m = Len(file) /\ m # 0
  BY <1>1, SMT
<1>3. /\ m <= N
      /\ \A i \in 1 .. m : IsLineOf(file[i], N - m + i - 1)
      /\ \A i \in Slots : i < N - m => regs[i] = ids[i]
  BY <1>1, <1>2, Zenon DEF FileInv
<1>4. PICK k \in Nat : k = N - m /\ k < N /\ k \in Slots
  <2>1. N - m \in Nat /\ N - m < N /\ N - m \in 0 .. (N - 1)
    BY <1>2, <1>3, Sizes, SMT
  <2> QED
    BY <2>1 DEF Slots
<1>5. 1 \in 1 .. m /\ N - m + 1 - 1 = k
  BY <1>2, <1>4, Sizes, SMT
<1>6. Head(file) = file[1]
  BY <1>1, SMT
<1>7. StrToInt(Head(file).num) = k /\ StrToInt(Head(file).id) = Value(ids[k])
  BY <1>3, <1>5, <1>6, Zenon DEF IsLineOf
<1>8. k % N = k
  BY <1>4, Sizes, SmallDivision
<1>9. regs' = [regs EXCEPT ![k] = [lo |-> Value(ids[k]) % Half, hi |-> Value(ids[k]) \div Half]]
  BY <1>7, <1>8, Zenon DEF GetLine
<1>10. ids[k] \in Pair
  BY <1>1, <1>4
<1>11. [lo |-> Value(ids[k]) % Half, hi |-> Value(ids[k]) \div Half] = ids[k]
  BY <1>10, ValueOfPair, Zenon
<1>12. regs' = [regs EXCEPT ![k] = ids[k]]
  BY <1>9, <1>11, Zenon
<1>13. regs' \in [Slots -> Pair] /\ \A i \in Slots : regs'[i] = IF i = k THEN ids[k] ELSE regs[i]
  BY <1>1, <1>10, <1>12, Zenon
<1>14. /\ file' \in Seq(Lines) /\ Len(file') = m - 1
       /\ \A i \in 1 .. (m - 1) : file'[i] = file[i + 1]
  <2>1. /\ Tail(file) \in Seq(Lines) /\ Len(Tail(file)) = Len(file) - 1
        /\ \A i \in 1 .. Len(Tail(file)) : Tail(file)[i] = file[i + 1]
    BY <1>1, HeadTailProperties
  <2> QED
    BY <1>1, <1>2, <2>1, Zenon
<1>15. IdTypes'
  BY <1>1, <1>13, <1>14, Zenon DEF IdTypes, GetLine
<1>16. Len(file') <= N
  BY <1>2, <1>3, <1>14, Sizes, SMT
<1>17. ASSUME NEW i \in 1 .. Len(file')
       PROVE  IsLineOf(file[i], N - Len(file) + i - 1)'
  <2>1. /\ i \in 1 .. (m - 1) /\ i + 1 \in 1 .. m
        /\ N - m + (i + 1) - 1 = N - Len(file') + i - 1
    BY <1>2, <1>14, Sizes, SMT
  <2>2. file'[i] = file[i + 1]
    BY <1>14, <2>1, Zenon
  <2>3. IsLineOf(file[i + 1], N - Len(file') + i - 1)
    BY <1>3, <2>1, Zenon
  <2> QED
    BY <1>1, <2>2, <2>3, Zenon DEF IsLineOf
<1>18. ASSUME NEW i \in Slots, i < N - Len(file')
       PROVE  regs'[i] = ids[i]
  <2>1. i \in Nat /\ N - Len(file') = k + 1
    BY <1>2, <1>4, <1>14, Sizes, SMT DEF Slots
  <2>2. i # k => i < k
    BY <1>18, <2>1, SMT
  <2> QED
    BY <1>3, <1>4, <1>13, <2>2, Zenon
<1>19. FileInv'
  BY <1>1, <1>16, <1>17, <1>18, Zenon DEF FileInv, Slots
<1> QED
  BY <1>15, <1>19

LEMMA EndOfFileKeeps == IdTypes /\ FileInv /\ EndOfFile => IdTypes' /\ FileInv'
<1> SUFFICES ASSUME IdTypes, FileInv, EndOfFile PROVE IdTypes' /\ FileInv'
  OBVIOUS
<1>1. /\ pc = "gets" /\ pc' = "done" /\ Len(file) = 0
      /\ UNCHANGED <<ids, regs, line, str, file>>
  BY DEF EndOfFile
<1>2. \A i \in Slots : i < N - 0
  BY Sizes, SMT DEF Slots
<1>3. \A i \in Slots : regs[i] = ids[i]
  BY <1>1, <1>2, Zenon DEF FileInv
<1>4. regs = ids
  <2>1. regs = [i \in Slots |-> regs[i]] /\ ids = [i \in Slots |-> ids[i]]
    BY Zenon DEF IdTypes
  <2> QED
    BY <1>3, <2>1, Zenon
<1>5. IdTypes'
  BY <1>1, Zenon DEF IdTypes
<1>6. FileInv'
  BY <1>1, <1>4, Zenon DEF FileInv
<1> QED
  BY <1>5, <1>6

(* Every id survives SaveDeviceIdFile and ReadDeviceIdFile in its own slot, *)
(* for any number of ids, whatever their values and whatever number was in  *)
(* the string buffer before.                                                *)
THEOREM IdsSurviveTheirText == Spec => []RestoresIds
<1>1. Init => IdTypes /\ FileInv
  BY InitFile
<1>2. IdTypes /\ FileInv /\ [Next]_vars => IdTypes' /\ FileInv'
  <2> SUFFICES ASSUME IdTypes, FileInv, [Next]_vars PROVE IdTypes' /\ FileInv'
    OBVIOUS
  <2>1. CASE UNCHANGED vars
    BY <2>1, Zenon DEF vars, IdTypes, FileInv, IsLineOf
  <2>2. CASE Next
    BY <2>1, <2>2, PutIndexKeeps, PutIdKeeps, GetLineKeeps, EndOfFileKeeps DEF Next, Done
  <2> QED
    BY <2>1, <2>2
<1>3. FileInv => RestoresIds
  BY DEF FileInv, RestoresIds
<1> QED
  BY <1>1, <1>2, <1>3, PTL DEF Spec
=============================================================================
