---------------------------- MODULE HostViewProofs ----------------------------
(***************************************************************************)
(* From the sensor to the host: what holds for every set of slots, ids,    *)
(* measurements and requests and for any number of frames.                 *)
(***************************************************************************)
EXTENDS HostView, FunctionCodesProofs, FrameProofs

LEMMA WordsAreUShorts == Words = UShort
BY DEF Words, UShort

-----------------------------------------------------------------------------
(* The layout of the registers *)

LEMMA SlotNumber ==
  ASSUME NEW i \in Slots
  PROVE  i \in Nat /\ i <= 255
<1>1. i \in 0 .. 255
  BY HostViewAssumption
<1> QED
  BY <1>1, SMT

(* The seven registers of a record. *)
LEMMA RecordIs ==
  ASSUME NEW i
  PROVE  /\ Record(i)[1] = TemperatureAddr(i) /\ Record(i)[2] = VoltageAddr(i)
         /\ Record(i)[3] = StatusAddr(i) /\ Record(i)[4] = LaunchAddr(i)
         /\ Record(i)[5] = LaunchAddr(i) + 1 /\ Record(i)[6] = MomentAddr(i)
         /\ Record(i)[7] = MomentAddr(i) + 1
BY DEF Record

LEMMA OneOfSeven ==
  ASSUME NEW k \in 1 .. 7
  PROVE  k = 1 \/ k = 2 \/ k = 3 \/ k = 4 \/ k = 5 \/ k = 6 \/ k = 7
BY SMT

LEMMA AddressesKept ==
  ASSUME NEW i \in Slots
  PROVE  /\ \A k \in 1 .. 7 : Record(i)[k] \in Stored
         /\ IdAddr(i) \in Stored /\ IdAddr(i) + 1 \in Stored
<1>1. RecordAddrs(i) \cup {IdAddr(i), IdAddr(i) + 1} \subseteq Stored
  BY LayoutAssumption, Zenon DEF Layout
<1>2. \A k \in 1 .. 7 : Record(i)[k] \in RecordAddrs(i)
  BY Zenon DEF RecordAddrs
<1> QED
  BY <1>1, <1>2, Zenon

(* No two registers of any slots are the same. *)
LEMMA IdsApart ==
  ASSUME NEW i \in Slots, NEW j \in Slots
  PROVE  /\ \A k \in 1 .. 7 : Record(i)[k] # IdAddr(j) /\ Record(i)[k] # IdAddr(j) + 1
         /\ IdAddr(i) = IdAddr(j) => i = j
         /\ IdAddr(i) # IdAddr(j) + 1
         /\ IdAddr(i) + 1 = IdAddr(j) + 1 => i = j
<1>1. i \in Nat /\ i <= 255 /\ j \in Nat /\ j <= 255
  BY SlotNumber
<1>2. ASSUME NEW k \in 1 .. 7
      PROVE  Record(i)[k] # IdAddr(j) /\ Record(i)[k] # IdAddr(j) + 1
  <2>1. /\ TemperatureAddr(i) # IdAddr(j) /\ VoltageAddr(i) # IdAddr(j)
        /\ StatusAddr(i) # IdAddr(j) /\ LaunchAddr(i) # IdAddr(j)
        /\ LaunchAddr(i) + 1 # IdAddr(j) /\ MomentAddr(i) # IdAddr(j)
        /\ MomentAddr(i) + 1 # IdAddr(j)
    BY <1>1, SMT DEF TemperatureAddr, VoltageAddr, LaunchAddr, StatusAddr, IdAddr, MomentAddr
  <2>2. /\ TemperatureAddr(i) # IdAddr(j) + 1 /\ VoltageAddr(i) # IdAddr(j) + 1
        /\ StatusAddr(i) # IdAddr(j) + 1 /\ LaunchAddr(i) # IdAddr(j) + 1
        /\ LaunchAddr(i) + 1 # IdAddr(j) + 1 /\ MomentAddr(i) # IdAddr(j) + 1
        /\ MomentAddr(i) + 1 # IdAddr(j) + 1
    BY <1>1, SMT DEF TemperatureAddr, VoltageAddr, LaunchAddr, StatusAddr, IdAddr, MomentAddr
  <2> QED
    BY <2>1, <2>2, OneOfSeven, RecordIs, Zenon
<1> QED
  BY <1>1, <1>2, SMT DEF IdAddr

LEMMA RecordsApart ==
  ASSUME NEW i \in Slots, NEW j \in Slots, NEW k \in 1 .. 7, NEW m \in 1 .. 7,
         Record(i)[k] = Record(j)[m]
  PROVE  i = j /\ k = m
<1>1. i \in Nat /\ i <= 255 /\ j \in Nat /\ j <= 255
  BY SlotNumber
<1> DEFINE Addr(n, q) ==
      IF q = 1 THEN 8 + n ELSE IF q = 2 THEN 264 + n ELSE IF q = 3 THEN 1034 + 3 * n
      ELSE IF q = 4 THEN 520 + 2 * n ELSE IF q = 5 THEN 521 + 2 * n
      ELSE IF q = 6 THEN 2568 + 2 * n ELSE 2569 + 2 * n
<1>2. ASSUME NEW n \in Nat, NEW q \in 1 .. 7
      PROVE  Record(n)[q] = Addr(n, q)
  <2>1. /\ TemperatureAddr(n) = 8 + n /\ VoltageAddr(n) = 264 + n
        /\ StatusAddr(n) = 1034 + 3 * n /\ LaunchAddr(n) = 520 + 2 * n
        /\ LaunchAddr(n) + 1 = 521 + 2 * n /\ MomentAddr(n) = 2568 + 2 * n
        /\ MomentAddr(n) + 1 = 2569 + 2 * n
    BY SMT DEF TemperatureAddr, VoltageAddr, LaunchAddr, StatusAddr, MomentAddr
  <2> QED
    BY <2>1, OneOfSeven, RecordIs, SMT
<1>3. Addr(i, k) = Addr(j, m)
  <2> HIDE DEF Addr
  <2> QED
    BY <1>1, <1>2, Zenon
<1> QED
  BY <1>1, <1>3, SMT

-----------------------------------------------------------------------------
(* The frames *)

Ids     == [hi : Words, lo : Words]
Samples == [t : 0 .. AdcMax, v : 0 .. AdcMax, rssi : Bytes, lqi : Bytes]

(* The bytes of a frame. *)
LEMMA FrameBytes ==
  ASSUME NEW id \in Ids, NEW s \in Samples
  PROVE  LET f == FrameOf(id, s)
             sum == 90 + (id.hi \div 256) + (id.hi % 256) + (id.lo \div 256) + (id.lo % 256)
                      + (s.t \div 256) + (s.t % 256) + (s.v \div 256) + (s.v % 256) IN
         /\ f[1] = 90 /\ f[2] = 0 /\ f[3] = id.hi \div 256 /\ f[4] = id.hi % 256
         /\ f[5] = id.lo \div 256 /\ f[6] = id.lo % 256 /\ f[7] = s.t \div 256
         /\ f[8] = s.t % 256 /\ f[9] = s.v \div 256 /\ f[10] = s.v % 256
         /\ f[11] = sum \div 256 /\ f[12] = sum % 256
         /\ DOMAIN f = 1 .. 12
<1>1. ASSUME NEW b1, NEW b2, NEW b3, NEW b4, NEW b5, NEW b6, NEW b7, NEW b8, NEW b9,
             NEW b10, NEW b11, NEW b12, NEW f,
             f = <<b1, b2, b3, b4, b5, b6, b7, b8, b9, b10>> \o <<b11, b12>>
      PROVE  /\ f[1] = b1 /\ f[2] = b2 /\ f[3] = b3 /\ f[4] = b4 /\ f[5] = b5 /\ f[6] = b6
             /\ f[7] = b7 /\ f[8] = b8 /\ f[9] = b9 /\ f[10] = b10 /\ f[11] = b11
             /\ f[12] = b12 /\ DOMAIN f = 1 .. 12
  BY <1>1, SMT
<1> DEFINE f == FrameOf(id, s)
           sum == 90 + (id.hi \div 256) + (id.hi % 256) + (id.lo \div 256) + (id.lo % 256)
                    + (s.t \div 256) + (s.t % 256) + (s.v \div 256) + (s.v % 256)
<1>2. f = <<90, 0, id.hi \div 256, id.hi % 256, id.lo \div 256, id.lo % 256,
            s.t \div 256, s.t % 256, s.v \div 256, s.v % 256>>
          \o <<sum \div 256, sum % 256>>
  BY DEF FrameOf
<1> HIDE DEF f, sum
<1>3. /\ f[1] = 90 /\ f[2] = 0 /\ f[3] = id.hi \div 256 /\ f[4] = id.hi % 256
      /\ f[5] = id.lo \div 256 /\ f[6] = id.lo % 256 /\ f[7] = s.t \div 256
      /\ f[8] = s.t % 256 /\ f[9] = s.v \div 256 /\ f[10] = s.v % 256
      /\ f[11] = sum \div 256 /\ f[12] = sum % 256
      /\ DOMAIN f = 1 .. 12
  BY <1>1, <1>2
<1> QED
  BY <1>3 DEF f, sum

LEMMA SampleTypes ==
  ASSUME NEW s \in Samples
  PROVE  /\ s.t \in Nat /\ s.t <= 1023 /\ s.v \in Nat /\ s.v <= 1023
         /\ s.rssi \in 0 .. 255 /\ s.lqi \in 0 .. 255
BY SMTT(30) DEF Samples, AdcMax, Bytes

LEMMA IdTypes ==
  ASSUME NEW id \in Ids
  PROVE  id.hi \in Words /\ id.lo \in Words
BY DEF Ids

(* A frame carries the id and the measurements. *)
LEMMA FrameCarries ==
  ASSUME NEW id \in Ids, NEW s \in Samples
  PROVE  /\ CalculateDeviceId(FrameOf(id, s)) = id
         /\ TemperatureRaw(FrameOf(id, s)) = s.t /\ VoltageRaw(FrameOf(id, s)) = s.v
<1>1. /\ 256 * (id.hi \div 256) + (id.hi % 256) = id.hi
      /\ 256 * (id.lo \div 256) + (id.lo % 256) = id.lo
  <2>1. id.hi \in UShort /\ id.lo \in UShort
    BY IdTypes, WordsAreUShorts, Zenon
  <2> QED
    BY <2>1, WordBytes
<1>2. /\ 256 * (s.t \div 256) + (s.t % 256) = s.t
      /\ 256 * (s.v \div 256) + (s.v % 256) = s.v
  <2>1. ASSUME NEW n \in Nat PROVE 256 * (n \div 256) + (n % 256) = n
    BY SMT
  <2> QED
    BY <2>1, SampleTypes
<1> DEFINE f == FrameOf(id, s)
<1>3. /\ f[3] = id.hi \div 256 /\ f[4] = id.hi % 256 /\ f[5] = id.lo \div 256
      /\ f[6] = id.lo % 256 /\ f[7] = s.t \div 256 /\ f[8] = s.t % 256
      /\ f[9] = s.v \div 256 /\ f[10] = s.v % 256
  BY FrameBytes
<1> HIDE DEF f
<1>4. /\ Word(f[3], f[4]) = id.hi /\ Word(f[5], f[6]) = id.lo
      /\ Word(f[7], f[8]) = s.t /\ Word(f[9], f[10]) = s.v
  BY <1>1, <1>2, <1>3 DEF Word
<1>5. id = [hi |-> id.hi, lo |-> id.lo]
  BY DEF Ids
<1>6. CalculateDeviceId(f) = id /\ TemperatureRaw(f) = s.t /\ VoltageRaw(f) = s.v
  BY <1>4, <1>5, Zenon DEF CalculateDeviceId, TemperatureRaw, VoltageRaw
<1> QED
  BY <1>6 DEF f

(* A damaged frame is refused: a wrong head at once, a wrong byte by the    *)
(* sum.                                                                     *)
LEMMA DamageIsSeen ==
  ASSUME NEW id \in Ids, NEW s \in Samples, NEW how \in Damages,
         DataFrameAnalysis(Damaged(FrameOf(id, s), how)) = 0
  PROVE  how = "none" /\ Damaged(FrameOf(id, s), how) = FrameOf(id, s)
<1> DEFINE f == FrameOf(id, s)
           g == Damaged(f, how)
           sum == 90 + (id.hi \div 256) + (id.hi % 256) + (id.lo \div 256) + (id.lo % 256)
                    + (s.t \div 256) + (s.t % 256) + (s.v \div 256) + (s.v % 256)
<1>1. how \in {"none", "head", "byte"}
  BY HostViewAssumption
<1>2. DOMAIN f = 1 .. 12
  BY FrameBytes
<1>3. how # "head"
  <2>1. SUFFICES ASSUME how = "head" PROVE FALSE
    OBVIOUS
  <2>2. g = [f EXCEPT ![1] = 91]
    BY <2>1 DEF Damaged
  <2>3. g[1] = 91
    <3> HIDE DEF f, g
    <3> QED
      BY <1>2, <2>2, SMT
  <2>4. DataFrameAnalysis(g) = 2
    <3> HIDE DEF g
    <3> QED
      BY <2>3, SMT DEF DataFrameAnalysis
  <2> QED
    BY <2>4, SMT
<1>4. how # "byte"
  <2>1. SUFFICES ASSUME how = "byte" PROVE FALSE
    OBVIOUS
  <2>2. g = [f EXCEPT ![10] = (f[10] + 1) % 256]
    BY <2>1, Zenon DEF Damaged
  <2>3. PICK h1 \in 0 .. 255 : h1 = id.hi \div 256
    BY IdTypes, WordsAreUShorts, WordBytes, ZenonT(60)
  <2>4. PICK h2 \in 0 .. 255 : h2 = id.hi % 256
    BY IdTypes, WordsAreUShorts, WordBytes, ZenonT(60)
  <2>5. PICK l1 \in 0 .. 255 : l1 = id.lo \div 256
    BY IdTypes, WordsAreUShorts, WordBytes, ZenonT(60)
  <2>6. PICK l2 \in 0 .. 255 : l2 = id.lo % 256
    BY IdTypes, WordsAreUShorts, WordBytes, ZenonT(60)
  <2>7. ASSUME NEW n \in Nat, n <= 1023
        PROVE  n \div 256 \in 0 .. 255 /\ n % 256 \in 0 .. 255
    BY <2>7, SMT
  <2>8. s.t <= 1023
    BY SampleTypes, SMT
  <2>9. PICK t1 \in 0 .. 255 : t1 = s.t \div 256
    BY <2>7, <2>8, SampleTypes
  <2>10. PICK t2 \in 0 .. 255 : t2 = s.t % 256
    BY <2>7, <2>8, SampleTypes
  <2>11. PICK v1 \in 0 .. 255 : v1 = s.v \div 256
    BY <2>7, SampleTypes
  <2>12. PICK v2 \in 0 .. 255 : v2 = s.v % 256
    BY <2>7, SampleTypes, SMTT(30)
  <2>13. PICK x \in 0 .. 255 : x = (v2 + 1) % 256 /\ x # v2
    BY SMT
  <2>14. PICK n \in Nat : n = 90 + h1 + h2 + l1 + l2 + t1 + t2 + v1 + v2
    BY SMT
  <2>15. /\ f[1] = 90 /\ f[2] = 0 /\ f[3] = h1 /\ f[4] = h2 /\ f[5] = l1 /\ f[6] = l2
         /\ f[7] = t1 /\ f[8] = t2 /\ f[9] = v1 /\ f[10] = v2
         /\ f[11] = sum \div 256 /\ f[12] = sum % 256
    <3>1. /\ f[1] = 90 /\ f[2] = 0 /\ f[3] = id.hi \div 256 /\ f[4] = id.hi % 256
          /\ f[5] = id.lo \div 256 /\ f[6] = id.lo % 256 /\ f[7] = s.t \div 256
          /\ f[8] = s.t % 256 /\ f[9] = s.v \div 256 /\ f[10] = s.v % 256
          /\ f[11] = sum \div 256 /\ f[12] = sum % 256
      BY FrameBytes
    <3> HIDE DEF f, sum
    <3> QED
      BY <2>3, <2>4, <2>5, <2>6, <2>9, <2>10, <2>11, <2>12, <3>1
  <2>16. sum = n
    <3> DEFINE Add(a, b, c, d, e, k, p, q) == 90 + a + b + c + d + e + k + p + q
               H1 == id.hi \div 256
               H2 == id.hi % 256
               L1 == id.lo \div 256
               L2 == id.lo % 256
               T1 == s.t \div 256
               T2 == s.t % 256
               V1 == s.v \div 256
               V2 == s.v % 256
    <3>1. n = Add(h1, h2, l1, l2, t1, t2, v1, v2)
      BY <2>14
    <3>2. sum = Add(H1, H2, L1, L2, T1, T2, V1, V2)
      OBVIOUS
    <3>3. h1 = H1 /\ h2 = H2 /\ l1 = L1 /\ l2 = L2 /\ t1 = T1 /\ t2 = T2 /\ v1 = V1 /\ v2 = V2
      BY <2>3, <2>4, <2>5, <2>6, <2>9, <2>10, <2>11, <2>12
    <3> HIDE DEF f, g, sum, Add, H1, H2, L1, L2, T1, T2, V1, V2
    <3> QED
      BY <3>1, <3>2, <3>3, Zenon
  <2> HIDE DEF f, g, sum
  <2>17. /\ g[1] = 90 /\ g[2] = 0 /\ g[3] = h1 /\ g[4] = h2 /\ g[5] = l1 /\ g[6] = l2
         /\ g[7] = t1 /\ g[8] = t2 /\ g[9] = v1 /\ g[10] = x
         /\ g[11] = n \div 256 /\ g[12] = n % 256
    BY <1>2, <2>2, <2>13, <2>15, <2>16
  <2>18. Sum(g) = g[1] + g[2] + g[3] + g[4] + g[5] + g[6] + g[7] + g[8] + g[9] + g[10]
    <3>1. \A m \in 1 .. 10 : g[m] \in 0 .. 255
      BY <2>17, SMTT(30)
    <3> QED
      BY <3>1, SumIs
  <2>19. PICK m \in Nat : m = 90 + h1 + h2 + l1 + l2 + t1 + t2 + v1 + x
    BY SMT
  <2>20. Sum(g) = m
    BY <2>17, <2>18, <2>19, SMT
  <2>21. n \div 256 = m \div 256 /\ n % 256 = m % 256
    <3>1. DataFrameAnalysis(g) = 0
      BY DEF f, g
    <3>2. g[11] = Sum(g) \div 256 /\ g[12] = Sum(g) % 256
      BY <2>17, <3>1, SMT DEF DataFrameAnalysis, CheckSum
    <3> QED
      BY <2>17, <2>20, <3>2, SMT
  <2>22. n = m
    BY <2>21, SMT
  <2> QED
    BY <2>13, <2>14, <2>19, <2>22, SMT
<1>5. how = "none"
  BY <1>1, <1>3, <1>4
<1> QED
  BY <1>5 DEF Damaged

-----------------------------------------------------------------------------
(* What a frame leaves in the registers *)

LEMMA TemperatureRight ==
  ASSUME NEW raw \in Nat, raw <= 1023
  PROVE  TemperatureFormat(raw) \in UShort /\ TemperatureShown(TemperatureFormat(raw), raw)
<1>1. PICK w \in Nat :
        /\ TemperatureFormat(raw) = w /\ w <= 5000
        /\ w < 2000 <=> AtLeastTenths(raw, 0)
        /\ w < 2000 => AtLeastTenths(raw, w) /\ ~ AtLeastTenths(raw, w + 1)
        /\ w >= 2000 => /\ AtLeastTenths(raw, 2000 - w - 10)
                        /\ ~ AtLeastTenths(raw, 2000 - w + 1)
  BY TemperatureFormatIs
<1>2. w <= 65535
  BY <1>1, SMT
<1>4. HostBelowZero(w) <=> w >= 2000
  BY DEF HostBelowZero
<1>5. w >= 2000 => HostTenths(w) = 2000 - w
  BY <1>1, SMT DEF HostTenths
<1>6. w >= 2000 <=> ~ (w < 2000)
  BY <1>1, SMT
<1>7. /\ HostBelowZero(w) <=> ~ AtLeastTenths(raw, 0)
      /\ ~ HostBelowZero(w) => AtLeastTenths(raw, w) /\ ~ AtLeastTenths(raw, w + 1)
      /\ HostBelowZero(w) => /\ AtLeastTenths(raw, HostTenths(w) - 10)
                             /\ ~ AtLeastTenths(raw, HostTenths(w) + 1)
  <2> DEFINE Low == w < 2000
  <2>1. /\ HostBelowZero(w) <=> ~ Low
        /\ ~ Low => HostTenths(w) = 2000 - w
        /\ Low <=> AtLeastTenths(raw, 0)
        /\ Low => AtLeastTenths(raw, w) /\ ~ AtLeastTenths(raw, w + 1)
        /\ ~ Low => AtLeastTenths(raw, 2000 - w - 10) /\ ~ AtLeastTenths(raw, 2000 - w + 1)
    BY <1>1, <1>4, <1>5, <1>6, SMT
  <2> HIDE DEF Low
  <2> QED
    BY <2>1, SMT
<1>8. TemperatureShown(w, raw)
  BY <1>7 DEF TemperatureShown
<1>9. w \in UShort
  BY <1>2, IsUShort
<1> QED
  BY <1>1, <1>8, <1>9

LEMMA VoltageRight ==
  ASSUME NEW v \in Nat, v <= 1023
  PROVE  /\ VoltageFormat(v) \in UShort
         /\ VoltageShown(VoltageFormat(v), v)
<1>1. PICK w \in Nat : /\ VoltageFormat(v) = w /\ w <= 5000
                       /\ 5000 * v - 1022 <= 1023 * w /\ 1023 * w <= 5000 * v
  BY VoltageFormatIs
<1>2. w <= 65535 /\ 1023 * w \in (5000 * v - 1022) .. (5000 * v)
  BY <1>1, SMT
<1>3. w \in UShort
  BY <1>2, IsUShort
<1> QED
  BY <1>1, <1>2, <1>3 DEF VoltageShown

LEMMA SignalRight ==
  ASSUME NEW rssi \in 0 .. 255, NEW lqi \in 0 .. 255
  PROVE  /\ SignalFormat(rssi, lqi) \in UShort
         /\ SignalShown(SignalFormat(rssi, lqi), rssi, lqi)
<1>1. SignalFormat(rssi, lqi) \in UShort
  BY SignalFormatIs, WordsAreUShorts, Zenon
<1>2. HostRssi(SignalFormat(rssi, lqi)) = Int8(Dbm(rssi))
  BY SignalFormatIs, Zenon
<1>3. HostLqi(SignalFormat(rssi, lqi)) = lqi % 128
  BY SignalFormatIs
<1> QED
  BY <1>1, <1>2, <1>3 DEF SignalShown

(* The words that the receive thread takes from a frame. *)
LEMMA WordsAreRight ==
  ASSUME NEW s \in Samples
  PROVE  /\ TemperatureFormat(s.t) \in UShort /\ VoltageFormat(s.v) \in UShort
         /\ SignalFormat(s.rssi, s.lqi) \in UShort
         /\ TemperatureShown(TemperatureFormat(s.t), s.t)
         /\ VoltageShown(VoltageFormat(s.v), s.v)
         /\ SignalShown(SignalFormat(s.rssi, s.lqi), s.rssi, s.lqi)
<1>1. /\ s.t \in Nat /\ s.t <= 1023 /\ s.v \in Nat /\ s.v <= 1023
      /\ s.rssi \in 0 .. 255 /\ s.lqi \in 0 .. 255
  BY SampleTypes
<1>2. TemperatureFormat(s.t) \in UShort /\ TemperatureShown(TemperatureFormat(s.t), s.t)
  BY <1>1, TemperatureRight
<1>3. VoltageFormat(s.v) \in UShort /\ VoltageShown(VoltageFormat(s.v), s.v)
  BY <1>1, VoltageRight
<1>4. /\ SignalFormat(s.rssi, s.lqi) \in UShort
      /\ SignalShown(SignalFormat(s.rssi, s.lqi), s.rssi, s.lqi)
  BY <1>1, SignalRight, ZenonT(60)
<1> QED
  BY <1>2, <1>3, <1>4

-----------------------------------------------------------------------------
(* The steps *)

Measured(id, s) ==
  [t |-> s.t, v |-> s.v, rssi |-> s.rssi, lqi |-> s.lqi, id |-> id, is |-> TRUE]

FrameWords(s) ==
  <<TemperatureFormat(s.t), VoltageFormat(s.v), SignalFormat(s.rssi, s.lqi), 0, 0, 0, 0>>

(* A good frame goes to the slot that has its id. *)
Accepted(i, id, s) ==
  /\ rx.pc = "sleep" /\ DeviceId(i) = id
  /\ rx' = [pc |-> "store", slot |-> i, k |-> 1, word |-> FrameWords(s)]
  /\ shown' = [shown EXCEPT ![i] = Measured(id, s)]
  /\ mixed' = IF Clearing(i) THEN mixed \cup {i} ELSE mixed \ {i}
  /\ renamed' = renamed \ {i}

LEMMA FirstOfIsIn ==
  ASSUME NEW S, S \subseteq 0 .. 255, S # {}
  PROVE  FirstOf(S) \in S
<1>1. S \in SUBSET Nat
  BY SMT
<1>2. \E i \in S : \A j \in S : i <= j
  BY <1>1, SmallestNat
<1> QED
  BY <1>2, Zenon DEF FirstOf

LEMMA FrameStep ==
  ASSUME NEW id \in Ids, NEW s \in Samples, NEW how \in Damages, HandleFrame(id, s, how)
  PROVE  /\ UNCHANGED <<slaveVars, chk>>
         /\ frames < MaxFrames /\ frames' = frames + 1
         /\ \/ UNCHANGED <<rx, shown, mixed, renamed>>
            \/ \E i \in Slots : Accepted(i, id, s)
<1> DEFINE f == Damaged(FrameOf(id, s), how)
           found == SlotsOf(CalculateDeviceId(f))
           i == FirstOf(found)
           accepted == DataFrameAnalysis(f) = 0 /\ found # {} /\ i \in Slots
           Words7(g) == <<TemperatureFormat(TemperatureRaw(g)), VoltageFormat(VoltageRaw(g)),
                          SignalFormat(s.rssi, s.lqi), 0, 0, 0, 0>>
<1>1. /\ UNCHANGED <<slaveVars, chk>> /\ rx.pc = "sleep"
      /\ frames < MaxFrames /\ frames' = frames + 1
  BY Zenon DEF HandleFrame
<1>2. \/ UNCHANGED <<rx, shown, mixed, renamed>>
      \/ /\ accepted
         /\ rx' = [pc |-> "store", slot |-> i, k |-> 1, word |-> Words7(f)]
         /\ shown' = IF how # "none" THEN shown
                     ELSE [shown EXCEPT ![i] = Measured(id, s)]
         /\ mixed' = IF Clearing(i) THEN mixed \cup {i} ELSE mixed \ {i}
         /\ renamed' = renamed \ {i}
  BY ZenonT(60) DEF HandleFrame, Measured
<1>3. ASSUME accepted
      PROVE  how = "none" /\ f = FrameOf(id, s)
  BY <1>3, DamageIsSeen
<1>4. ASSUME accepted
      PROVE  Words7(f) = FrameWords(s) /\ CalculateDeviceId(f) = id
  <2>1. f = FrameOf(id, s)
    BY <1>3, <1>4
  <2>2. /\ CalculateDeviceId(f) = id /\ TemperatureRaw(f) = s.t /\ VoltageRaw(f) = s.v
    BY <2>1, FrameCarries, Zenon
  <2> HIDE DEF f
  <2> QED
    BY <2>2, Zenon DEF FrameWords
<1>5. ASSUME accepted
      PROVE  DeviceId(i) = id
  <2>1. i \in found
    <3>1. Slots \subseteq 0 .. 255
      BY HostViewAssumption
    <3>2. found \subseteq 0 .. 255
      BY <3>1, ZenonT(60) DEF SlotsOf
    <3> HIDE DEF found
    <3> QED
      BY <1>5, <3>2, FirstOfIsIn, ZenonT(60)
  <2>2. CalculateDeviceId(f) = id /\ i \in Slots
    BY <1>4, <1>5
  <2>3. found = {j \in Slots : DeviceId(j) = id}
                  \cup (IF id = Nothing.id THEN (0 .. 255) \ Slots ELSE {})
    BY <2>2, Zenon DEF SlotsOf
  <2> HIDE DEF found, i
  <2> QED
    BY <2>1, <2>2, <2>3, Zenon
<1> HIDE DEF f, i, found, Words7
<1> QED
  BY <1>1, <1>2, <1>3, <1>4, <1>5, Zenon DEF Accepted

(* Every step is one of nine. *)
LEMMA StepCases ==
  ASSUME [Next]_vars
  PROVE  \/ UNCHANGED vars
         \/ \E id \in Ids, s \in Samples, how \in Damages : HandleFrame(id, s, how)
         \/ SaveWord \/ LoadLaunch \/ (\E now \in Nat : TakeMoment(now))
         \/ (\E i \in Slots : CheckSlot(i)) \/ CheckMoment \/ ClearWord
         \/ HostNext
<1>1. Senders \subseteq Ids /\ Times \subseteq Nat
  BY HostViewAssumption DEF Ids
<1>2. Sensors \subseteq Samples
  BY HostViewAssumption, ZenonT(60) DEF Samples
<1> QED
  BY <1>1, <1>2, Zenon DEF Next

-----------------------------------------------------------------------------
(* The locals of the two threads *)

RxType ==
  [pc : {"sleep", "store", "launchLo", "launchHi", "moment"}, slot : Nat, k : 1 .. 7,
   word : [1 .. 7 -> UShort]]
ChkType == [pc : {"sleep", "moment", "clear"}, slot : Nat, k : 1 .. 7, lo : UShort]

ThreadInv ==
  /\ rx \in RxType /\ chk \in ChkType
  /\ rx.pc # "sleep" => rx.slot \in Slots
  /\ chk.pc # "sleep" => chk.slot \in Slots

LEMMA ZeroIsWord == 0 \in UShort
BY IsUShort, SMT

LEMMA ThreadsStart ==
  /\ Receiving \in RxType /\ Receiving.pc = "sleep"
  /\ Resting \in ChkType /\ Resting.pc = "sleep"
<1>1. 0 \in Nat /\ 1 \in 1 .. 7
  BY SMT
<1>2. [k \in 1 .. 7 |-> 0] \in [1 .. 7 -> UShort]
  BY ZeroIsWord, Zenon
<1>3. Receiving \in RxType /\ Receiving.pc = "sleep"
  BY <1>1, <1>2, Zenon DEF Receiving, RxType
<1>4. Resting \in ChkType /\ Resting.pc = "sleep"
  BY <1>1, ZeroIsWord, Zenon DEF Resting, ChkType
<1> QED
  BY <1>3, <1>4

(* Numbers modulo 65536 are words. *)
LEMMA ModuloIsWord ==
  ASSUME NEW n \in Nat
  PROVE  n % 65536 \in UShort
<1>1. n % 65536 \in Nat /\ n % 65536 <= 65535
  BY SMT
<1> QED
  BY <1>1, IsUShort

LEMMA FrameWordsAreWords ==
  ASSUME NEW s \in Samples
  PROVE  FrameWords(s) \in [1 .. 7 -> UShort]
<1> DEFINE w1 == TemperatureFormat(s.t)
           w2 == VoltageFormat(s.v)
           w3 == SignalFormat(s.rssi, s.lqi)
<1>1. w1 \in UShort /\ w2 \in UShort /\ w3 \in UShort
  BY WordsAreRight
<1>2. FrameWords(s) = <<w1, w2, w3, 0, 0, 0, 0>>
  BY DEF FrameWords
<1>3. ASSUME NEW W, NEW x1 \in W, NEW x2 \in W, NEW x3 \in W, NEW z \in W
      PROVE  <<x1, x2, x3, z, z, z, z>> \in [1 .. 7 -> W]
  BY SMT
<1> HIDE DEF w1, w2, w3
<1>4. <<w1, w2, w3, 0, 0, 0, 0>> \in [1 .. 7 -> UShort]
  BY <1>1, <1>3, ZeroIsWord
<1> QED
  BY <1>2, <1>4

(* What SaveWord leaves: the word is stored, and the thread goes on to the  *)
(* next or is done.                                                         *)
LEMMA SaveWordIs ==
  ASSUME HostInv, ThreadInv, SaveWord
  PROVE  /\ rx.slot \in Slots /\ rx.k \in 1 .. 7 /\ rx.word[rx.k] \in UShort
         /\ Record(rx.slot)[rx.k] \in Stored
         /\ hold' = [hold EXCEPT ![Record(rx.slot)[rx.k]] = rx.word[rx.k]]
         /\ hold' \in [Stored -> UShort]
         /\ hold'[Record(rx.slot)[rx.k]] = rx.word[rx.k]
         /\ \A b \in Stored : b # Record(rx.slot)[rx.k] => hold'[b] = hold[b]
         /\ \/ rx.k = 7 /\ rx' = Receiving
            \/ /\ rx.k < 7 /\ rx'.k = rx.k + 1 /\ rx'.slot = rx.slot /\ rx'.word = rx.word
               /\ rx'.pc \in {"store", "launchLo", "moment"} /\ rx' \in RxType
<1>1. /\ rx.pc = "store"
      /\ hold' = [hold EXCEPT ![Record(rx.slot)[rx.k]] = rx.word[rx.k]]
      /\ rx' = CASE rx.k = 3 -> [rx EXCEPT !.pc = "launchLo", !.k = 4]
                 [] rx.k = 5 -> [rx EXCEPT !.pc = "moment", !.k = 6]
                 [] rx.k = 7 -> Receiving
                 [] OTHER -> [rx EXCEPT !.k = @ + 1]
  BY Zenon DEF SaveWord
<1>2. rx.slot \in Slots /\ rx \in RxType
  BY <1>1, Zenon DEF ThreadInv
<1>3. rx.k \in 1 .. 7 /\ rx.word \in [1 .. 7 -> UShort] /\ rx.slot \in Nat
  BY <1>2, Zenon DEF RxType
<1>4. rx.word[rx.k] \in UShort
  BY <1>3, Zenon
<1>5. Record(rx.slot)[rx.k] \in Stored
  BY <1>2, <1>3, AddressesKept
<1>6. hold \in [Stored -> UShort]
  BY DEF HostInv
<1>7. /\ hold' \in [Stored -> UShort] /\ hold'[Record(rx.slot)[rx.k]] = rx.word[rx.k]
      /\ \A b \in Stored : b # Record(rx.slot)[rx.k] => hold'[b] = hold[b]
  <2> DEFINE a == Record(rx.slot)[rx.k]
             w == rx.word[rx.k]
  <2>1. hold' = [hold EXCEPT ![a] = w] /\ a \in Stored /\ w \in UShort
    BY <1>1, <1>4, <1>5
  <2> HIDE DEF a, w
  <2>2. /\ hold' \in [Stored -> UShort] /\ hold'[a] = w
        /\ \A b \in Stored : b # a => hold'[b] = hold[b]
    BY <1>6, <2>1, Zenon
  <2> QED
    BY <2>2 DEF a, w
<1>8. \/ rx.k = 7 /\ rx' = Receiving
      \/ /\ rx.k < 7 /\ rx'.k = rx.k + 1 /\ rx'.slot = rx.slot /\ rx'.word = rx.word
         /\ rx'.pc \in {"store", "launchLo", "moment"} /\ rx' \in RxType
  <2>1. ASSUME NEW p \in {"store", "launchLo", "moment"}, NEW n \in 1 .. 7, n = rx.k + 1,
               rx' = [rx EXCEPT !.pc = p, !.k = n]
        PROVE  /\ rx'.k = rx.k + 1 /\ rx'.slot = rx.slot /\ rx'.word = rx.word
               /\ rx'.pc \in {"store", "launchLo", "moment"} /\ rx' \in RxType
    BY <1>2, <2>1, ZenonT(30) DEF RxType
  <2>2. CASE rx.k = 3
    <3>1. rx' = [rx EXCEPT !.pc = "launchLo", !.k = 4] /\ 4 \in 1 .. 7 /\ 4 = rx.k + 1 /\ rx.k < 7
      BY <1>1, <2>2, SMT
    <3> QED
      BY <2>1, <3>1, Zenon
  <2>3. CASE rx.k = 5
    <3>1. rx' = [rx EXCEPT !.pc = "moment", !.k = 6] /\ 6 \in 1 .. 7 /\ 6 = rx.k + 1 /\ rx.k < 7
      BY <1>1, <2>3, SMT
    <3> QED
      BY <2>1, <3>1, Zenon
  <2>4. CASE rx.k = 7
    BY <1>1, <2>4, SMT
  <2>5. CASE rx.k # 3 /\ rx.k # 5 /\ rx.k # 7
    <3>1. rx' = [rx EXCEPT !.k = rx.k + 1]
      BY <1>1, <2>5, Zenon
    <3>2. rx' = [rx EXCEPT !.pc = "store", !.k = rx.k + 1]
      BY <1>1, <1>2, <3>1, ZenonT(30) DEF RxType
    <3>3. rx.k + 1 \in 1 .. 7 /\ rx.k < 7
      BY <1>3, <2>5, SMT
    <3> QED
      BY <2>1, <3>2, <3>3, Zenon
  <2> QED
    BY <2>2, <2>3, <2>4, <2>5
<1> QED
  BY <1>1, <1>2, <1>3, <1>4, <1>5, <1>7, <1>8

(* LoadLaunch and TakeMoment change neither the place nor the measurements. *)
SameMeasurements ==
  /\ rx.pc # "sleep" /\ rx'.pc # "sleep"
  /\ rx'.slot = rx.slot /\ rx'.k = rx.k /\ rx' \in RxType
  /\ \A k \in 1 .. 3 : rx'.word[k] = rx.word[k]

LEMMA NewWords ==
  ASSUME rx \in RxType, NEW p \in {"store", "launchHi"}, NEW m \in 4 .. 7, NEW n \in 4 .. 7,
         NEW x \in UShort, NEW y \in UShort, rx.pc # "sleep",
         rx' = [rx EXCEPT !.pc = p, !.word[m] = x, !.word[n] = y]
  PROVE  SameMeasurements
<1>1. rx.word \in [1 .. 7 -> UShort]
  BY Zenon DEF RxType
<1> DEFINE u == [rx.word EXCEPT ![m] = x]
           v == [u EXCEPT ![n] = y]
<1>2. v \in [1 .. 7 -> UShort] /\ \A k \in 1 .. 3 : v[k] = rx.word[k]
  BY <1>1, SMT
<1>3. rx' = [rx EXCEPT !.pc = p, !.word = v]
  BY ZenonT(30) DEF RxType
<1> HIDE DEF u, v
<1>4. /\ rx'.pc = p /\ rx'.slot = rx.slot /\ rx'.k = rx.k /\ rx'.word = v /\ rx' \in RxType
  BY <1>2, <1>3, ZenonT(30) DEF RxType
<1> QED
  BY <1>2, <1>4, Zenon DEF SameMeasurements

LEMMA LoadLaunchIs ==
  ASSUME HostInv, ThreadInv, LoadLaunch
  PROVE  SameMeasurements /\ UNCHANGED <<slaveVars, chk, frames, shown, mixed, renamed>>
<1>1. rx \in RxType /\ hold \in [Stored -> UShort]
  BY DEF ThreadInv, HostInv
<1>2. \A a : Register(a) \in UShort
  BY <1>1, RegisterIsWord
<1>3. UNCHANGED <<slaveVars, chk, frames, shown, mixed, renamed>>
  BY DEF LoadLaunch
<1>4. 4 \in 4 .. 7 /\ 5 \in 4 .. 7
  BY SMT
<1>5. CASE /\ rx.pc = "launchLo"
           /\ rx' = [rx EXCEPT !.pc = "launchHi", !.word[4] = Register(LaunchAddr(rx.slot))]
  <2> DEFINE x == Register(LaunchAddr(rx.slot))
  <2>1. x \in UShort /\ rx.pc # "sleep"
    BY <1>2, <1>5
  <2>2. rx' = [rx EXCEPT !.pc = "launchHi", !.word[4] = x]
    BY <1>5
  <2> HIDE DEF x
  <2>3. rx' = [rx EXCEPT !.pc = "launchHi", !.word[4] = x, !.word[4] = x]
    BY <1>1, <2>2, ZenonT(30) DEF RxType
  <2>4. SameMeasurements
    BY <1>1, <1>4, <2>1, <2>3, NewWords, Zenon
  <2> QED
    BY <1>3, <2>4
<1>6. CASE /\ rx.pc = "launchHi"
           /\ rx' = [rx EXCEPT !.pc = "store", !.word[4] = (rx.word[4] + 1) % 65536,
                        !.word[5] = IF rx.word[4] = 65535
                                      THEN (Register(LaunchAddr(rx.slot) + 1) + 1) % 65536
                                      ELSE Register(LaunchAddr(rx.slot) + 1)]
  <2> DEFINE lo == rx.word[4]
             hi == Register(LaunchAddr(rx.slot) + 1)
             x == (lo + 1) % 65536
             y == IF lo = 65535 THEN (hi + 1) % 65536 ELSE hi
  <2>1. lo \in UShort /\ hi \in UShort
    BY <1>1, <1>2, <1>4 DEF RxType
  <2>2. lo + 1 \in Nat /\ hi + 1 \in Nat
    BY <2>1, UShortIs, SMT
  <2>3. x \in UShort /\ y \in UShort
    BY <2>1, <2>2, ModuloIsWord
  <2>4. rx' = [rx EXCEPT !.pc = "store", !.word[4] = x, !.word[5] = y] /\ rx.pc # "sleep"
    BY <1>6
  <2> HIDE DEF x, y
  <2>5. SameMeasurements
    BY <1>1, <1>4, <2>3, <2>4, NewWords, Zenon
  <2> QED
    BY <1>3, <2>5
<1> QED
  BY <1>5, <1>6 DEF LoadLaunch

LEMMA TakeMomentIs ==
  ASSUME ThreadInv, NEW now \in Nat, TakeMoment(now)
  PROVE  SameMeasurements /\ UNCHANGED <<slaveVars, chk, frames, shown, mixed, renamed>>
<1> DEFINE x == now % 65536
           y == (now \div 65536) % 65536
<1>1. /\ rx \in RxType /\ rx.pc # "sleep"
      /\ rx' = [rx EXCEPT !.pc = "store", !.word[6] = x, !.word[7] = y]
      /\ UNCHANGED <<slaveVars, chk, frames, shown, mixed, renamed>>
  BY DEF ThreadInv, TakeMoment
<1>2. 6 \in 4 .. 7 /\ 7 \in 4 .. 7
  BY SMT
<1>3. x \in UShort /\ y \in UShort
  <2>1. now \div 65536 \in Nat
    BY SMT
  <2> QED
    BY <2>1, ModuloIsWord
<1> HIDE DEF x, y
<1>4. SameMeasurements
  BY <1>1, <1>2, <1>3, NewWords, Zenon
<1> QED
  BY <1>1, <1>4

(* The steps of the overtime thread. *)
LEMMA CheckSlotIs ==
  ASSUME HostInv, ThreadInv, NEW i \in Slots, CheckSlot(i)
  PROVE  /\ chk.pc = "sleep" /\ chk' \in ChkType /\ chk'.pc = "moment" /\ chk'.slot = i
         /\ UNCHANGED <<slaveVars, rx, frames, shown, mixed, renamed>>
<1> DEFINE x == Register(MomentAddr(i))
<1>1. x \in UShort /\ i \in Nat
  BY RegisterIsWord, SlotNumber DEF HostInv
<1>2. /\ chk.pc = "sleep" /\ chk' = [Resting EXCEPT !.pc = "moment", !.slot = i, !.lo = x]
      /\ UNCHANGED <<slaveVars, rx, frames, shown, mixed, renamed>>
  BY Zenon DEF CheckSlot
<1> HIDE DEF x
<1>3. chk' \in ChkType /\ chk'.pc = "moment" /\ chk'.slot = i
  BY <1>1, <1>2, ThreadsStart, ZenonT(30) DEF ChkType
<1> QED
  BY <1>2, <1>3

LEMMA CheckMomentIs ==
  ASSUME ThreadInv, CheckMoment
  PROVE  /\ UNCHANGED <<slaveVars, rx, frames, shown, renamed>>
         /\ \/ chk' = Resting /\ chk.pc = "moment" /\ UNCHANGED mixed
            \/ /\ chk.pc = "moment" /\ chk.slot \in Slots
               /\ chk'.pc = "clear" /\ chk'.slot = chk.slot /\ chk'.k = 1 /\ chk' \in ChkType
               /\ mixed' = IF Saving(chk.slot) THEN mixed \cup {chk.slot}
                                               ELSE mixed \ {chk.slot}
<1>1. /\ UNCHANGED <<slaveVars, rx, frames, shown, renamed>> /\ chk.pc = "moment"
      /\ \/ chk' = Resting /\ UNCHANGED mixed
         \/ /\ chk' = [Resting EXCEPT !.pc = "clear", !.slot = chk.slot]
            /\ mixed' = IF Saving(chk.slot) THEN mixed \cup {chk.slot}
                                            ELSE mixed \ {chk.slot}
  BY Zenon DEF CheckMoment
<1>2. chk \in ChkType /\ chk.slot \in Slots
  BY <1>1, Zenon DEF ThreadInv
<1>3. ASSUME chk' = [Resting EXCEPT !.pc = "clear", !.slot = chk.slot]
      PROVE  chk'.pc = "clear" /\ chk'.slot = chk.slot /\ chk'.k = 1 /\ chk' \in ChkType
  <2>1. Resting.k = 1
    BY DEF Resting
  <2>2. chk.slot \in Nat
    BY <1>2, Zenon DEF ChkType
  <2> QED
    BY <1>3, <2>1, <2>2, ThreadsStart, ZenonT(30) DEF ChkType
<1> QED
  BY <1>1, <1>2, <1>3, Zenon

LEMMA ClearWordIs ==
  ASSUME HostInv, ThreadInv, ClearWord
  PROVE  /\ chk.pc = "clear" /\ chk.slot \in Slots /\ chk.k \in 1 .. 7
         /\ Record(chk.slot)[chk.k] \in Stored
         /\ hold' \in [Stored -> UShort] /\ hold'[Record(chk.slot)[chk.k]] = 0
         /\ \A b \in Stored : b # Record(chk.slot)[chk.k] => hold'[b] = hold[b]
         /\ \/ chk.k = 7 /\ chk' = Resting
            \/ /\ chk.k < 7 /\ chk'.k = chk.k + 1 /\ chk'.slot = chk.slot
               /\ chk'.pc = "clear" /\ chk' \in ChkType
<1>1. /\ chk.pc = "clear" /\ hold' = [hold EXCEPT ![Record(chk.slot)[chk.k]] = 0]
      /\ chk' = IF chk.k = 7 THEN Resting ELSE [chk EXCEPT !.k = @ + 1]
  BY Zenon DEF ClearWord
<1>2. chk \in ChkType /\ chk.slot \in Slots
  BY <1>1, Zenon DEF ThreadInv
<1>3. chk.k \in 1 .. 7
  BY <1>2, Zenon DEF ChkType
<1>4. Record(chk.slot)[chk.k] \in Stored
  BY <1>2, <1>3, AddressesKept
<1>5. hold \in [Stored -> UShort]
  BY DEF HostInv
<1>6. /\ hold' \in [Stored -> UShort] /\ hold'[Record(chk.slot)[chk.k]] = 0
      /\ \A b \in Stored : b # Record(chk.slot)[chk.k] => hold'[b] = hold[b]
  <2> DEFINE a == Record(chk.slot)[chk.k]
  <2>1. hold' = [hold EXCEPT ![a] = 0] /\ a \in Stored
    BY <1>1, <1>4
  <2> HIDE DEF a
  <2>2. /\ hold' \in [Stored -> UShort] /\ hold'[a] = 0
        /\ \A b \in Stored : b # a => hold'[b] = hold[b]
    BY <1>5, <2>1, ZeroIsWord, Zenon
  <2> QED
    BY <2>2 DEF a
<1>7. CASE chk.k # 7
  <2>1. chk.k + 1 \in 1 .. 7 /\ chk.k < 7
    BY <1>3, <1>7, SMT
  <2>2. chk' = [chk EXCEPT !.k = chk.k + 1]
    BY <1>1, <1>7, Zenon
  <2>3. chk'.k = chk.k + 1 /\ chk'.slot = chk.slot /\ chk'.pc = "clear" /\ chk' \in ChkType
    BY <1>1, <1>2, <2>1, <2>2, ZenonT(30) DEF ChkType
  <2> QED
    BY <1>1, <1>2, <1>3, <1>4, <1>6, <2>1, <2>3
<1> QED
  BY <1>1, <1>2, <1>3, <1>4, <1>6, <1>7, Zenon

LEMMA ThreadStep ==
  ASSUME HostInv, ThreadInv, [Next]_vars
  PROVE  ThreadInv'
<1>1. CASE UNCHANGED <<rx, chk>>
  BY <1>1, Zenon DEF ThreadInv
<1>2. ASSUME NEW id \in Ids, NEW s \in Samples, NEW how \in Damages, HandleFrame(id, s, how)
      PROVE  ThreadInv'
  <2>1. /\ chk' = chk
        /\ rx' = rx \/ \E i \in Slots : Accepted(i, id, s)
    BY <1>2, FrameStep, Zenon
  <2>2. ASSUME NEW i \in Slots, Accepted(i, id, s)
        PROVE  rx' \in RxType /\ rx'.slot \in Slots
    <3>1. i \in Nat /\ 1 \in 1 .. 7
      BY SlotNumber, SMT
    <3>2. rx' = [pc |-> "store", slot |-> i, k |-> 1, word |-> FrameWords(s)]
      BY <2>2, Zenon DEF Accepted
    <3> QED
      BY <3>1, <3>2, FrameWordsAreWords, Zenon DEF RxType
  <2> QED
    BY <2>1, <2>2, Zenon DEF ThreadInv
<1>3. CASE SaveWord
  <2>1. chk' = chk
    BY <1>3, Zenon DEF SaveWord
  <2> QED
    BY <1>3, <2>1, SaveWordIs, ThreadsStart, Zenon DEF ThreadInv
<1>4. CASE LoadLaunch \/ \E now \in Nat : TakeMoment(now)
  <2>1. SameMeasurements /\ chk' = chk
    BY <1>4, LoadLaunchIs, TakeMomentIs, Zenon
  <2> QED
    BY <2>1, Zenon DEF ThreadInv, SameMeasurements
<1>5. CASE \E i \in Slots : CheckSlot(i)
  <2>1. PICK i \in Slots : CheckSlot(i)
    BY <1>5
  <2> QED
    BY <2>1, CheckSlotIs, Zenon DEF ThreadInv
<1>6. CASE CheckMoment
  BY <1>6, CheckMomentIs, ThreadsStart, Zenon DEF ThreadInv
<1>7. CASE ClearWord
  <2>1. rx' = rx
    BY <1>7, Zenon DEF ClearWord
  <2> QED
    BY <1>7, <2>1, ClearWordIs, ThreadsStart, Zenon DEF ThreadInv
<1>8. CASE HostNext
  BY <1>1, <1>8, Zenon DEF HostNext
<1> QED
  BY <1>1, <1>2, <1>3, <1>4, <1>5, <1>6, <1>7, <1>8, StepCases, Zenon DEF vars

(* Steps of the two threads that store nothing. *)
LEMMA QuietSteps ==
  /\ \A id, s, how : HandleFrame(id, s, how) => UNCHANGED slaveVars
  /\ LoadLaunch => UNCHANGED slaveVars
  /\ \A now : TakeMoment(now) => UNCHANGED slaveVars
  /\ \A i : CheckSlot(i) => UNCHANGED slaveVars
  /\ CheckMoment => UNCHANGED slaveVars
<1>1. \A id, s, how : HandleFrame(id, s, how) => UNCHANGED slaveVars
  BY ZenonT(60) DEF HandleFrame
<1>2. LoadLaunch => UNCHANGED slaveVars
  BY DEF LoadLaunch
<1>3. \A now : TakeMoment(now) => UNCHANGED slaveVars
  BY DEF TakeMoment
<1>4. /\ \A i : CheckSlot(i) => UNCHANGED slaveVars
      /\ CheckMoment => UNCHANGED slaveVars
  BY Zenon DEF CheckSlot, CheckMoment
<1> QED
  BY <1>1, <1>2, <1>3, <1>4

LEMMA HostInvStep ==
  ASSUME HostInv, ThreadInv, RefusedIfAbsent, [Next]_vars
  PROVE  HostInv' /\ RefusedIfAbsent'
<1>1. CASE UNCHANGED slaveVars
  BY <1>1, StutterKeeps
<1>2. ASSUME Disturb, hold' \in [Stored -> UShort]
      PROVE  HostInv' /\ RefusedIfAbsent'
  BY <1>2, DisturbanceKeeps DEF Disturb
<1>3. CASE SaveWord
  <2>1. Disturb
    BY <1>3, Zenon DEF SaveWord
  <2> QED
    BY <1>2, <1>3, <2>1, SaveWordIs
<1>4. CASE ClearWord
  <2>1. Disturb
    BY <1>4, Zenon DEF ClearWord
  <2> QED
    BY <1>2, <1>4, <2>1, ClearWordIs
<1>5. CASE HostNext
  <2>1. SlaveNext
    BY <1>5 DEF HostNext
  <2> QED
    BY <2>1, SlaveNextKeeps
<1> QED
  BY <1>1, <1>3, <1>4, <1>5, QuietSteps, StepCases, Zenon DEF vars

LEMMA InitHold ==
  ASSUME Init
  PROVE  /\ hold \in [Stored -> UShort]
         /\ \A a \in Stored :
              (\A i \in Slots : a # IdAddr(i) /\ a # IdAddr(i) + 1) => hold[a] = 0
<1>1. 0 \in UShort
  BY IsUShort, SMT
<1>2. \A i \in Slots : Configured[i].lo \in UShort /\ Configured[i].hi \in UShort
  <2>1. Configured \in [Slots -> Ids]
    BY HostViewAssumption DEF Ids
  <2> QED
    BY <2>1, IdTypes, WordsAreUShorts, Zenon
<1> DEFINE Value(a) ==
      IF \E i \in Slots : a = IdAddr(i) THEN Configured[CHOOSE i \in Slots : a = IdAddr(i)].lo
      ELSE IF \E i \in Slots : a = IdAddr(i) + 1
        THEN Configured[CHOOSE i \in Slots : a = IdAddr(i) + 1].hi
      ELSE 0
<1>3. hold = [a \in Stored |-> Value(a)]
  BY DEF Init
<1>4. \A a : Value(a) \in UShort
  BY <1>1, <1>2, Zenon
<1>5. ASSUME NEW a, \A i \in Slots : a # IdAddr(i) /\ a # IdAddr(i) + 1
      PROVE  Value(a) = 0
  BY <1>5, Zenon
<1> HIDE DEF Value
<1> QED
  BY <1>3, <1>4, <1>5, Zenon

LEMMA ThreadsInit ==
  ASSUME Init
  PROVE  ThreadInv
BY ThreadsStart, Zenon DEF Init, ThreadInv

(* A request is refused with "illegal data address" exactly if something it *)
(* names does not exist, whatever its address and count, and a refusal has  *)
(* stored nothing (23 apart): Exist in the callbacks of user_mb_app.c does  *)
(* not wrap, and every handler calls it before it stores.                   *)
THEOREM AbsentItemsAreRefused == Spec => []RefusedIfAbsent
<1> DEFINE I == HostInv /\ ThreadInv /\ RefusedIfAbsent
<1>1. Init => I
  BY InitHold, SlaveStarts, ThreadsInit DEF Init
<1>2. I /\ [Next]_vars => I'
  BY HostInvStep, ThreadStep
<1> QED
  BY <1>1, <1>2, PTL DEF Spec

(* The slave at work, another thread at work, or nothing. *)
LEMMA CalmStep ==
  ASSUME HostInv, CalmInv, AnswersAreTrue, [Next]_vars
  PROVE  CalmInv' /\ AnswersAreTrue'
<1>1. CASE UNCHANGED slaveVars
  BY <1>1, StutterIsTrue
<1>2. CASE Disturb
  BY <1>2, DisturbanceIsNoted DEF Disturb
<1>3. CASE HostNext
  BY <1>3, SlaveNextIsTrue DEF HostNext
<1>4. SaveWord \/ ClearWord => Disturb
  BY Zenon DEF SaveWord, ClearWord
<1> QED
  BY <1>1, <1>2, <1>3, <1>4, QuietSteps, StepCases, Zenon DEF vars

(* An acknowledged write has stored what the host sent, both bytes of every *)
(* word, and a read has told what the registers and coils hold: the loops   *)
(* of eMBRegHoldingCB and eMBRegCoilsCB reach every byte of the range once, *)
(* the high byte first, and the last byte of coils ends with zeros.         *)
THEOREM AnswersTellTheTruth == Spec => []AnswersAreTrue
<1> DEFINE I == HostInv /\ ThreadInv /\ RefusedIfAbsent /\ CalmInv /\ AnswersAreTrue
<1>1. Init => I
  BY InitHold, SlaveStarts, ThreadsInit, SlaveStartsCalm DEF Init
<1>2. I /\ [Next]_vars => I'
  BY HostInvStep, ThreadStep, CalmStep
<1> QED
  BY <1>1, <1>2, PTL DEF Spec

(* Only the slave touches the coils. *)
LEMMA CoilStep ==
  ASSUME UnusedBitsAreZero, CoilInv, [Next]_vars
  PROVE  CoilInv'
<1>1. CASE UNCHANGED <<coils, want>>
  BY <1>1, Zenon DEF CoilInv
<1>2. CASE HostNext
  BY <1>2, SlaveNextCoils DEF HostNext
<1>3. SaveWord \/ ClearWord => UNCHANGED <<coils, want>>
  BY Zenon DEF SaveWord, ClearWord
<1>4. UNCHANGED slaveVars => UNCHANGED <<coils, want>>
  BY Zenon DEF slaveVars
<1> QED
  BY <1>1, <1>2, <1>3, <1>4, QuietSteps, StepCases, Zenon DEF vars

LEMMA CoilsStart ==
  ASSUME SlaveInit
  PROVE  CoilInv
BY Zenon DEF SlaveInit, CoilInv

(* The coils are as the host asked: xMBUtilSetBits, called for every whole  *)
(* byte and for the bits that are left over, reaches each addressed coil    *)
(* once and no other, at every offset and for every count.  The host sends  *)
(* zeros in the unused bits.                                                *)
THEOREM CoilsAreAsAsked == UnusedBitsAreZero => (Spec => []CoilsAsAsked)
<1> SUFFICES ASSUME UnusedBitsAreZero PROVE Spec => []CoilsAsAsked
  OBVIOUS
<1>1. Init => CoilInv
  BY CoilsStart DEF Init
<1>2. CoilInv /\ [Next]_vars => CoilInv'
  BY CoilStep
<1>3. CoilInv => CoilsAsAsked
  BY DEF CoilInv, CoilsAsAsked
<1> QED
  BY <1>1, <1>2, <1>3, PTL DEF Spec

(* The bounds hold. *)
BoundsInv ==
  /\ frames \in 0 .. MaxFrames /\ served \in 0 .. MaxRequests
  /\ mixed \subseteq Slots /\ renamed \subseteq Slots

LEMMA ServedStep ==
  ASSUME served \in 0 .. MaxRequests, SlaveNext
  PROVE  served' \in 0 .. MaxRequests
<1>1. MaxRequests \in Nat
  BY FunctionCodesAssumption, SMT
<1>2. ASSUME NEW r \in HostRequests, TakeRequest(r)
      PROVE  served' \in 0 .. MaxRequests
  <2>1. served < MaxRequests /\ served' = served + 1
    BY <1>2, Zenon DEF TakeRequest
  <2> QED
    BY <1>1, <2>1, SMT
<1>3. CASE StoreByte \/ LoadByte
  BY <1>3, Zenon DEF StoreByte, LoadByte
<1> QED
  BY <1>2, <1>3, Zenon DEF SlaveNext

LEMMA BoundsStep ==
  ASSUME HostInv, ThreadInv, BoundsInv, [Next]_vars
  PROVE  BoundsInv'
<1>1. CASE UNCHANGED <<frames, served, mixed, renamed>>
  BY <1>1, Zenon DEF BoundsInv
<1>2. ASSUME NEW id \in Ids, NEW s \in Samples, NEW how \in Damages, HandleFrame(id, s, how)
      PROVE  BoundsInv'
  <2>1. /\ UNCHANGED slaveVars /\ frames < MaxFrames /\ frames' = frames + 1
        /\ UNCHANGED <<mixed, renamed>> \/ \E i \in Slots : Accepted(i, id, s)
    BY <1>2, FrameStep, Zenon
  <2>2. served' = served
    BY <2>1, Zenon DEF slaveVars
  <2>3. frames' \in 0 .. MaxFrames
    <3>1. frames \in 0 .. MaxFrames /\ MaxFrames \in Nat \ {0}
      BY HostViewAssumption DEF BoundsInv
    <3> QED
      BY <2>1, <3>1, SMT
  <2>4. mixed' \subseteq Slots /\ renamed' \subseteq Slots
    <3>1. ASSUME NEW i \in Slots, Accepted(i, id, s)
          PROVE  mixed' \subseteq Slots /\ renamed' \subseteq Slots
      <4>1. mixed' \subseteq mixed \cup {i} /\ renamed' \subseteq renamed
        BY <3>1, Zenon DEF Accepted
      <4> QED
        BY <4>1, Zenon DEF BoundsInv
    <3> QED
      BY <2>1, <3>1, Zenon DEF BoundsInv
  <2> QED
    BY <2>2, <2>3, <2>4, Zenon DEF BoundsInv
<1>3. CASE SaveWord \/ ClearWord
  BY <1>1, <1>3, Zenon DEF SaveWord, ClearWord
<1>4. CASE LoadLaunch \/ \E now \in Nat : TakeMoment(now)
  BY <1>1, <1>4, LoadLaunchIs, TakeMomentIs, Zenon DEF slaveVars
<1>5. CASE \E i \in Slots : CheckSlot(i)
  BY <1>1, <1>5, CheckSlotIs, Zenon DEF slaveVars
<1>6. CASE CheckMoment
  <2>1. UNCHANGED <<frames, served, renamed>> /\ mixed' \subseteq mixed \cup Slots
    BY <1>6, CheckMomentIs, Zenon DEF slaveVars
  <2> QED
    BY <2>1, Zenon DEF BoundsInv
<1>7. CASE HostNext
  <2>1. SlaveNext /\ frames' = frames /\ mixed' = mixed
    BY <1>7, Zenon DEF HostNext
  <2>2. renamed' \subseteq renamed \cup Slots
    BY <1>7, Zenon DEF HostNext
  <2> QED
    BY <2>1, <2>2, ServedStep, Zenon DEF BoundsInv
<1> QED
  BY <1>1, <1>2, <1>3, <1>4, <1>5, <1>6, <1>7, StepCases, Zenon DEF vars, slaveVars

LEMMA BoundsInit ==
  ASSUME Init
  PROVE  BoundsInv
<1>1. frames = 0 /\ served = 0 /\ mixed = {} /\ renamed = {}
  BY Zenon DEF Init, SlaveInit
<1>2. MaxFrames \in Nat /\ MaxRequests \in Nat
  BY HostViewAssumption, FunctionCodesAssumption
<1> QED
  BY <1>1, <1>2, SMT DEF BoundsInv

(* No index leaves usSRegHoldBuf: the bytes that eMBRegHoldingCB stores or  *)
(* loads next, for every address and count a host may send, and the words   *)
(* that the other two threads store; every register is a word, and no coil  *)
(* behind the last is set.                                                  *)
THEOREM HostViewTypeCorrect == UnusedBitsAreZero => (Spec => []TypeOK)
<1> SUFFICES ASSUME UnusedBitsAreZero PROVE Spec => []TypeOK
  OBVIOUS
<1> DEFINE I == HostInv /\ ThreadInv /\ RefusedIfAbsent /\ CoilInv /\ BoundsInv
<1>1. Init => I
  BY InitHold, SlaveStarts, ThreadsInit, CoilsStart, BoundsInit DEF Init
<1>2. I /\ [Next]_vars => I'
  BY HostInvStep, ThreadStep, CoilStep, BoundsStep
<1>3. I => TypeOK
  <2>1. SUFFICES ASSUME HostInv, ThreadInv, CoilInv, BoundsInv PROVE TypeOK
    OBVIOUS
  <2>2. hold \in [Stored -> Words] /\ answer.ex \in 0 .. 3 /\ host \in HostType
    BY <2>1, WordsAreUShorts, Zenon DEF HostInv
  <2>3. host.pc \in {"idle", "store", "load"}
    BY <2>2, Zenon DEF HostType
  <2>4. coils \subseteq 0 .. (NCoils - 1)
    BY <2>1 DEF CoilInv
  <2>5. /\ frames \in 0 .. MaxFrames /\ served \in 0 .. MaxRequests
        /\ mixed \cup renamed \subseteq Slots
    BY <2>1, Zenon DEF BoundsInv
  <2>6. /\ rx.pc \in {"sleep", "store", "launchLo", "launchHi", "moment"}
        /\ chk.pc \in {"sleep", "moment", "clear"}
        /\ rx.k \in 1 .. 7 /\ chk.k \in 1 .. 7 /\ rx.word \in [1 .. 7 -> Words]
        /\ rx.pc # "sleep" => rx.slot \in Slots
        /\ chk.pc # "sleep" => chk.slot \in Slots
    BY <2>1, WordsAreUShorts, Zenon DEF ThreadInv, RxType, ChkType
  <2> QED
    BY <2>1, <2>2, <2>3, <2>4, <2>5, <2>6, NextByteExists, Zenon DEF TypeOK
<1> QED
  BY <1>1, <1>2, <1>3, PTL DEF Spec

-----------------------------------------------------------------------------
(* The records *)

(* What was measured for each slot, as a function on the slots. *)
ShownInv == shown = [i \in Slots |-> shown[i]]

LEMMA AcceptedShown ==
  ASSUME ShownInv, NEW i \in Slots, NEW id, NEW s, Accepted(i, id, s)
  PROVE  /\ ShownInv' /\ shown'[i] = Measured(id, s)
         /\ \A j \in Slots : j # i => shown'[j] = shown[j]
BY Zenon DEF ShownInv, Accepted

LEMMA NothingIsNot == ~ Nothing.is
BY DEF Nothing

LEMMA MeasuredIs ==
  ASSUME NEW id, NEW s
  PROVE  /\ Measured(id, s).t = s.t /\ Measured(id, s).v = s.v
         /\ Measured(id, s).rssi = s.rssi /\ Measured(id, s).lqi = s.lqi
         /\ Measured(id, s).id = id /\ Measured(id, s).is
BY DEF Measured

(* ClearWord ends the record at its last store, if the slot is not mixed. *)
LEMMA ClearedShown ==
  ASSUME ShownInv, ThreadInv, ClearWord
  PROVE  /\ ShownInv'
         /\ shown'[chk.slot] = IF chk.k = 7 /\ chk.slot \notin mixed
                                 THEN Nothing ELSE shown[chk.slot]
         /\ \A j \in Slots : j # chk.slot => shown'[j] = shown[j]
<1>1. chk.slot \in Slots
  BY Zenon DEF ThreadInv, ClearWord
<1>2. shown' = IF chk.k = 7 /\ chk.slot \notin mixed
                 THEN [shown EXCEPT ![chk.slot] = Nothing] ELSE shown
  BY Zenon DEF ClearWord
<1> QED
  BY <1>1, <1>2, Zenon DEF ShownInv

(* The id registers of a slot are the same in both states. *)
SameId(i) == hold'[IdAddr(i)] = hold[IdAddr(i)] /\ hold'[IdAddr(i) + 1] = hold[IdAddr(i) + 1]

LEMMA SameDeviceId ==
  ASSUME NEW i \in Slots, SameId(i)
  PROVE  DeviceId(i)' = DeviceId(i)
<1>1. IdAddr(i) \in Stored /\ IdAddr(i) + 1 \in Stored
  BY AddressesKept
<1> QED
  BY <1>1, Zenon DEF SameId, DeviceId, Register

LEMMA IdStep ==
  ASSUME HostInv, ThreadInv, ShownInv, RecordsStandUnderTheirId, [Next]_vars
  PROVE  ShownInv' /\ RecordsStandUnderTheirId'
<1>1. CASE UNCHANGED <<hold, shown, renamed>>
  <2>1. \A j \in Slots : DeviceId(j)' = DeviceId(j)
    BY <1>1, SameDeviceId DEF SameId
  <2> QED
    BY <1>1, <2>1, Zenon DEF ShownInv, RecordsStandUnderTheirId
<1>2. ASSUME NEW id \in Ids, NEW s \in Samples, NEW how \in Damages, HandleFrame(id, s, how)
      PROVE  ShownInv' /\ RecordsStandUnderTheirId'
  <2>1. /\ hold' = hold
        /\ UNCHANGED <<shown, renamed>> \/ \E i \in Slots : Accepted(i, id, s)
    BY <1>2, FrameStep, Zenon DEF slaveVars
  <2>2. \A j \in Slots : DeviceId(j)' = DeviceId(j)
    BY <2>1, SameDeviceId DEF SameId
  <2>3. ASSUME NEW i \in Slots, Accepted(i, id, s)
        PROVE  ShownInv' /\ RecordsStandUnderTheirId'
    <3>1. /\ ShownInv' /\ shown'[i] = Measured(id, s)
          /\ \A j \in Slots : j # i => shown'[j] = shown[j]
      BY <2>3, AcceptedShown
    <3>2. DeviceId(i) = id /\ renamed' = renamed \ {i}
      BY <2>3, Zenon DEF Accepted
    <3>3. Measured(id, s).id = id
      BY MeasuredIs
    <3> QED
      BY <2>2, <3>1, <3>2, <3>3, Zenon DEF RecordsStandUnderTheirId
  <2> QED
    BY <1>1, <2>1, <2>3, Zenon
<1>3. CASE SaveWord
  <2>1. UNCHANGED <<shown, renamed>>
    BY <1>3, Zenon DEF SaveWord
  <2>2. \A j \in Slots : DeviceId(j)' = DeviceId(j)
    <3>1. /\ rx.slot \in Slots /\ rx.k \in 1 .. 7
          /\ \A b \in Stored : b # Record(rx.slot)[rx.k] => hold'[b] = hold[b]
      BY <1>3, SaveWordIs
    <3>2. \A j \in Slots : SameId(j)
      BY <3>1, IdsApart, AddressesKept, Zenon DEF SameId
    <3> QED
      BY <3>2, SameDeviceId
  <2> QED
    BY <2>1, <2>2, Zenon DEF ShownInv, RecordsStandUnderTheirId
<1>4. CASE ClearWord
  <2>1. renamed' = renamed
    BY <1>4, Zenon DEF ClearWord
  <2>2. \A j \in Slots : DeviceId(j)' = DeviceId(j)
    <3>1. /\ chk.slot \in Slots /\ chk.k \in 1 .. 7
          /\ \A b \in Stored : b # Record(chk.slot)[chk.k] => hold'[b] = hold[b]
      BY <1>4, ClearWordIs
    <3>2. \A j \in Slots : SameId(j)
      BY <3>1, IdsApart, AddressesKept, Zenon DEF SameId
    <3> QED
      BY <3>2, SameDeviceId
  <2>3. ShownInv' /\ \A j \in Slots : shown'[j] = shown[j] \/ shown'[j] = Nothing
    BY <1>4, ClearedShown, Zenon
  <2> QED
    BY <2>1, <2>2, <2>3, NothingIsNot, Zenon DEF RecordsStandUnderTheirId
<1>5. CASE LoadLaunch \/ (\E now \in Nat : TakeMoment(now)) \/ (\E i \in Slots : CheckSlot(i))
             \/ CheckMoment
  BY <1>1, <1>5, LoadLaunchIs, TakeMomentIs, CheckSlotIs, CheckMomentIs, Zenon DEF slaveVars
<1>6. CASE HostNext
  <2>1. /\ renamed' = renamed \cup {i \in Slots : hold[IdAddr(i)] # hold'[IdAddr(i)]
                                         \/ hold[IdAddr(i) + 1] # hold'[IdAddr(i) + 1]}
        /\ shown' = shown
    BY <1>6 DEF HostNext
  <2>2. \A j \in Slots : j \notin renamed' => j \notin renamed /\ SameId(j)
    BY <2>1, Zenon DEF SameId
  <2>3. \A j \in Slots : j \notin renamed' => j \notin renamed /\ DeviceId(j)' = DeviceId(j)
    BY <2>2, SameDeviceId
  <2> QED
    BY <2>1, <2>3, Zenon DEF ShownInv, RecordsStandUnderTheirId
<1> QED
  BY <1>1, <1>2, <1>3, <1>4, <1>5, <1>6, StepCases, Zenon DEF vars, slaveVars

LEMMA InitShown ==
  ASSUME Init
  PROVE  ShownInv /\ \A i \in Slots : ~ shown[i].is
BY NothingIsNot, Zenon DEF Init, ShownInv

(* A record stands under the id of the transmitter it came from until the   *)
(* host renames the slot: GetDeviceNumber finds the slot by the id that the *)
(* frame carries, and no store of a record touches an id register.          *)
THEOREM RecordsKeepTheirId == Spec => []RecordsStandUnderTheirId
<1> DEFINE I == HostInv /\ ThreadInv /\ RefusedIfAbsent /\ ShownInv /\ RecordsStandUnderTheirId
<1>1. Init => I
  BY InitHold, SlaveStarts, ThreadsInit, InitShown, Zenon DEF Init, RecordsStandUnderTheirId
<1>2. I /\ [Next]_vars => I'
  BY HostInvStep, ThreadStep, IdStep
<1> QED
  BY <1>1, <1>2, PTL DEF Spec

(* The words that the receive thread is storing are those of the frame that *)
(* shown tells.                                                             *)
WordInv ==
  rx.pc # "sleep" => /\ shown[rx.slot].is
                     /\ \A k \in 1 .. 3 : Shows(k, rx.word[k], shown[rx.slot])

(* Two threads in one record leave it mixed. *)
MixInv == \A i \in Slots : Saving(i) /\ Clearing(i) => i \in mixed

(* As RecordsShowMeasurements, for the registers that are already stored of *)
(* a record that is being stored too.                                       *)
ShowsInv ==
  \A i \in Slots, k \in 1 .. 3 : shown[i].is /\ (Saving(i) => k < rx.k) =>
    Shows(k, hold[Record(i)[k]], shown[i]) \/ (hold[Record(i)[k]] = 0 /\ Torn(i))

(* What has been cleared alone is 0, and so is what has no record. *)
ClearInv ==
  \A i \in Slots, k \in 1 .. 7 :
    Clearing(i) /\ i \notin mixed /\ k < chk.k => hold[Record(i)[k]] = 0
TraceInv == \A i \in Slots, k \in 1 .. 7 : ~ shown[i].is => hold[Record(i)[k]] = 0

RecordInv == WordInv /\ MixInv /\ ShowsInv /\ ClearInv /\ TraceInv

LEMMA FirstThree == \A k \in 1 .. 3 : k \in 1 .. 7
BY SMT

LEMMA RecordInvMeans ==
  ASSUME RecordInv
  PROVE  RecordsShowMeasurements /\ NoTraceWithoutRecord
<1>1. ASSUME NEW i \in Slots, NEW k \in 1 .. 7
      PROVE  Register(Record(i)[k]) = hold[Record(i)[k]]
  BY AddressesKept, Zenon DEF Register
<1>2. RecordsShowMeasurements
  <2>1. SUFFICES ASSUME NEW i \in Slots, NEW k \in 1 .. 3, shown[i].is, ~ Saving(i)
                 PROVE  \/ Shows(k, Register(Record(i)[k]), shown[i])
                        \/ Register(Record(i)[k]) = 0 /\ Torn(i)
    BY Zenon DEF RecordsShowMeasurements
  <2>2. Register(Record(i)[k]) = hold[Record(i)[k]]
    BY <1>1, FirstThree
  <2> QED
    BY <2>1, <2>2, Zenon DEF RecordInv, ShowsInv
<1>3. NoTraceWithoutRecord
  <2>1. SUFFICES ASSUME NEW i \in Slots, ~ shown[i].is, NEW a \in RecordAddrs(i)
                 PROVE  Register(a) = 0
    BY Zenon DEF NoTraceWithoutRecord
  <2>2. PICK k \in 1 .. 7 : a = Record(i)[k]
    BY Zenon DEF RecordAddrs
  <2>3. hold[Record(i)[k]] = 0
    BY <2>1, Zenon DEF RecordInv, TraceInv
  <2> QED
    BY <1>1, <2>2, <2>3
<1> QED
  BY <1>2, <1>3

LEMMA RecordsInit ==
  ASSUME Init
  PROVE  RecordInv
<1>1. \A i \in Slots : ~ shown[i].is
  BY InitShown
<1>2. \A i \in Slots, k \in 1 .. 7 : hold[Record(i)[k]] = 0
  BY AddressesKept, IdsApart, InitHold, Zenon
<1>3. rx.pc = "sleep" /\ chk.pc = "sleep"
  BY ThreadsStart, Zenon DEF Init
<1>4. "sleep" # "clear"
  OBVIOUS
<1> QED
  BY <1>1, <1>2, <1>3, <1>4, Zenon DEF RecordInv, WordInv, MixInv, ShowsInv, ClearInv, TraceInv,
                            Saving, Clearing

LEMMA FrameWordsShow ==
  ASSUME NEW id, NEW s \in Samples, NEW k \in 1 .. 3
  PROVE  Shows(k, FrameWords(s)[k], Measured(id, s))
<1> DEFINE w1 == TemperatureFormat(s.t)
           w2 == VoltageFormat(s.v)
           w3 == SignalFormat(s.rssi, s.lqi)
           m == Measured(id, s)
<1>1. TemperatureShown(w1, m.t) /\ VoltageShown(w2, m.v) /\ SignalShown(w3, m.rssi, m.lqi)
  BY WordsAreRight, MeasuredIs
<1>2. FrameWords(s)[1] = w1 /\ FrameWords(s)[2] = w2 /\ FrameWords(s)[3] = w3
  BY DEF FrameWords
<1> HIDE DEF w1, w2, w3, m
<1>3. Shows(1, w1, m) /\ Shows(2, w2, m) /\ Shows(3, w3, m)
  BY <1>1 DEF Shows
<1>4. k = 1 \/ k = 2 \/ k = 3
  BY SMT
<1> QED
  BY <1>2, <1>3, <1>4 DEF m

LEMMA AcceptedKeeps ==
  ASSUME ShownInv, RecordInv, NEW i \in Slots, NEW id, NEW s \in Samples, Accepted(i, id, s),
         UNCHANGED <<hold, chk>>
  PROVE  RecordInv'
<1>1. /\ shown'[i] = Measured(id, s) /\ \A j \in Slots : j # i => shown'[j] = shown[j]
  BY AcceptedShown
<1>2. /\ rx.pc = "sleep" /\ rx' = [pc |-> "store", slot |-> i, k |-> 1, word |-> FrameWords(s)]
      /\ mixed' = IF Clearing(i) THEN mixed \cup {i} ELSE mixed \ {i}
  BY Zenon DEF Accepted
<1>3. rx'.pc = "store" /\ rx'.slot = i /\ rx'.k = 1 /\ rx'.word = FrameWords(s)
  BY <1>2, Zenon
<1>4. /\ \A j \in Slots : Clearing(j)' <=> Clearing(j)
      /\ \A j \in Slots : Saving(j)' <=> j = i
      /\ \A j \in Slots : ~ Saving(j)
  BY <1>2, <1>3, Zenon DEF Clearing, Saving
<1>5. /\ Clearing(i) => i \in mixed'
      /\ \A j \in Slots : j # i => (j \in mixed' <=> j \in mixed)
  BY <1>2, Zenon
<1>6. \A j \in Slots : j # i => (Torn(j)' <=> Torn(j))
  BY <1>4, <1>5, Zenon DEF Torn
<1>7. WordInv'
  <2>1. Measured(id, s).is
    BY MeasuredIs
  <2>2. \A k \in 1 .. 3 : Shows(k, FrameWords(s)[k], Measured(id, s))
    BY FrameWordsShow
  <2>3. shown'[rx'.slot] = Measured(id, s) /\ rx'.word = FrameWords(s)
    BY <1>1, <1>3
  <2> QED
    BY <2>1, <2>2, <2>3, Zenon DEF WordInv
<1>8. MixInv'
  BY <1>4, <1>5, Zenon DEF MixInv
<1>9. ShowsInv'
  <2>1. SUFFICES ASSUME NEW j \in Slots, NEW k \in 1 .. 3, shown'[j].is, Saving(j)' => k < rx'.k
                 PROVE  \/ Shows(k, hold'[Record(j)[k]], shown'[j])
                        \/ hold'[Record(j)[k]] = 0 /\ Torn(j)'
    BY Zenon DEF ShowsInv
  <2>2. j # i
    <3>1. ~ (k < 1)
      BY SMT
    <3> QED
      BY <1>3, <1>4, <2>1, <3>1
  <2> QED
    BY <1>1, <1>4, <1>6, <2>1, <2>2, Zenon DEF RecordInv, ShowsInv
<1>10. ClearInv'
  BY <1>4, <1>5, Zenon DEF RecordInv, ClearInv
<1>11. TraceInv'
  <2>1. Measured(id, s).is
    BY MeasuredIs
  <2> QED
    BY <1>1, <2>1, Zenon DEF RecordInv, TraceInv
<1> QED
  BY <1>7, <1>8, <1>9, <1>10, <1>11 DEF RecordInv

(* Steps that change neither registers nor history nor the place of either  *)
(* thread.                                                                  *)
LEMMA SamePlaceKeeps ==
  ASSUME RecordInv, UNCHANGED <<hold, shown, mixed>>,
         \/ UNCHANGED rx
         \/ SameMeasurements,
         \/ UNCHANGED chk
         \/ chk.pc # "clear" /\ chk'.pc # "clear"
  PROVE  RecordInv'
<1>1. /\ \A j \in Slots : Saving(j)' <=> Saving(j)
      /\ \A j \in Slots : Clearing(j)' <=> Clearing(j)
      /\ \A j \in Slots : Clearing(j) => chk'.k = chk.k
      /\ rx'.k = rx.k
  BY Zenon DEF Saving, Clearing, SameMeasurements
<1>2. \A j \in Slots : Torn(j)' <=> Torn(j)
  BY <1>1, Zenon DEF Torn
<1>3. WordInv'
  <2>1. CASE UNCHANGED rx
    BY <2>1, Zenon DEF RecordInv, WordInv
  <2>2. CASE SameMeasurements
    <3>1. WordInv /\ shown' = shown
      BY Zenon DEF RecordInv
    <3> QED
      BY <2>2, <3>1, Zenon DEF WordInv, SameMeasurements
  <2> QED
    BY <2>1, <2>2
<1>4. MixInv' /\ TraceInv'
  BY <1>1, Zenon DEF RecordInv, MixInv, TraceInv
<1>5. ShowsInv'
  BY <1>1, <1>2, Zenon DEF RecordInv, ShowsInv
<1>6. ClearInv'
  BY <1>1, Zenon DEF RecordInv, ClearInv
<1> QED
  BY <1>3, <1>4, <1>5, <1>6 DEF RecordInv

(* The overtime thread begins to clear the record of slot i. *)
LEMMA BeginClearKeeps ==
  ASSUME RecordInv, NEW i \in Slots, UNCHANGED <<hold, shown, rx>>,
         chk.pc = "moment", chk'.pc = "clear", chk'.slot = i, chk'.k = 1,
         mixed' = IF Saving(i) THEN mixed \cup {i} ELSE mixed \ {i}
  PROVE  RecordInv'
<1>1. /\ \A j \in Slots : Saving(j)' <=> Saving(j)
      /\ \A j \in Slots : Clearing(j)' <=> j = i
      /\ \A j \in Slots : ~ Clearing(j)
  BY Zenon DEF Saving, Clearing
<1>2. /\ Saving(i) => i \in mixed'
      /\ \A j \in Slots : j # i => (j \in mixed' <=> j \in mixed)
  BY Zenon
<1>3. \A j \in Slots : Torn(j) => Torn(j)'
  BY <1>1, <1>2, Zenon DEF Torn
<1>4. WordInv' /\ TraceInv'
  BY Zenon DEF RecordInv, WordInv, TraceInv
<1>5. MixInv'
  BY <1>1, <1>2, Zenon DEF MixInv
<1>6. ShowsInv'
  <2>1. rx'.k = rx.k
    OBVIOUS
  <2> QED
    BY <1>1, <1>3, <2>1, Zenon DEF RecordInv, ShowsInv
<1>7. ClearInv'
  <2>1. \A k \in 1 .. 7 : ~ (k < 1)
    BY SMT
  <2> QED
    BY <2>1, Zenon DEF ClearInv
<1> QED
  BY <1>4, <1>5, <1>6, <1>7 DEF RecordInv

LEMMA SaveWordKeeps ==
  ASSUME HostInv, ThreadInv, RecordInv, SaveWord
  PROVE  RecordInv'
<1>0. PICK i \in Slots, n \in 1 .. 7 : i = rx.slot /\ n = rx.k
  BY SaveWordIs, Zenon
<1>1. /\ i \in Slots /\ n \in 1 .. 7 /\ hold'[Record(i)[n]] = rx.word[n]
      /\ \A b \in Stored : b # Record(i)[n] => hold'[b] = hold[b]
      /\ \/ n = 7 /\ rx' = Receiving
         \/ /\ n < 7 /\ rx'.k = n + 1 /\ rx'.slot = i /\ rx'.word = rx.word
            /\ rx'.pc \in {"store", "launchLo", "moment"}
  BY <1>0, SaveWordIs
<1>2. UNCHANGED <<chk, shown, mixed>> /\ rx.pc = "store"
  BY Zenon DEF SaveWord
<1>3. ASSUME NEW j \in Slots, NEW k \in 1 .. 7, j # i \/ k # n
      PROVE  hold'[Record(j)[k]] = hold[Record(j)[k]]
  <2>1. Record(j)[k] # Record(i)[n]
    BY <1>1, <1>3, RecordsApart
  <2> QED
    BY <1>1, <2>1, AddressesKept
<1>4. /\ \A j \in Slots : Saving(j)' => j = i
      /\ \A j \in Slots : Saving(j) <=> j = i
      /\ \A j \in Slots : Clearing(j)' <=> Clearing(j)
      /\ n < 7 => Saving(i)'
  <2>1. ~ (7 < 7)
    BY SMT
  <2>2. rx'.pc \in {"store", "launchLo", "moment"} => rx'.pc # "sleep"
    OBVIOUS
  <2>3. "store" # "sleep"
    OBVIOUS
  <2>4. Receiving.pc = "sleep"
    BY ThreadsStart
  <2> QED
    BY <1>0, <1>1, <1>2, <2>1, <2>2, <2>3, <2>4, Zenon DEF Saving, Clearing
<1>5. \A j \in Slots : Torn(j)' <=> Torn(j)
  BY <1>2, <1>4, Zenon DEF Torn
<1>6. shown[i].is /\ \A k \in 1 .. 3 : Shows(k, rx.word[k], shown[i])
  BY <1>0, <1>2, Zenon DEF RecordInv, WordInv
<1>7. WordInv'
  <2>1. CASE rx' = Receiving
    BY <2>1, ThreadsStart, Zenon DEF WordInv
  <2>2. CASE rx'.slot = i /\ rx'.word = rx.word
    BY <1>2, <1>6, <2>2, Zenon DEF WordInv
  <2> QED
    BY <1>1, <2>1, <2>2
<1>8. MixInv'
  BY <1>2, <1>4, Zenon DEF RecordInv, MixInv
<1>9. ShowsInv'
  <2>1. SUFFICES ASSUME NEW j \in Slots, NEW k \in 1 .. 3, shown'[j].is, Saving(j)' => k < rx'.k
                 PROVE  \/ Shows(k, hold'[Record(j)[k]], shown'[j])
                        \/ hold'[Record(j)[k]] = 0 /\ Torn(j)'
    BY Zenon DEF ShowsInv
  <2>2. CASE j = i /\ k = n
    BY <1>1, <1>2, <1>6, <2>2, Zenon
  <2>3. CASE j # i \/ k # n
    <3>1. Saving(j) => k < rx.k
      <4>1. SUFFICES ASSUME j = i PROVE k < n
        BY <1>0, <1>4
      <4>2. n = 7 \/ (k < n + 1 /\ k # n)
        BY <1>1, <1>4, <2>1, <2>3, <4>1
      <4> QED
        BY <1>1, <4>2, SMT
    <3>2. hold'[Record(j)[k]] = hold[Record(j)[k]]
      BY <1>3, <2>3, FirstThree
    <3> QED
      BY <1>2, <1>5, <2>1, <3>1, <3>2, Zenon DEF RecordInv, ShowsInv
  <2> QED
    BY <2>2, <2>3
<1>10. ClearInv'
  <2>1. ASSUME NEW j \in Slots, NEW k \in 1 .. 7, Clearing(j)', j \notin mixed', k < chk'.k
        PROVE  hold'[Record(j)[k]] = 0
    <3>1. Clearing(j) /\ j \notin mixed /\ k < chk.k
      BY <1>2, <1>4, <2>1
    <3>2. j # i
      BY <1>4, <3>1, Zenon DEF RecordInv, MixInv
    <3> QED
      BY <1>3, <3>1, <3>2, Zenon DEF RecordInv, ClearInv
  <2> QED
    BY <2>1, Zenon DEF ClearInv
<1>11. TraceInv'
  <2>1. ASSUME NEW j \in Slots, NEW k \in 1 .. 7, ~ shown'[j].is
        PROVE  hold'[Record(j)[k]] = 0
    <3>1. j # i /\ ~ shown[j].is
      BY <1>2, <1>6, <2>1
    <3> QED
      BY <1>3, <3>1, Zenon DEF RecordInv, TraceInv
  <2> QED
    BY <2>1, Zenon DEF TraceInv
<1> QED
  BY <1>7, <1>8, <1>9, <1>10, <1>11 DEF RecordInv

LEMMA ClearWordKeeps ==
  ASSUME HostInv, ThreadInv, ShownInv, RecordInv, ClearWord
  PROVE  RecordInv'
<1>0. PICK i \in Slots, n \in 1 .. 7 : i = chk.slot /\ n = chk.k
  BY ClearWordIs, Zenon
<1>1. /\ chk.pc = "clear" /\ i \in Slots /\ n \in 1 .. 7 /\ hold'[Record(i)[n]] = 0
      /\ \A b \in Stored : b # Record(i)[n] => hold'[b] = hold[b]
      /\ \/ n = 7 /\ chk' = Resting
         \/ n < 7 /\ chk'.k = n + 1 /\ chk'.slot = i /\ chk'.pc = "clear"
  BY <1>0, ClearWordIs
<1>2. /\ shown'[i] = IF n = 7 /\ i \notin mixed THEN Nothing ELSE shown[i]
      /\ \A j \in Slots : j # i => shown'[j] = shown[j]
  BY <1>0, ClearedShown
<1>3. UNCHANGED <<rx, mixed>>
  BY Zenon DEF ClearWord
<1>4. ASSUME NEW j \in Slots, NEW k \in 1 .. 7, j # i \/ k # n
      PROVE  hold'[Record(j)[k]] = hold[Record(j)[k]]
  <2>1. Record(j)[k] # Record(i)[n]
    BY <1>1, <1>4, RecordsApart
  <2> QED
    BY <1>1, <2>1, AddressesKept
<1>5. /\ \A j \in Slots : Saving(j)' <=> Saving(j)
      /\ \A j \in Slots : Clearing(j) <=> j = i
      /\ \A j \in Slots : Clearing(j)' => j = i
      /\ Clearing(i)' <=> n < 7
  <2>1. n = 7 => ~ (n < 7)
    BY SMT
  <2> QED
    BY <1>0, <1>1, <1>3, <2>1, ThreadsStart, Zenon DEF Saving, Clearing
<1>6. Saving(i) => i \in mixed
  BY <1>1, <1>5, Zenon DEF RecordInv, MixInv
<1>7. WordInv'
  <2>1. ASSUME rx.pc # "sleep"
        PROVE  shown'[rx.slot] = shown[rx.slot]
    <3>1. rx.slot \in Slots /\ Saving(rx.slot)
      BY <2>1, Zenon DEF ThreadInv, Saving
    <3> QED
      BY <1>2, <1>6, <3>1, Zenon
  <2> QED
    BY <1>3, <2>1, Zenon DEF RecordInv, WordInv
<1>8. MixInv'
  BY <1>3, <1>5, Zenon DEF RecordInv, MixInv
<1>9. shown'[i].is => shown'[i] = shown[i] /\ Torn(i)'
  <2>1. n < 7 \/ n = 7
    BY <1>1, SMT
  <2> QED
    BY <1>2, <1>3, <1>5, <2>1, NothingIsNot, Zenon DEF Torn
<1>10. ShowsInv'
  <2>1. SUFFICES ASSUME NEW j \in Slots, NEW k \in 1 .. 3, shown'[j].is, Saving(j)' => k < rx'.k
                 PROVE  \/ Shows(k, hold'[Record(j)[k]], shown'[j])
                        \/ hold'[Record(j)[k]] = 0 /\ Torn(j)'
    BY Zenon DEF ShowsInv
  <2>2. k \in 1 .. 7 /\ (Saving(j) => k < rx.k)
    BY <1>3, <1>5, <2>1, FirstThree
  <2>3. CASE j # i
    <3>1. Torn(j)' <=> Torn(j)
      BY <1>3, <1>5, <2>3, Zenon DEF Torn
    <3>2. hold'[Record(j)[k]] = hold[Record(j)[k]] /\ shown'[j] = shown[j]
      BY <1>2, <1>4, <2>2, <2>3
    <3> QED
      BY <2>1, <2>2, <3>1, <3>2, Zenon DEF RecordInv, ShowsInv
  <2>4. CASE j = i /\ k = n
    BY <1>1, <1>9, <2>1, <2>4
  <2>5. CASE j = i /\ k # n
    <3>1. hold'[Record(j)[k]] = hold[Record(j)[k]] /\ shown'[j] = shown[j] /\ Torn(j)'
      BY <1>4, <1>9, <2>1, <2>2, <2>5
    <3> QED
      BY <2>1, <2>2, <3>1, Zenon DEF RecordInv, ShowsInv
  <2> QED
    BY <2>3, <2>4, <2>5
<1>11. ASSUME NEW k \in 1 .. 7, i \notin mixed, k < n
       PROVE  hold'[Record(i)[k]] = 0
  <2>1. k # n
    BY <1>1, <1>11, SMT
  <2>2. hold[Record(i)[k]] = 0
    BY <1>0, <1>1, <1>5, <1>11, Zenon DEF RecordInv, ClearInv
  <2> QED
    BY <1>1, <1>4, <2>1, <2>2
<1>12. ClearInv'
  <2>1. ASSUME NEW j \in Slots, NEW k \in 1 .. 7, Clearing(j)', j \notin mixed', k < chk'.k
        PROVE  hold'[Record(j)[k]] = 0
    <3>1. j = i /\ n < 7 /\ i \notin mixed
      BY <1>3, <1>5, <2>1
    <3>2. chk'.k = n + 1
      BY <1>1, <3>1, SMT
    <3>3. k < n \/ k = n
      BY <1>1, <2>1, <3>2, SMT
    <3> QED
      BY <1>1, <1>11, <3>1, <3>3
  <2> QED
    BY <2>1, Zenon DEF ClearInv
<1>13. TraceInv'
  <2>1. ASSUME NEW j \in Slots, NEW k \in 1 .. 7, ~ shown'[j].is
        PROVE  hold'[Record(j)[k]] = 0
    <3>1. CASE j # i
      BY <1>2, <1>4, <2>1, <3>1, Zenon DEF RecordInv, TraceInv
    <3>2. CASE j = i /\ k = n
      BY <1>1, <3>2
    <3>3. CASE j = i /\ k # n /\ ~ shown[i].is
      BY <1>4, <3>3, Zenon DEF RecordInv, TraceInv
    <3>4. CASE j = i /\ k # n /\ n = 7 /\ i \notin mixed
      <4>1. k < n
        BY <3>4, SMT
      <4> QED
        BY <1>11, <3>4, <4>1
    <3> QED
      BY <1>2, <2>1, <3>1, <3>2, <3>3, <3>4, Zenon
  <2> QED
    BY <2>1, Zenon DEF TraceInv
<1> QED
  BY <1>7, <1>8, <1>10, <1>12, <1>13 DEF RecordInv

(* The host leaves the measurements of every slot alone, and the other      *)
(* registers of a record that are 0 stay 0.                                 *)
LEMMA SparedRecords ==
  ASSUME SparesRecords, HostInv, SlaveNext, NEW i \in Slots
  PROVE  /\ \A k \in 1 .. 3 : hold'[Record(i)[k]] = hold[Record(i)[k]]
         /\ \A k \in 1 .. 7 : hold[Record(i)[k]] = 0 => hold'[Record(i)[k]] = 0
<1>1. ASSUME NEW k \in 1 .. 3, hold'[Record(i)[k]] # hold[Record(i)[k]]
      PROVE  FALSE
  <2> DEFINE a == Record(i)[k]
  <2>1. a \in Stored
    BY AddressesKept, FirstThree
  <2>2. \E r \in HostRequests : \E j \in 1 .. WriteCount(r) :
          /\ WritesWords(r) /\ ~ SentBack(r) /\ Exception(r) = 0
          /\ WriteAddr(r) + j - 1 = a
    BY <1>1, <2>1, SlaveStores
  <2>3. a \in {TemperatureAddr(i), VoltageAddr(i), StatusAddr(i)}
    <3>1. k = 1 \/ k = 2 \/ k = 3
      BY SMT
    <3> QED
      BY <3>1, RecordIs, Zenon
  <2> HIDE DEF a
  <2> QED
    BY <2>2, <2>3, Zenon DEF SparesRecords
<1>2. ASSUME NEW k \in 1 .. 7, hold[Record(i)[k]] = 0,
             hold'[Record(i)[k]] # hold[Record(i)[k]]
      PROVE  hold'[Record(i)[k]] = 0
  <2> DEFINE a == Record(i)[k]
  <2>1. a \in Stored /\ a \in RecordAddrs(i)
    BY AddressesKept, Zenon DEF RecordAddrs
  <2>2. hold[a] = 0 /\ hold'[a] # hold[a]
    BY <1>2
  <2> HIDE DEF a
  <2>3. Register(a) = 0
    BY <2>1, <2>2, Zenon DEF Register
  <2>4. PICK r \in HostRequests : \E j \in 1 .. WriteCount(r) :
          /\ WritesWords(r) /\ ~ SentBack(r) /\ Exception(r) = 0
          /\ WriteAddr(r) + j - 1 = a
          /\ \E q \in Nat : hold'[a] = StoredByte(a, q, r.data[j])
    BY <2>1, <2>2, SlaveStores
  <2>5. PICK j \in 1 .. WriteCount(r) :
          /\ WritesWords(r) /\ ~ SentBack(r) /\ Exception(r) = 0
          /\ WriteAddr(r) + j - 1 = a
          /\ \E q \in Nat : hold'[a] = StoredByte(a, q, r.data[j])
    BY <2>4
  <2>6. r.data[j] = 0
    BY <2>1, <2>5, Zenon DEF SparesRecords
  <2>7. hold'[a] = 0
    BY <2>3, <2>5, <2>6, StoredZero, Zenon
  <2> QED
    BY <2>7 DEF a
<1> QED
  BY <1>1, <1>2, Zenon

LEMMA HostKeeps ==
  ASSUME SparesRecords, HostInv, RecordInv, HostNext
  PROVE  RecordInv'
<1>1. /\ rx.pc = "sleep" /\ chk.pc = "sleep" /\ SlaveNext /\ UNCHANGED <<rx, chk, shown, mixed>>
  BY Zenon DEF HostNext
<1>2. /\ \A j \in Slots : ~ Saving(j)' /\ ~ Saving(j)
      /\ \A j \in Slots : ~ Clearing(j)' /\ ~ Clearing(j)
  BY <1>1, Zenon DEF Saving, Clearing
<1>3. \A j \in Slots : Torn(j)' <=> Torn(j)
  BY <1>1, <1>2, Zenon DEF Torn
<1>4. ASSUME NEW j \in Slots
      PROVE  /\ \A k \in 1 .. 3 : hold'[Record(j)[k]] = hold[Record(j)[k]]
             /\ \A k \in 1 .. 7 : hold[Record(j)[k]] = 0 => hold'[Record(j)[k]] = 0
  BY <1>1, SparedRecords
<1>5. WordInv' /\ MixInv' /\ ClearInv'
  BY <1>1, <1>2, Zenon DEF WordInv, MixInv, ClearInv
<1>6. ShowsInv'
  BY <1>1, <1>2, <1>3, <1>4, Zenon DEF RecordInv, ShowsInv
<1>7. TraceInv'
  BY <1>1, <1>4, Zenon DEF RecordInv, TraceInv
<1> QED
  BY <1>5, <1>6, <1>7 DEF RecordInv

LEMMA RecordsStep ==
  ASSUME SparesRecords, HostInv, ThreadInv, ShownInv, RecordInv, [Next]_vars
  PROVE  RecordInv'
<1>1. CASE UNCHANGED vars
  BY <1>1, SamePlaceKeeps, Zenon DEF vars, slaveVars
<1>2. ASSUME NEW id \in Ids, NEW s \in Samples, NEW how \in Damages, HandleFrame(id, s, how)
      PROVE  RecordInv'
  <2>1. /\ UNCHANGED <<hold, chk>>
        /\ UNCHANGED <<rx, shown, mixed>> \/ \E i \in Slots : Accepted(i, id, s)
    BY <1>2, FrameStep, Zenon DEF slaveVars
  <2> QED
    BY <2>1, SamePlaceKeeps, AcceptedKeeps, Zenon
<1>3. CASE LoadLaunch \/ \E now \in Nat : TakeMoment(now)
  BY <1>3, LoadLaunchIs, TakeMomentIs, SamePlaceKeeps, Zenon DEF slaveVars
<1>4. ASSUME NEW i \in Slots, CheckSlot(i)
      PROVE  RecordInv'
  <2>1. chk.pc = "sleep" /\ chk'.pc = "moment" /\ UNCHANGED <<hold, rx, shown, mixed>>
    BY <1>4, CheckSlotIs, Zenon DEF slaveVars
  <2>2. chk.pc # "clear" /\ chk'.pc # "clear"
    BY <2>1
  <2> QED
    BY <2>1, <2>2, SamePlaceKeeps, Zenon
<1>5. CASE CheckMoment
  <2>1. /\ UNCHANGED <<hold, rx, shown>>
        /\ \/ chk' = Resting /\ chk.pc = "moment" /\ UNCHANGED mixed
           \/ /\ chk.pc = "moment" /\ chk.slot \in Slots
              /\ chk'.pc = "clear" /\ chk'.slot = chk.slot /\ chk'.k = 1
              /\ mixed' = IF Saving(chk.slot) THEN mixed \cup {chk.slot}
                                              ELSE mixed \ {chk.slot}
    BY <1>5, CheckMomentIs, Zenon DEF slaveVars
  <2>2. CASE chk' = Resting /\ chk.pc = "moment" /\ UNCHANGED mixed
    <3>1. chk.pc # "clear" /\ chk'.pc # "clear"
      BY <2>2, ThreadsStart
    <3> QED
      BY <2>1, <2>2, <3>1, SamePlaceKeeps, Zenon
  <2> QED
    BY <2>1, <2>2, BeginClearKeeps, Zenon
<1> QED
  BY <1>1, <1>2, <1>3, <1>4, <1>5, SaveWordKeeps, ClearWordKeeps, HostKeeps, StepCases, Zenon

(* The host finds in every record what its transmitter measured, for every  *)
(* value of the converters and every byte of RSSI and LQI: the frame        *)
(* carries the values, CalculateTemperature and its kin are monotonous and  *)
(* their formats reversible, the layout of DataFrame.h gives every register *)
(* one use.  Where the two threads met in a record, each register is right  *)
(* or 0.  The host does not write over measurements.                        *)
THEOREM RecordsAreRight == SparesRecords => (Spec => []RecordsShowMeasurements)
<1> SUFFICES ASSUME SparesRecords PROVE Spec => []RecordsShowMeasurements
  OBVIOUS
<1> DEFINE I == HostInv /\ ThreadInv /\ RefusedIfAbsent /\ ShownInv
                  /\ RecordsStandUnderTheirId /\ RecordInv
<1>1. Init => I
  BY InitHold, SlaveStarts, ThreadsInit, InitShown, RecordsInit, Zenon
     DEF Init, RecordsStandUnderTheirId
<1>2. I /\ [Next]_vars => I'
  BY HostInvStep, ThreadStep, IdStep, RecordsStep
<1>3. I => RecordsShowMeasurements
  BY RecordInvMeans
<1> QED
  BY <1>1, <1>2, <1>3, PTL DEF Spec

(* Damaged frames, records cleared while the receive thread stayed out of   *)
(* them, and the records of other slots leave nothing behind in the         *)
(* registers of a slot: the sum finds a changed byte, and the overtime      *)
(* thread clears all seven registers, one by one.                           *)
THEOREM NoTraces == SparesRecords => (Spec => []NoTraceWithoutRecord)
<1> SUFFICES ASSUME SparesRecords PROVE Spec => []NoTraceWithoutRecord
  OBVIOUS
<1> DEFINE I == HostInv /\ ThreadInv /\ RefusedIfAbsent /\ ShownInv
                  /\ RecordsStandUnderTheirId /\ RecordInv
<1>1. Init => I
  BY InitHold, SlaveStarts, ThreadsInit, InitShown, RecordsInit, Zenon
     DEF Init, RecordsStandUnderTheirId
<1>2. I /\ [Next]_vars => I'
  BY HostInvStep, ThreadStep, IdStep, RecordsStep
<1>3. I => NoTraceWithoutRecord
  BY RecordInvMeans
<1> QED
  BY <1>1, <1>2, <1>3, PTL DEF Spec
===============================================================================
