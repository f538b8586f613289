-------------------------------- MODULE Frame --------------------------------
(***************************************************************************)
(* A transmitter's frame of 12 bytes, what DataFrameAnalysis makes of it,  *)
(* and the words the Save functions put into the holding registers.        *)
(*                                                                         *)
(* The sensor formulas are kept in integers.  For each of the 1024 values  *)
(* of the converter, truncation to tenths and to degrees comes out as with *)
(* the float arithmetic of the code.                                       *)
(***************************************************************************)
EXTENDS Integers, Sequences

Bytes == 0 .. 255
Words == 0 .. 65535

(* (data[0] << 8) + data[1] *)
Word(hi, lo) == 256 * hi + lo

(* The largest value of the transmitters' converters, the 1023 of both      *)
(* formulas.                                                                *)
AdcMax == 1023

-----------------------------------------------------------------------------
(* DataFrameAnalysis *)

(* A plausible slip: one byte too few enters the sum. *)
SumOfFirstNine(f) ==
  LET sum[n \in 0 .. 9] == IF n = 0 THEN 0 ELSE (sum[n - 1] + f[n]) % 65536 IN sum[9]

(* The sum of all bytes but the last two, in a uint16_t. *)
Sum(f) ==
  LET sum[n \in 0 .. 10] == IF n = 0 THEN 0 ELSE (sum[n - 1] + f[n]) % 65536 IN sum[10]

CheckSum(f) == IF f[11] = Sum(f) \div 256 /\ f[12] = Sum(f) % 256 THEN 0 ELSE 1

(* 0: a good frame, 1: a wrong sum, 2: a wrong head. *)
DataFrameAnalysis(f) == IF f[1] = 90 THEN CheckSum(f) ELSE 2

(* The 32-bit id, kept as the two words that the id registers hold. *)
CalculateDeviceId(f) == [hi |-> Word(f[3], f[4]), lo |-> Word(f[5], f[6])]

TemperatureRaw(f) == Word(f[7], f[8])
VoltageRaw(f)     == Word(f[9], f[10])

-----------------------------------------------------------------------------
(* Temperature *)

(* CalculateTemperature solves                                              *)
(*     2500 raw / 1023 = 870.6 - 5.506 (t - 30) - 0.00176 (t - 30)^2        *)
(* for t.  The largest raw whose t is at least k tenths of a degree: the    *)
(* right-hand side times 625000, then times 1023 / (2500 * 625000).         *)
WarmestRaw(k) ==
  LET d  == k - 300
      mv == 544125000 - 344125 * d - 11 * d * d
  IN  (1023 * (mv \div 10000) + (1023 * (mv % 10000)) \div 10000) \div 156250

AtLeastTenths(raw, k) == raw <= WarmestRaw(k)

(* The temperature of every converter value, rounded down to a tenth: first *)
(* the degree, then the tenth.                                              *)
CalculateTemperature ==
  [raw \in 0 .. AdcMax |->
     LET d == CHOOSE d \in -301 .. 185 :
                AtLeastTenths(raw, 10 * d) /\ ~ AtLeastTenths(raw, 10 * d + 10)
     IN  CHOOSE k \in (10 * d) .. (10 * d + 9) :
           AtLeastTenths(raw, k) /\ ~ AtLeastTenths(raw, k + 1)]

(* A plausible slip: temperatures below zero lose their sign. *)
TemperatureFormatUnsigned(raw) ==
  LET k == CalculateTemperature[raw] IN IF k >= 0 THEN k ELSE 10 * ((-k - 1) \div 10)

(* SaveTemperature: tenths of a degree above zero; below, 2000 and ten      *)
(* times the degrees, since temp is an int16_t.  Nothing is checked: below  *)
(* -50 degrees the word goes on beyond 2500.                                *)
TemperatureFormat(raw) ==
  LET k == CalculateTemperature[raw] IN
  IF k >= 0 THEN k ELSE 2000 + 10 * ((-k - 1) \div 10)

-----------------------------------------------------------------------------
(* Voltage and signal strength *)

(* CalculateVolatge and SaveVoltage: millivolts. *)
VoltageFormat(raw) == (5000 * raw) \div 1023

(* The conversion of a number to int8_t. *)
Int8(n) == ((n + 128) % 256) - 128

(* A plausible slip: the byte is halved before its sign is looked at. *)
RssiUnsigned(v) == (v \div 2) - 75

(* CalculateSignalStrength: v half dBm in two's complement, offset 75, in   *)
(* an int8_t; C division rounds towards zero.                               *)
Rssi(v) == IF v >= 128 THEN Int8(-((256 - v) \div 2) - 75) ELSE (v \div 2) - 75
Lqi(v)  == v % 128

(* SaveSignalStrength: (RSSI << 8) + LQI in a register. *)
SignalFormat(rssi, lqi) == (256 * Rssi(rssi) + Lqi(lqi)) % 65536

-----------------------------------------------------------------------------
(* What the host makes of the words, by the formats the comments give. *)

HostTenths(w)  == IF w < 2000 THEN w ELSE 2000 - w
HostBelowZero(w) == w >= 2000
HostRssi(w)    == Int8(w \div 256)
HostLqi(w)     == w % 256

(* The strength v stands for, -139 to -12. *)
Dbm(v) == (IF v >= 128 THEN -((256 - v) \div 2) ELSE v \div 2) - 75
=============================================================================
