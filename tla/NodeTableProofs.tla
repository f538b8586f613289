--------------------------- MODULE NodeTableProofs ---------------------------
(***************************************************************************)
(* What NodeTable guarantees for every number of slots, every register     *)
(* width, every overtime and every set of transmitters.                    *)
(***************************************************************************)
EXTENDS NodeTable, TLAPS

-----------------------------------------------------------------------------
(* Arithmetic of 32-bit values kept in two words. *)

(* The remainder of an unsigned reduction is below its modulus. *)
LEMMA ModRange ==
  ASSUME NEW a \in Nat, NEW b \in Nat \ {0}
  PROVE  a % b \in 0 .. (b - 1)
BY SMT

(* Multiplication by a word is monotonic. *)
LEMMA TimesMonotonic ==
  ASSUME NEW w \in Nat, NEW a \in Nat, NEW b \in Nat, a <= b
  PROVE  w * a <= w * b /\ w * a \in Nat /\ w * b \in Nat
BY SMT

(* There is at least one uint32_t value, and both words fit in it. *)
LEMMA TimePositive == Time \in Nat \ {0} /\ Word \in Nat \ {0}
BY TableAssumption, SMT DEF Time

(* Two words make a uint32_t. *)
LEMMA ValueRange ==
  ASSUME NEW lo \in Regs, NEW hi \in Regs
  PROVE  lo + Word * hi \in 0 .. (Time - 1)
<1>1. Word \in Nat \ {0} BY TimePositive
<1>2. lo \in Nat /\ hi \in Nat /\ lo <= Word - 1 /\ hi <= Word - 1 /\ Word - 1 \in Nat
  BY <1>1 DEF Regs
<1>3. Word * hi <= Word * (Word - 1) /\ Word * hi \in Nat
  BY <1>1, <1>2, TimesMonotonic
<1>4. Word * (Word - 1) = Word * Word - Word
  BY <1>1, SMT
<1>5. Word * Word \in Nat BY <1>1, SMT
<1> QED BY <1>1, <1>2, <1>3, <1>4, <1>5 DEF Time

(* Lo and Hi store words. *)
LEMMA WordRange ==
  ASSUME NEW v \in Nat
  PROVE  Lo(v) \in Regs /\ Hi(v) \in Regs
<1>1. Word \in Nat \ {0} BY TimePositive
<1>2. v \div Word \in Nat BY <1>1, SMT
<1> QED BY <1>1, <1>2, ModRange DEF Lo, Hi, Regs

-----------------------------------------------------------------------------
(* Type correctness *)

(* The registers, threads and counters start within their types. *)
LEMMA InitTypeOK == Init => TypeOK
<1> SUFFICES ASSUME Init PROVE TypeOK OBVIOUS
<1>1. 0 \in Regs /\ 0 \in Slots /\ 0 \in 0 .. (Time - 1) /\ 0 \in 0 .. Time
  BY TimePositive, TableAssumption DEF Regs, Slots
<1>2. QuietMax \in Nat BY TableAssumption DEF QuietMax
<1>3. [lo |-> 0, hi |-> 0] \in Pair BY <1>1 DEF Pair
<1>4. /\ ids \in [Slots -> Pair] /\ launch \in [Slots -> Pair] /\ moment \in [Slots -> Pair]
      /\ temp \in [Slots -> 0 .. Time] /\ volt \in [Slots -> 0 .. Time]
      /\ stat \in [Slots -> 0 .. Time]
      /\ saves \in [Slots -> Nat] /\ quiet \in [Slots -> 0 .. QuietMax]
  BY <1>1, <1>2, <1>3 DEF Init
<1>5. /\ now \in 0 .. (Time - 1) /\ timer \in BOOLEAN
      /\ passTicks \in Nat /\ saveTicks \in Nat /\ received \in Nat
      /\ rx \in RxType
      /\ chk \in ChkType
  BY <1>1 DEF Init, RxType, ChkType, RxPCs, SavePCs, ChkPCs, ClearPCs
<1> QED BY <1>4, <1>5 DEF TypeOK

(* The end of the receive loop keeps rx within its type. *)
LEMMA SleepType == rx \in RxType /\ RxSleep => rx' \in RxType
<1> SUFFICES ASSUME rx \in RxType, RxSleep PROVE rx' \in RxType OBVIOUS
<1>1. "delay" \in RxPCs BY DEF RxPCs
<1>2. FALSE \in BOOLEAN OBVIOUS
<1> QED BY <1>1, <1>2 DEF RxType, RxSleep

(* Every step of the threads, the timer and the configuration keeps the type. *)
LEMMA NextTypeOK == TypeOK /\ [Next]_vars => TypeOK'
<1> SUFFICES ASSUME TypeOK, [Next]_vars PROVE TypeOK'
  OBVIOUS
<1> USE TimePositive
<1> USE DEF TypeOK, RxType, ChkType, RxPCs, SavePCs, ChkPCs, ClearPCs, regs, bounds, history
<1>1. ASSUME NEW d \in Devices, NEW ret \in 0 .. 2, ReceivePacket(d, ret)
      PROVE  TypeOK'
  <2>1. d \in 0 .. (Time - 1) BY TableAssumption
  <2>2. rx' \in RxType
    <3>1. CASE ret = 0 BY <1>1, <2>1, <3>1, ZenonT(60) DEF ReceivePacket, RxType
    <3>2. CASE ret # 0 BY <1>1, <3>2, SleepType DEF ReceivePacket
    <3> QED BY <3>1, <3>2
  <2> QED BY <1>1, <2>2 DEF ReceivePacket
<1>2. CASE GetDeviceNumber
  <2>1. CASE RxSleep /\ UNCHANGED saves
    BY <1>2, <2>1, SleepType DEF GetDeviceNumber
  <2>2. ASSUME NEW i \in Slots,
               rx' = [rx EXCEPT !.pc = "temp", !.slot = i],
               saves' = [saves EXCEPT ![i] = @ + 1]
        PROVE  TypeOK'
    <3>1. UNCHANGED <<now, timer, ids, temp, volt, stat, launch, moment, chk,
                      passTicks, saveTicks, received, quiet>>
      BY <1>2 DEF GetDeviceNumber
    <3>2. rx' \in RxType BY <2>2
    <3>3. saves' \in [Slots -> Nat] BY <2>2
    <3> QED BY <3>1, <3>2, <3>3
  <2> QED BY <1>2, <2>1, <2>2 DEF GetDeviceNumber
<1>3. CASE SaveTemperature
  <2>1. Reading(rx.dev) \in 0 .. Time BY DEF Reading
  <2>2. QuietMax \in Nat BY TableAssumption DEF QuietMax
  <2> QED BY <1>3, <2>1, <2>2 DEF SaveTemperature, Saved, RxGoto
<1>4. CASE SaveVoltage
  <2>1. Reading(rx.dev) \in 0 .. Time BY DEF Reading
  <2> QED BY <1>4, <2>1 DEF SaveVoltage, Saved, RxGoto
<1>5. CASE SaveSignalStrength
  <2>1. Reading(rx.dev) \in 0 .. Time BY DEF Reading
  <2> QED BY <1>5, <2>1 DEF SaveSignalStrength, Saved, RxGoto
<1>6. CASE LoadLaunchLo
  BY <1>6 DEF LoadLaunchLo, Pair
<1>7. CASE LoadLaunchHi
  <2>1. rx.lo + Word * launch[rx.slot].hi \in 0 .. (Time - 1)
    BY ValueRange DEF Pair
  <2>2. rx.lo + Word * launch[rx.slot].hi + 1 \in Nat BY <2>1
  <2>3. (rx.lo + Word * launch[rx.slot].hi + 1) % Time \in 0 .. (Time - 1)
    BY <2>2, ModRange, Zenon
  <2> QED BY <1>7, <2>3 DEF LoadLaunchHi
<1>8. CASE StoreLaunchLo
  <2>1. Lo(rx.launchNumber) \in Regs BY WordRange
  <2> QED BY <1>8, <2>1, ZenonT(60) DEF StoreLaunchLo, Saved, RxGoto, Pair
<1>9. CASE StoreLaunchHi
  <2>1. Hi(rx.launchNumber) \in Regs BY WordRange
  <2> QED BY <1>9, <2>1, ZenonT(60) DEF StoreLaunchHi, Saved, RxGoto, Pair
<1>10. CASE SampleReceiveTime
  BY <1>10 DEF SampleReceiveTime
<1>11. CASE StoreMomentLo
  <2>1. Lo(rx.receiveTime) \in Regs BY WordRange
  <2> QED BY <1>11, <2>1, ZenonT(60) DEF StoreMomentLo, Saved, RxGoto, Pair
<1>12. CASE StoreMomentHi
  <2>1. Hi(rx.receiveTime) \in Regs BY WordRange
  <2>2. QuietMax \in Nat BY TableAssumption DEF QuietMax
  <2>3. moment' \in [Slots -> Pair]
    BY <1>12, <2>1, SMTT(30) DEF StoreMomentHi, Saved, Pair
  <2>4. quiet' \in [Slots -> 0 .. QuietMax]
    BY <1>12, <2>2 DEF StoreMomentHi
  <2>5. rx' \in RxType
    BY <1>12, SleepType DEF StoreMomentHi
  <2> QED BY <1>12, <2>3, <2>4, <2>5 DEF StoreMomentHi
<1> DEFINE NextOK == chk' \in ChkType
<1>13. ASSUME NextSlot PROVE NextOK
  <2>1. N \in Nat \ {0} BY TableAssumption
  <2>2. chk.i + 1 \in Nat BY SMTT(30) DEF Slots
  <2>3. (chk.i + 1) % N \in 0 .. (N - 1) BY <2>1, <2>2, ModRange, Zenon
  <2> QED BY <1>13, <2>3 DEF NextSlot, Slots
<1>14. CASE TimerInit
  BY <1>14, TableAssumption DEF TimerInit, ChkGoto
<1>15. CASE StartPass
  BY <1>15 DEF StartPass, ChkGoto
<1>16. CASE LoadMomentLo
  BY <1>16 DEF LoadMomentLo, Pair
<1>17. CASE LoadMomentHi
  <2>1. chk.lo + Word * moment[chk.i].hi \in 0 .. (Time - 1)
    BY ValueRange DEF Pair
  <2>2. NextOK BY <1>13, <1>17, <2>1 DEF LoadMomentHi
  <2> QED BY <1>17, <2>2 DEF LoadMomentHi
<1>18. CASE CheckOvertime
  <2>2. NextOK BY <1>13, <1>18 DEF CheckOvertime, ChkGoto
  <2> QED BY <1>18, <2>2 DEF CheckOvertime
<1>19. 0 \in Regs BY DEF Regs
<1>20. CASE ClearTemperature BY <1>20 DEF ClearTemperature, ChkGoto
<1>21. CASE ClearVoltage BY <1>21 DEF ClearVoltage, ChkGoto
<1>22. CASE ClearSignalStrength BY <1>22 DEF ClearSignalStrength, ChkGoto
<1>23. CASE ClearLaunchLo BY <1>23, <1>19, ZenonT(60) DEF ClearLaunchLo, ChkGoto, Pair
<1>24. CASE ClearLaunchHi BY <1>24, <1>19, ZenonT(60) DEF ClearLaunchHi, ChkGoto, Pair
<1>25. CASE ClearMomentLo BY <1>25, <1>19, ZenonT(60) DEF ClearMomentLo, ChkGoto, Pair
<1>26. CASE ClearMomentHi
  BY <1>26, <1>19, <1>13, ZenonT(60) DEF ClearMomentHi, Pair
<1>27. CASE NodeOvertimeTiming
  <2>1. QuietMax \in Nat BY TableAssumption DEF QuietMax
  <2>2. now + 1 \in Nat OBVIOUS
  <2>3. (now + 1) % Time \in 0 .. (Time - 1) BY <2>2, ModRange, Zenon
  <2> QED BY <1>27, <2>1, <2>3 DEF NodeOvertimeTiming
<1>28. ASSUME NEW i \in Slots, NEW half \in {"lo", "hi"}, NEW w \in IdWords,
              StoreDeviceIdWord(i, half, w)
       PROVE  TypeOK'
  BY <1>28, TableAssumption DEF StoreDeviceIdWord, Pair, Regs
<1>29. CASE UNCHANGED vars
  BY <1>29 DEF vars
<1> QED
  BY <1>1, <1>2, <1>3, <1>4, <1>5, <1>6, <1>7, <1>8, <1>9, <1>10, <1>11, <1>12,
     <1>14, <1>15, <1>16, <1>17, <1>18, <1>20, <1>21, <1>22, <1>23, <1>24,
     <1>25, <1>26, <1>27, <1>28, <1>29
     DEF Next, RxStep, ChkStep, Configure

(* Every register, local and counter of the two threads keeps its type and  *)
(* range: no step stores outside a 16-bit word or indexes outside the table. *)
THEOREM TypeCorrect == Spec => []TypeOK
BY InitTypeOK, NextTypeOK, PTL DEF Spec

-----------------------------------------------------------------------------
(* A record goes to the slot of its id *)

(* SavesUnderItsId is not inductive alone: the data is valid already when   *)
(* GetDeviceNumber starts.                                                  *)
IdInv ==
  /\ rx.pc = "lookup" => rx.valid
  /\ SavesUnderItsId

(* IdInv is inductive: between the lookup and the last store no step changes *)
(* the ids or what rx found.                                                *)
LEMMA NextIdInv == TypeOK /\ IdInv /\ [Next]_vars => IdInv'
<1> SUFFICES ASSUME TypeOK, IdInv, [Next]_vars PROVE IdInv'
  OBVIOUS
<1> USE DEF IdInv, SavesUnderItsId, SavePCs
<1>1. rx \in RxType BY DEF TypeOK
(* Steps of the other contexts leave rx and the ids alone. *)
<1>2. ASSUME UNCHANGED <<rx, ids>> PROVE IdInv'
  BY <1>2
(* Steps that put rx to sleep leave nothing to show. *)
<1>3. ASSUME rx'.pc = "delay" PROVE IdInv'
  BY <1>3
(* Steps from one store to the next keep the slot, the device and the flag. *)
<1>4. ASSUME rx.pc \in SavePCs, UNCHANGED ids, rx'.pc \in SavePCs,
             rx'.valid = rx.valid, rx'.dev = rx.dev, rx'.slot = rx.slot
      PROVE  IdInv'
  BY <1>4
<1>5. ASSUME NEW d \in Devices, NEW ret \in 0 .. 2, ReceivePacket(d, ret)
      PROVE  IdInv'
  <2>1. CASE ret = 0 BY <1>1, <1>5, <2>1 DEF ReceivePacket, RxType
  <2>2. CASE ret # 0 BY <1>1, <1>3, <1>5, <2>2 DEF ReceivePacket, RxSleep, RxType
  <2> QED BY <2>1, <2>2
<1>6. CASE GetDeviceNumber
  <2>1. CASE RxSleep BY <1>1, <1>3, <2>1 DEF RxSleep, RxType
  <2>2. ASSUME NEW i \in Slots, IsFirstMatch(i, rx.dev),
               rx' = [rx EXCEPT !.pc = "temp", !.slot = i]
        PROVE  IdInv'
    <3>1. Value(ids[i]) = rx.dev BY <2>2 DEF IsFirstMatch, Matches
    <3>2. \A j \in 0 .. (i - 1) : Value(ids[j]) # rx.dev
      BY <2>2, TableAssumption DEF IsFirstMatch, Matches, Slots
    <3>3. ids' = ids BY <1>6 DEF GetDeviceNumber, regs
    <3>4. rx.valid BY <1>6 DEF GetDeviceNumber
    <3>5. rx'.pc = "temp" /\ rx'.slot = i /\ rx'.dev = rx.dev /\ rx'.valid = rx.valid
      BY <1>1, <2>2 DEF RxType
    <3> QED BY <3>1, <3>2, <3>3, <3>4, <3>5
  <2> QED BY <1>6, <2>1, <2>2 DEF GetDeviceNumber
<1>7. CASE SaveTemperature BY <1>1, <1>4, <1>7 DEF SaveTemperature, RxGoto, RxType
<1>8. CASE SaveVoltage BY <1>1, <1>4, <1>8 DEF SaveVoltage, RxGoto, RxType
<1>9. CASE SaveSignalStrength
  BY <1>1, <1>4, <1>9 DEF SaveSignalStrength, RxGoto, RxType
<1>10. CASE LoadLaunchLo BY <1>1, <1>4, <1>10 DEF LoadLaunchLo, RxType, regs
<1>11. CASE LoadLaunchHi BY <1>1, <1>4, <1>11 DEF LoadLaunchHi, RxType, regs
<1>12. CASE StoreLaunchLo BY <1>1, <1>4, <1>12 DEF StoreLaunchLo, RxGoto, RxType
<1>13. CASE StoreLaunchHi BY <1>1, <1>4, <1>13 DEF StoreLaunchHi, RxGoto, RxType
<1>14. CASE SampleReceiveTime
  BY <1>1, <1>4, <1>14 DEF SampleReceiveTime, RxType, regs
<1>15. CASE StoreMomentLo BY <1>1, <1>4, <1>15 DEF StoreMomentLo, RxGoto, RxType
<1>16. CASE StoreMomentHi BY <1>1, <1>3, <1>16 DEF StoreMomentHi, RxSleep, RxType
<1>17. CASE ChkStep
  BY <1>2, <1>17 DEF ChkStep, TimerInit, StartPass, LoadMomentLo, LoadMomentHi,
     CheckOvertime, ClearTemperature, ClearVoltage, ClearSignalStrength,
     ClearLaunchLo, ClearLaunchHi, ClearMomentLo, ClearMomentHi, regs
<1>18. CASE NodeOvertimeTiming BY <1>2, <1>18 DEF NodeOvertimeTiming, regs
(* The id registers change only while rx sleeps. *)
<1>19. CASE Configure BY <1>3, <1>19 DEF Configure, StoreDeviceIdWord
<1>20. CASE UNCHANGED vars BY <1>2, <1>20 DEF vars, regs
<1> QED
  BY <1>5, <1>6, <1>7, <1>8, <1>9, <1>10, <1>11, <1>12, <1>13, <1>14, <1>15,
     <1>16, <1>17, <1>18, <1>19, <1>20 DEF Next, RxStep

(* So IdInv holds throughout. *)
LEMMA IdInvariant == Spec => []IdInv
<1>1. Init => IdInv BY DEF Init, IdInv, SavesUnderItsId, SavePCs
<1> QED BY <1>1, TypeCorrect, NextIdInv, PTL DEF Spec

(* For every table size and every way the configuration threads rewrite the *)
(* ids, TaskDataReceive stores a record only into the first slot that       *)
(* carries the transmitter's id, for the whole of the record.               *)
THEOREM RecordsGoToTheirSlot == Spec => []SavesUnderItsId
<1>1. IdInv => SavesUnderItsId BY DEF IdInv
<1> QED BY <1>1, IdInvariant, PTL

-----------------------------------------------------------------------------
(* The launch number *)

(* Adding whole multiples of a word cannot raise the remainder. *)
LEMMA ModAddBound ==
  ASSUME NEW a \in Nat, NEW h \in Nat, NEW w \in Nat \ {0}
  PROVE  (a + w * h) % w <= a
<1> DEFINE v == a + w * h
           q == v \div w
           r == v % w
<1>1. w * h \in Nat BY SMT
<1>2. v \in Nat BY <1>1
<1>3. q \in Nat /\ r \in 0 .. (w - 1) /\ v = w * q + r
  <2> HIDE DEF v
  <2> QED BY <1>2, SMT
<1> HIDE DEF q, r
<1>4. CASE h <= q
  <2>1. w * h <= w * q BY <1>3, <1>4, TimesMonotonic
  <2>2. w * q \in Nat BY <1>3, SMT
  <2> QED BY <1>1, <1>3, <2>1, <2>2 DEF r
<1>5. CASE q + 1 <= h
  <2>1. w * (q + 1) <= w * h BY <1>3, <1>5, TimesMonotonic
  <2>2. w * (q + 1) = w * q + w /\ w * q \in Nat BY <1>3, SMT
  <2> QED BY <1>1, <1>3, <2>1, <2>2
<1> QED BY <1>3, <1>4, <1>5

(* The two words of a value never make more than the value. *)
LEMMA WordsBound ==
  ASSUME NEW v \in Nat
  PROVE  Lo(v) + Word * Hi(v) <= v
<1>1. Word \in Nat \ {0} BY TimePositive
<1> DEFINE q == v \div Word
<1>2. q \in Nat /\ v % Word \in Nat /\ v = Word * q + (v % Word) BY <1>1, SMT
<1>3. Hi(v) \in Nat /\ Hi(v) <= q
  <2> HIDE DEF q
  <2>1. q % Word \in Nat /\ q % Word <= q BY <1>1, <1>2, SMT
  <2> QED BY <2>1 DEF Hi, q
<1>4. Word * Hi(v) <= Word * q /\ Word * Hi(v) \in Nat /\ Word * q \in Nat
  <2> HIDE DEF q
  <2> QED BY <1>1, <1>2, <1>3, TimesMonotonic
<1> QED BY <1>2, <1>4 DEF Lo

(* One more than a value in two words, as SaveLaunchNumber computes it.     *)
LEMMA Increment ==
  ASSUME NEW lo \in Regs, NEW hi \in Regs
  PROVE  LET v == (lo + Word * hi + 1) % Time
         IN  /\ v \in Nat
             /\ v <= lo + Word * hi + 1
             /\ Lo(v) + Word * hi <= lo + Word * hi + 1
<1> DEFINE x == lo + Word * hi + 1
<1>1. Word \in Nat \ {0} /\ Time \in Nat \ {0} BY TimePositive
<1>2. lo \in Nat /\ hi \in Nat /\ Word * hi \in Nat BY <1>1, SMT DEF Regs
<1>3. x \in Nat /\ x <= Time BY <1>1, <1>2, ValueRange
<1>4. CASE x < Time
  <2>1. x % Time = x
    <3> HIDE DEF x
    <3> QED BY <1>1, <1>3, <1>4, SMT
  <2>2. x = (lo + 1) + Word * hi BY <1>2
  <2>3. x % Word <= lo + 1
    <3>1. lo + 1 \in Nat BY <1>2
    <3>2. ((lo + 1) + Word * hi) % Word <= lo + 1
      BY <1>1, <1>2, <3>1, ModAddBound, Zenon
    <3> QED BY <2>2, <3>2
  <2>4. x % Word \in Nat
    <3> HIDE DEF x
    <3> QED BY <1>1, <1>3, SMT
  <2> QED BY <1>2, <1>3, <2>1, <2>3, <2>4 DEF Lo
<1>5. CASE x = Time
  <2>1. x % Time = 0 BY <1>1, <1>5, SMT
  <2>2. Lo(0) = 0 BY <1>1, SMT DEF Lo
  <2> QED BY <1>2, <2>1, <2>2
<1> QED BY <1>1, <1>3, <1>4, <1>5

(* The inductive strengthening of LaunchNeverOvercounts: how far the count  *)
(* of the slot rx is working on may go at each step of SaveLaunchNumber,    *)
(* whatever chk has zeroed in the meantime.                                 *)
LaunchInv ==
  LET s == rx.slot IN
  /\ LaunchNeverOvercounts
  /\ rx.pc \in {"temp", "volt", "stat", "readLo", "readHi"}
       => Value(launch[s]) + 1 <= saves[s]
  /\ rx.pc = "readHi" => rx.lo + Word * launch[s].hi + 1 <= saves[s]
  /\ rx.pc = "launchLo" => /\ Lo(rx.launchNumber) + Word * launch[s].hi <= saves[s]
                           /\ rx.launchNumber <= saves[s]
  /\ rx.pc = "launchHi" => launch[s].lo + Word * Hi(rx.launchNumber) <= saves[s]

(* LaunchInv is inductive: stores of rx stay within the bounds and zeroed   *)
(* words of chk only lower them.                                            *)
LEMMA NextLaunchInv == TypeOK /\ IdInv /\ LaunchInv /\ [Next]_vars => LaunchInv'
<1> SUFFICES ASSUME TypeOK, IdInv, LaunchInv, [Next]_vars PROVE LaunchInv'
  OBVIOUS
<1> DEFINE s == rx.slot
<1>1. rx \in RxType BY DEF TypeOK
<1>2. s \in Slots BY <1>1 DEF RxType
<1>3. launch \in [Slots -> Pair] /\ saves \in [Slots -> Nat] BY DEF TypeOK
<1>4. Word \in Nat \ {0} BY TimePositive
<1>5. \A p \in Pair : p.lo \in Nat /\ p.hi \in Nat /\ Word * p.hi \in Nat
  BY <1>4, SMT DEF Pair, Regs
<1>6. \A v \in Nat : /\ Lo(v) \in Nat /\ Hi(v) \in Nat
                     /\ Word * Hi(v) \in Nat
                     /\ Lo(v) + Word * Hi(v) <= v
  <2> SUFFICES ASSUME NEW v \in Nat
               PROVE  /\ Lo(v) \in Nat /\ Hi(v) \in Nat
                      /\ Word * Hi(v) \in Nat
                      /\ Lo(v) + Word * Hi(v) <= v
    OBVIOUS
  <2>1. Lo(v) \in Nat /\ Hi(v) \in Nat BY WordRange DEF Regs
  <2>2. Word * Hi(v) \in Nat BY <1>4, <2>1, SMT
  <2> QED BY <2>1, <2>2, WordsBound
<1>7. rx.launchNumber \in Nat /\ rx.lo \in Regs BY <1>1 DEF RxType
(* Steps that leave the counts, the slot and what rx knows alone. *)
<1>10. ASSUME UNCHANGED <<launch, saves, rx>> PROVE LaunchInv'
  BY <1>10 DEF LaunchInv, LaunchNeverOvercounts, Value
<1>11. ASSUME UNCHANGED <<launch, saves>>,
              rx'.pc \in {"delay", "lookup", "sample", "momentLo", "momentHi"}
       PROVE  LaunchInv'
  BY <1>11 DEF LaunchInv, LaunchNeverOvercounts, Value
<1>12. ASSUME UNCHANGED <<launch, saves>>, rx'.slot = rx.slot,
              rx.pc \in {"temp", "volt", "stat"},
              rx'.pc \in {"volt", "stat", "readLo"}
       PROVE  LaunchInv'
  BY <1>12 DEF LaunchInv, LaunchNeverOvercounts, Value
<1>20. ASSUME NEW d \in Devices, NEW ret \in 0 .. 2, ReceivePacket(d, ret)
       PROVE  LaunchInv'
  <2>1. rx'.pc \in {"delay", "lookup"}
    BY <1>1, <1>20 DEF ReceivePacket, RxSleep, RxType
  <2> QED BY <1>11, <1>20, <2>1 DEF ReceivePacket, regs, history
<1>21. CASE GetDeviceNumber
  <2>1. launch' = launch BY <1>21 DEF GetDeviceNumber, regs
  <2>2. CASE RxSleep /\ UNCHANGED saves
    BY <1>1, <1>11, <2>1, <2>2 DEF RxSleep, RxType
  <2>3. ASSUME NEW i \in Slots,
               rx' = [rx EXCEPT !.pc = "temp", !.slot = i],
               saves' = [saves EXCEPT ![i] = @ + 1]
        PROVE  LaunchInv'
    <3>1. rx'.pc = "temp" /\ rx'.slot = i BY <1>1, <2>3 DEF RxType
    <3>2. \A j \in Slots : Value(launch[j]) \in Nat /\ Value(launch[j]) <= saves[j]
      BY <1>3, <1>5 DEF LaunchInv, LaunchNeverOvercounts, Value
    <3>3. saves'[i] = saves[i] + 1 /\ \A j \in Slots : saves[j] <= saves'[j]
      BY <1>3, <2>3
    <3>4. \A j \in Slots : Value(launch'[j]) <= saves'[j]
      BY <1>3, <2>1, <2>3, <3>2, <3>3
    <3>5. Value(launch'[i]) + 1 <= saves'[i]
      BY <1>3, <2>1, <3>2, <3>3
    <3> QED BY <3>1, <3>4, <3>5 DEF LaunchInv, LaunchNeverOvercounts
  <2> QED BY <1>21, <2>2, <2>3 DEF GetDeviceNumber
<1>22. CASE SaveTemperature
  BY <1>1, <1>12, <1>22 DEF SaveTemperature, RxGoto, RxType
<1>23. CASE SaveVoltage
  BY <1>1, <1>12, <1>23 DEF SaveVoltage, RxGoto, RxType, history
<1>24. CASE SaveSignalStrength
  BY <1>1, <1>12, <1>24 DEF SaveSignalStrength, RxGoto, RxType, history
<1>25. CASE LoadLaunchLo
  <2>1. rx'.pc = "readHi" /\ rx'.slot = s /\ rx'.lo = launch[s].lo
    BY <1>1, <1>25 DEF LoadLaunchLo, RxType
  <2>2. UNCHANGED <<launch, saves>> BY <1>25 DEF LoadLaunchLo, regs, history
  <2>3. Value(launch[s]) + 1 <= saves[s] BY <1>25 DEF LoadLaunchLo, LaunchInv
  <2> QED BY <2>1, <2>2, <2>3 DEF LaunchInv, LaunchNeverOvercounts, Value
<1>26. CASE LoadLaunchHi
  <2> DEFINE v == (rx.lo + Word * launch[s].hi + 1) % Time
  <2>1. rx'.pc = "launchLo" /\ rx'.slot = s /\ rx'.launchNumber = v
    BY <1>1, <1>26 DEF LoadLaunchHi, RxType
  <2>2. UNCHANGED <<launch, saves>> BY <1>26 DEF LoadLaunchHi, regs, history
  <2>3. rx.lo + Word * launch[s].hi + 1 <= saves[s]
    BY <1>26 DEF LoadLaunchHi, LaunchInv
  <2>4. launch[s].hi \in Regs BY <1>2, <1>3 DEF Pair
  <2>5. /\ v \in Nat
        /\ v <= rx.lo + Word * launch[s].hi + 1
        /\ Lo(v) + Word * launch[s].hi <= rx.lo + Word * launch[s].hi + 1
    BY <1>7, <2>4, Increment, Zenon
  <2>6. /\ rx.lo \in Nat /\ Word * launch[s].hi \in Nat
        /\ saves[s] \in Nat /\ Lo(v) \in Nat
    BY <1>2, <1>3, <1>5, <1>6, <1>7, <2>5 DEF Regs
  <2> HIDE DEF v
  <2>7. v <= saves[s] /\ Lo(v) + Word * launch[s].hi <= saves[s]
    BY <2>3, <2>5, <2>6
  <2> QED BY <2>1, <2>2, <2>7 DEF LaunchInv, LaunchNeverOvercounts
<1>27. CASE StoreLaunchLo
  <2>1. rx'.pc = "launchHi" /\ rx'.slot = s /\ rx'.launchNumber = rx.launchNumber
    BY <1>1, <1>27 DEF StoreLaunchLo, RxGoto, RxType
  <2>2. saves' = saves BY <1>27 DEF StoreLaunchLo, history
  <2>3. /\ Lo(rx.launchNumber) + Word * launch[s].hi <= saves[s]
        /\ rx.launchNumber <= saves[s]
    BY <1>27 DEF StoreLaunchLo, LaunchInv
  <2>4. \A j \in Slots : Value(launch[j]) <= saves[j]
    BY DEF LaunchInv, LaunchNeverOvercounts
  <2>5. launch' = [launch EXCEPT ![s] = [launch[s] EXCEPT !.lo = Lo(rx.launchNumber)]]
    BY <1>27 DEF StoreLaunchLo, Saved, IdInv, SavesUnderItsId, SavePCs
  <2> DEFINE n == rx.launchNumber
  <2>6. Lo(n) + Word * Hi(n) <= saves[s]
    BY <1>2, <1>3, <1>6, <1>7, <2>3
  <2>7. launch'[s].lo = Lo(n) /\ launch'[s].hi = launch[s].hi
    BY <1>2, <1>3, <2>5 DEF Pair
  <2>8. \A j \in Slots \ {s} : launch'[j] = launch[j]
    BY <1>3, <2>5
  <2>9. LaunchNeverOvercounts'
    BY <2>2, <2>3, <2>4, <2>7, <2>8 DEF LaunchNeverOvercounts, Value
  <2> QED BY <2>1, <2>2, <2>6, <2>7, <2>9 DEF LaunchInv
<1>28. CASE StoreLaunchHi
  <2>1. rx'.pc = "sample" BY <1>1, <1>28 DEF StoreLaunchHi, RxGoto, RxType
  <2>2. saves' = saves BY <1>28 DEF StoreLaunchHi, history
  <2>3. launch[s].lo + Word * Hi(rx.launchNumber) <= saves[s]
    BY <1>28 DEF StoreLaunchHi, LaunchInv
  <2>4. \A j \in Slots : Value(launch[j]) <= saves[j]
    BY DEF LaunchInv, LaunchNeverOvercounts
  <2>5. \/ launch' = launch
        \/ launch' = [launch EXCEPT ![s] = [launch[s] EXCEPT !.hi = Hi(rx.launchNumber)]]
    BY <1>28 DEF StoreLaunchHi, Saved
  <2> QED BY <1>2, <1>3, <2>1, <2>2, <2>3, <2>4, <2>5
          DEF LaunchInv, LaunchNeverOvercounts, Value, Pair
<1>29. CASE SampleReceiveTime
  BY <1>1, <1>11, <1>29 DEF SampleReceiveTime, RxType, regs, history
<1>30. CASE StoreMomentLo
  BY <1>1, <1>11, <1>30 DEF StoreMomentLo, RxGoto, RxType, history
<1>31. CASE StoreMomentHi
  BY <1>1, <1>11, <1>31 DEF StoreMomentHi, RxSleep, RxType
(* chk zeroes a word: no bound can grow. *)
<1>32. ASSUME NEW i \in Slots, UNCHANGED <<saves, rx>>,
              \/ launch' = [launch EXCEPT ![i].lo = 0]
              \/ launch' = [launch EXCEPT ![i].hi = 0]
       PROVE  LaunchInv'
  <2>1. \A j \in Slots : /\ launch'[j].lo \in Nat /\ launch'[j].hi \in Nat
                         /\ launch'[j].lo <= launch[j].lo
                         /\ launch'[j].hi <= launch[j].hi
    BY <1>3, <1>5, <1>32 DEF Pair
  <2>2. \A j \in Slots : /\ Word * launch'[j].hi <= Word * launch[j].hi
                         /\ Word * launch'[j].hi \in Nat
    BY <1>3, <1>4, <1>5, <2>1, TimesMonotonic
  <2>3. \A j \in Slots : Value(launch'[j]) <= Value(launch[j]) /\ Value(launch'[j]) \in Nat
                         /\ Value(launch[j]) \in Nat
    BY <1>3, <1>5, <2>1, <2>2 DEF Value
  <2>4. LaunchNeverOvercounts'
    BY <1>3, <1>32, <2>3 DEF LaunchInv, LaunchNeverOvercounts
  <2>5. rx.pc \in {"temp", "volt", "stat", "readLo", "readHi"}
          => Value(launch'[s]) + 1 <= saves[s]
    BY <1>2, <1>3, <2>3 DEF LaunchInv
  <2>6. rx.pc = "readHi" => rx.lo + Word * launch'[s].hi + 1 <= saves[s]
    BY <1>2, <1>3, <1>5, <1>7, <2>2 DEF LaunchInv, Regs
  <2>7. rx.pc = "launchLo" => /\ Lo(rx.launchNumber) + Word * launch'[s].hi <= saves[s]
                              /\ rx.launchNumber <= saves[s]
    BY <1>2, <1>3, <1>5, <1>6, <1>7, <2>2 DEF LaunchInv
  <2>8. rx.pc = "launchHi" => launch'[s].lo + Word * Hi(rx.launchNumber) <= saves[s]
    BY <1>2, <1>3, <1>5, <1>6, <1>7, <2>1 DEF LaunchInv
  <2> QED BY <1>32, <2>4, <2>5, <2>6, <2>7, <2>8 DEF LaunchInv
<1>33. CASE ChkStep
  <2>1. chk.i \in Slots BY DEF TypeOK, ChkType
  <2>2. CASE ClearLaunchLo BY <1>32, <2>1, <2>2 DEF ClearLaunchLo, history
  <2>3. CASE ClearLaunchHi BY <1>32, <2>1, <2>3 DEF ClearLaunchHi, history
  <2>4. CASE ~ (ClearLaunchLo \/ ClearLaunchHi)
    BY <1>10, <1>33, <2>4 DEF ChkStep, TimerInit, StartPass, LoadMomentLo, LoadMomentHi,
       CheckOvertime, ClearTemperature, ClearVoltage, ClearSignalStrength,
       ClearMomentLo, ClearMomentHi, regs, history
  <2> QED BY <2>2, <2>3, <2>4
<1>34. CASE NodeOvertimeTiming BY <1>10, <1>34 DEF NodeOvertimeTiming, regs
<1>35. CASE Configure
  BY <1>10, <1>35 DEF Configure, StoreDeviceIdWord, history
<1>36. CASE UNCHANGED vars BY <1>10, <1>36 DEF vars, regs, history
<1> QED
  BY <1>20, <1>21, <1>22, <1>23, <1>24, <1>25, <1>26, <1>27, <1>28, <1>29,
     <1>30, <1>31, <1>33, <1>34, <1>35, <1>36 DEF Next, RxStep

(* For every word width: the launch number never exceeds the packets taken  *)
(* in, however the clearing of chk falls between the loads and stores of    *)
(* SaveLaunchNumber, and although the count wraps.                          *)
THEOREM LaunchNumberSound == Spec => []LaunchNeverOvercounts
<1>1. Init => LaunchInv
  <2>1. Word * 0 = 0 BY TimePositive, SMT
  <2> QED BY <2>1 DEF Init, LaunchInv, LaunchNeverOvercounts, Value
<1>2. LaunchInv => LaunchNeverOvercounts BY DEF LaunchInv
<1> QED BY <1>1, <1>2, TypeCorrect, IdInvariant, NextLaunchInv, PTL DEF Spec
-----------------------------------------------------------------------------
(* Silent slots are cleared in time *)

(* x % T for x below T, and for x in the next interval. *)
LEMMA ModSmall ==
  ASSUME NEW T \in Nat \ {0}, NEW x \in Nat, x < T
  PROVE  x % T = x /\ (x + T) % T = x
<1>1. ASSUME NEW y \in Nat, NEW q \in Nat, y = T * q + x, q \in {0, 1}
      PROVE  y % T = x
  <2> DEFINE p == y \div T
             r == y % T
  <2>1. p \in Nat /\ r \in Nat /\ r < T /\ y = T * p + r
    BY SMT
  <2> HIDE DEF p, r
  <2>2. p <= q
    <3>1. SUFFICES ASSUME p >= q + 1 PROVE FALSE
      BY <1>1, <2>1, SMT
    <3>2. T * (q + 1) <= T * p
      BY <2>1, <3>1, TimesMonotonic
    <3>3. T * (q + 1) = T * q + T
      BY <1>1, SMT
    <3> QED
      BY <1>1, <2>1, <3>2, <3>3, SMT
  <2>3. q <= p
    <3>1. SUFFICES ASSUME q >= p + 1 PROVE FALSE
      BY <1>1, <2>1, SMT
    <3>2. p = 0 /\ q = 1
      BY <1>1, <2>1, <3>1, SMT
    <3> QED
      BY <1>1, <2>1, <3>2, SMT
  <2>4. p = q
    BY <2>1, <2>2, <2>3, SMT
  <2>5. r = x
    BY <1>1, <2>1, <2>4, SMT
  <2> QED
    BY <2>5 DEF r
<1>2. x % T = x
  <2>1. x = T * 0 + x
    BY SMT
  <2> QED
    BY <1>1, <2>1
<1>3. (x + T) % T = x
  <2>1. x + T = T * 1 + x /\ x + T \in Nat
    BY SMT
  <2> QED
    BY <1>1, <2>1
<1> QED
  BY <1>2, <1>3

(* The uint32_t difference, with and without a wrap of the counter. *)
LEMMA ElapsedIs ==
  ASSUME NEW n \in 0 .. (Time - 1), NEW t \in 0 .. (Time - 1)
  PROVE  /\ Elapsed(n, t) = IF n >= t THEN n - t ELSE n + Time - t
         /\ Elapsed(n, t) \in 0 .. (Time - 1)
<1>1. Time \in Nat \ {0} BY TimePositive
<1>2. CASE n >= t
  <2>1. n - t \in Nat /\ n - t < Time /\ n + Time - t = (n - t) + Time
    BY <1>1, <1>2, SMT
  <2>2. ((n - t) + Time) % Time = n - t
    BY <1>1, <2>1, ModSmall
  <2>3. Elapsed(n, t) = n - t
    BY <2>1, <2>2 DEF Elapsed
  <2> QED
    BY <1>1, <1>2, <2>1, <2>3, SMT
<1>3. CASE n < t
  <2>1. n + Time - t \in Nat /\ n + Time - t < Time
    BY <1>1, <1>3, SMT
  <2>2. Elapsed(n, t) = n + Time - t
    BY <1>1, <2>1, ModSmall DEF Elapsed
  <2> QED
    BY <1>1, <1>3, <2>1, <2>2, SMT
<1> QED
  BY <1>2, <1>3, SMT

(* A second more. *)
LEMMA ElapsedTick ==
  ASSUME NEW n \in 0 .. (Time - 1), NEW t \in 0 .. (Time - 1), Elapsed(n, t) + 1 < Time
  PROVE  Elapsed((n + 1) % Time, t) = Elapsed(n, t) + 1
<1>1. Time \in Nat \ {0} BY TimePositive
<1>2. CASE n + 1 < Time
  <2>1. n + 1 \in Nat /\ n + 1 \in 0 .. (Time - 1)
    BY <1>1, <1>2, SMT
  <2>2. (n + 1) % Time = n + 1
    BY <1>1, <1>2, <2>1, ModSmall
  <2>3. /\ Elapsed(n + 1, t) = IF n + 1 >= t THEN (n + 1) - t ELSE (n + 1) + Time - t
        /\ Elapsed(n, t) = IF n >= t THEN n - t ELSE n + Time - t
    BY <2>1, ElapsedIs
  <2> QED
    BY <1>1, <2>2, <2>3, SMT
<1>3. CASE n + 1 = Time
  <2>1. 0 \in Nat /\ 0 < Time /\ 0 \in 0 .. (Time - 1) /\ n + 1 = 0 + Time
    BY <1>1, <1>3, SMT
  <2>2. (n + 1) % Time = 0
    BY <1>1, <2>1, ModSmall
  <2>3. /\ Elapsed(0, t) = IF 0 >= t THEN 0 - t ELSE 0 + Time - t
        /\ Elapsed(n, t) = IF n >= t THEN n - t ELSE n + Time - t
    BY <2>1, ElapsedIs
  <2> QED
    BY <1>1, <1>3, <2>2, <2>3, SMT
<1> QED
  BY <1>1, <1>2, <1>3, SMT

(* A uint32_t is made of its two words. *)
LEMMA WordsOfTime ==
  ASSUME NEW t \in 0 .. (Time - 1)
  PROVE  /\ Lo(t) \in Regs /\ Hi(t) \in Regs /\ t = Lo(t) + Word * Hi(t)
<1>1. Word \in Nat \ {0} /\ t \in Nat /\ t < Word * Word
  BY TimePositive, SMT DEF Time
<1> DEFINE q == t \div Word
<1>2. q \in Nat /\ t % Word \in Nat /\ t = Word * q + (t % Word)
  BY <1>1, SMT
<1> HIDE DEF q
<1>3. q < Word
  <2>1. SUFFICES ASSUME q >= Word PROVE FALSE
    BY <1>1, <1>2, SMT
  <2>2. Word * Word <= Word * q
    BY <1>1, <1>2, <2>1, TimesMonotonic
  <2> QED
    BY <1>1, <1>2, <2>2, SMT
<1>4. Hi(t) = q
  BY <1>1, <1>2, <1>3, ModSmall DEF Hi, q
<1>5. Lo(t) \in Regs /\ Hi(t) \in Regs
  BY <1>1, WordRange
<1>6. t = Lo(t) + Word * Hi(t)
  <2>1. t = Word * Hi(t) + Lo(t) /\ Word * Hi(t) \in Nat
    BY <1>1, <1>2, <1>4, SMT DEF Lo
  <2> QED
    BY <1>2, <2>1, SMT DEF Lo
<1> QED
  BY <1>5, <1>6

(* A moment that has lost a word looks no younger than it is: the rest is   *)
(* smaller, and when the counter has wrapped since, the rest still lies     *)
(* above it.                                                                *)
LEMMA RestIsOlder ==
  ASSUME NEW n \in 0 .. (Time - 1), NEW t \in 0 .. (Time - 1), Elapsed(n, t) < Word,
         NEW lo \in {Lo(t), 0}, NEW hi \in {Hi(t), 0}, lo + Word * hi # 0
  PROVE  Elapsed(n, lo + Word * hi) >= Elapsed(n, t)
<1> DEFINE m == lo + Word * hi
           h == Hi(t)
           l == Lo(t)
           e == Elapsed(n, t)
<1>1. Word \in Nat /\ Word >= 2 /\ Time = Word * Word /\ Time \in Nat /\ Time > 0
  BY TableAssumption, TimePositive, SMT DEF Time
<1>2. l \in 0 .. (Word - 1) /\ h \in 0 .. (Word - 1) /\ t = l + Word * h
  BY WordsOfTime DEF Regs
<1>3. lo \in {l, 0} /\ hi \in {h, 0}
  OBVIOUS
<1>4. /\ e = IF n >= t THEN n - t ELSE n + Time - t
      /\ e \in 0 .. (Time - 1) /\ e < Word
  BY ElapsedIs
<1> HIDE DEF h, l, e
<1>5. Word * h \in Nat /\ Word * 0 = 0
  BY <1>1, <1>2, SMT
<1>6. m \in Nat /\ m <= t /\ m \in {t, l, Word * h}
  BY <1>2, <1>3, <1>5, SMT
<1>7. m \in 0 .. (Time - 1)
  BY <1>1, <1>6, SMT
<1>8. Elapsed(n, m) = IF n >= m THEN n - m ELSE n + Time - m
  BY <1>7, ElapsedIs
<1> HIDE DEF m
<1>9. ASSUME n >= t
      PROVE  Elapsed(n, m) >= e
  BY <1>1, <1>4, <1>6, <1>8, <1>9, SMT
<1>10. ASSUME n < t
       PROVE  Elapsed(n, m) >= e
  <2>1. t = Time + n - e /\ t > Time - Word
    BY <1>1, <1>4, <1>10, SMT
  <2>2. h = Word - 1
    <3>1. SUFFICES ASSUME h <= Word - 2 PROVE FALSE
      BY <1>1, <1>2, SMT
    <3>2. Word - 2 \in Nat /\ h \in Nat /\ Word \in Nat
      BY <1>1, <1>2, SMT
    <3>3. Word * h <= Word * (Word - 2)
      BY <3>1, <3>2, TimesMonotonic
    <3>4. Word * (Word - 2) = Word * Word - 2 * Word
      BY <1>1, SMT
    <3> QED
      BY <1>1, <1>2, <2>1, <3>3, <3>4, SMT
  <2>3. Word * h = Time - Word
    BY <1>1, <2>2, SMT
  <2>4. Time >= 2 * Word
    <3>1. Word * 2 <= Word * Word
      BY <1>1, TimesMonotonic
    <3> QED
      BY <1>1, <3>1, SMT
  <2>5. l > n /\ Word * h > n
    BY <1>1, <1>2, <1>4, <2>1, <2>3, <2>4, SMT
  <2>6. m > n
    BY <1>6, <1>10, <2>5, SMT
  <2> QED
    BY <1>1, <1>4, <1>6, <1>8, <1>10, <2>6, SMT
<1>11. Elapsed(n, m) >= e
  BY <1>9, <1>10, SMT
<1> QED
  BY <1>11 DEF e, m

AtRest(i) == ~ (rx.pc \in SavePCs /\ rx.slot = i)

(* chk is through with slot i in the current pass. *)
Visited(i) == chk.pc = "delay" \/ chk.i > i

(* What is left in slot i of a receive moment t that is as old as the slot  *)
(* is quiet, but for the seconds the save took.                             *)
MomentOf(i, t) ==
  /\ moment[i].lo \in {Lo(t), 0} /\ moment[i].hi \in {Hi(t), 0}
  /\ quiet[i] <= Elapsed(now, t) /\ Elapsed(now, t) <= quiet[i] + MaxTicksPerSave

(* rx stored into slot i since the pass began. *)
Renewed(i) == quiet[i] <= passTicks

(* A slot with a moment: where the moment comes from, how long the slot can *)
(* have been quiet, by how far chk is, and what chk knows of the moment.    *)
MomentPart(i) == \E t \in 0 .. (Time - 1) : MomentOf(i, t)

QuietPart(i) ==
  quiet[i] <= Overtime + passTicks + (IF Visited(i) THEN 0 ELSE MaxTicksPerPass)

KnownPart(i) ==
  /\ chk.i = i /\ chk.pc = "readHi" => chk.lo = moment[i].lo \/ Renewed(i)
  /\ chk.i = i /\ chk.pc = "check" => chk.startTime = Value(moment[i]) \/ Renewed(i)
  /\ chk.i = i /\ chk.pc = "clrMomentHi" => moment[i].lo = 0 \/ Renewed(i)

StaleSlot(i) == MomentPart(i) /\ QuietPart(i) /\ KnownPart(i)

(* The moment that rx is about to store. *)
SampleInv ==
  /\ rx.pc \in {"momentLo", "momentHi"} => Elapsed(now, rx.receiveTime) <= saveTicks
  /\ rx.pc = "momentHi" => moment[rx.slot].lo \in {Lo(rx.receiveTime), 0}

StaleInv ==
  /\ passTicks <= MaxTicksPerPass /\ saveTicks <= MaxTicksPerSave
  /\ SampleInv
  /\ chk.pc = "delay" => chk.i = 0
  /\ \A i \in Slots : Value(moment[i]) # 0 /\ AtRest(i) => StaleSlot(i)

(* Clearing a word does not change where the moment comes from. *)
LEMMA MomentKept ==
  ASSUME NEW i \in Slots, MomentPart(i), now' = now, quiet'[i] = quiet[i],
         moment'[i].lo \in {moment[i].lo, 0}, moment'[i].hi \in {moment[i].hi, 0}
  PROVE  MomentPart(i)'
<1>1. PICK t \in 0 .. (Time - 1) : MomentOf(i, t)
  BY DEF MomentPart
<1>2. MomentOf(i, t)'
  BY <1>1, Zenon DEF MomentOf
<1> QED
  BY <1>2, Zenon DEF MomentPart

(* Steps of rx elsewhere. *)
LEMMA SlotKept ==
  ASSUME NEW i \in Slots, StaleSlot(i), UNCHANGED <<now, chk, passTicks>>,
         moment'[i] = moment[i], quiet'[i] = quiet[i]
  PROVE  StaleSlot(i)'
<1>1. MomentPart(i)'
  BY MomentKept, Zenon DEF StaleSlot
<1>2. QuietPart(i)'
  BY Zenon DEF StaleSlot, QuietPart, Visited
<1>3. KnownPart(i)'
  BY Zenon DEF StaleSlot, KnownPart, Value, Renewed
<1> QED
  BY <1>1, <1>2, <1>3, Zenon DEF StaleSlot

LEMMA RxKeeps ==
  ASSUME StaleInv, UNCHANGED <<now, chk, passTicks>>, saveTicks' <= MaxTicksPerSave, SampleInv',
         \A i \in Slots : AtRest(i)' =>
           \/ StaleSlot(i)'
           \/ AtRest(i) /\ moment'[i] = moment[i] /\ quiet'[i] = quiet[i]
  PROVE  StaleInv'
<1>1. ASSUME NEW i \in Slots, Value(moment'[i]) # 0, AtRest(i)'
      PROVE  StaleSlot(i)'
  <2>1. ASSUME AtRest(i), moment'[i] = moment[i], quiet'[i] = quiet[i]
        PROVE  StaleSlot(i)'
    <3>1. Value(moment[i]) # 0
      BY <1>1, <2>1, Zenon
    <3>2. StaleSlot(i)
      BY <2>1, <3>1, Zenon DEF StaleInv
    <3> QED
      BY <2>1, <3>2, SlotKept, Zenon
  <2> QED
    BY <1>1, <2>1, Zenon
<1>2. \A i \in Slots : Value(moment[i])' # 0 /\ AtRest(i)' => StaleSlot(i)'
  BY <1>1, Zenon DEF Value
<1> QED
  BY <1>2, Zenon DEF StaleInv

(* What the variables of rx hold. *)
LEMMA RxTypes ==
  ASSUME TypeOK
  PROVE  /\ rx \in RxType /\ rx.slot \in Slots /\ rx.receiveTime \in 0 .. (Time - 1)
         /\ now \in 0 .. (Time - 1) /\ saveTicks \in Nat /\ passTicks \in Nat
         /\ moment \in [Slots -> Pair] /\ quiet \in [Slots -> 0 .. QuietMax]
<1>1. rx \in RxType
  BY DEF TypeOK
<1>2. rx.slot \in Slots /\ rx.receiveTime \in 0 .. (Time - 1)
  BY <1>1, Zenon DEF RxType
<1> QED
  BY <1>1, <1>2, Zenon DEF TypeOK

(* The last store of a record: the slot is at rest again, with a moment as  *)
(* old as the save took since the sample.                                   *)
LEMMA MomentStored ==
  ASSUME TypeOK, IdInv, OvertimeFits, StaleInv, StoreMomentHi
  PROVE  StaleInv'
<1>s. PICK s \in Slots : s = rx.slot
  BY RxTypes
<1>t. PICK t \in 0 .. (Time - 1) : t = rx.receiveTime
  BY RxTypes
<1>1. /\ rx \in RxType
      /\ now \in 0 .. (Time - 1) /\ saveTicks \in Nat /\ passTicks \in Nat
      /\ moment \in [Slots -> Pair] /\ quiet \in [Slots -> 0 .. QuietMax]
  BY RxTypes
<1>2. /\ rx.pc = "momentHi" /\ RxSleep
      /\ UNCHANGED <<now, chk, passTicks, saveTicks>>
      /\ quiet' = [quiet EXCEPT ![s] = 0]
      /\ moment' = Saved(moment, [moment[s] EXCEPT !.hi = Hi(t)])
  BY <1>s, <1>t, Zenon DEF StoreMomentHi, bounds
<1>3. rx.pc \in SavePCs
  BY <1>2, SMT DEF SavePCs
<1>4. rx.valid
  BY <1>3, Zenon DEF IdInv, SavesUnderItsId
<1>5. moment' = [moment EXCEPT ![s] = [moment[s] EXCEPT !.hi = Hi(t)]]
  BY <1>2, <1>4, <1>s, Zenon DEF Saved
<1>6. \A i \in Slots : s # i => moment'[i] = moment[i] /\ quiet'[i] = quiet[i]
  BY <1>1, <1>2, <1>5, Zenon
<1>7. moment'[s].lo = moment[s].lo /\ moment'[s].hi = Hi(t) /\ quiet'[s] = 0
  BY <1>1, <1>2, <1>5, Zenon DEF Pair
<1>8. rx'.pc = "delay"
  BY <1>1, <1>2, Zenon DEF RxSleep, RxType
<1>9. Elapsed(now, t) <= saveTicks /\ moment[s].lo \in {Lo(t), 0}
      /\ saveTicks <= MaxTicksPerSave
  BY <1>2, <1>s, <1>t, Zenon DEF StaleInv, SampleInv
<1>10. StaleSlot(s)'
  <2>1. Elapsed(now, t) \in 0 .. (Time - 1) /\ MaxTicksPerSave \in Nat /\ Overtime \in Nat
        /\ MaxTicksPerPass \in Nat
    BY <1>1, ElapsedIs, TableAssumption
  <2>2. 0 <= Elapsed(now, t) /\ Elapsed(now, t) <= 0 + MaxTicksPerSave
    BY <1>1, <1>9, <2>1, SMT
  <2>3. MomentOf(s, t)'
    <3>1. /\ moment'[s].lo \in {Lo(t), 0} /\ moment'[s].hi \in {Hi(t), 0}
          /\ quiet'[s] <= Elapsed(now', t)
          /\ Elapsed(now', t) <= quiet'[s] + MaxTicksPerSave
      BY <1>2, <1>7, <1>9, <2>2, Zenon
    <3> QED
      BY <3>1, Zenon DEF MomentOf
  <2>4. MomentPart(s)'
    BY <2>3, Zenon DEF MomentPart
  <2>5. Renewed(s)'
    <3>1. quiet'[s] <= passTicks'
      BY <1>1, <1>2, <1>7, SMT
    <3> QED
      BY <3>1 DEF Renewed
  <2>6. KnownPart(s)'
    BY <2>5, Zenon DEF KnownPart
  <2>7. QuietPart(s)'
    <3>1. ASSUME NEW v \in {0, MaxTicksPerPass}
          PROVE  quiet'[s] <= Overtime + passTicks' + v
      BY <1>1, <1>2, <1>7, <2>1, SMT
    <3> QED
      BY <3>1, Zenon DEF QuietPart
  <2> QED
    BY <2>4, <2>6, <2>7, Zenon DEF StaleSlot
<1>11. SampleInv'
  BY <1>8, SMT DEF SampleInv
<1>12. ASSUME NEW i \in Slots, i # s
       PROVE  AtRest(i)
  BY <1>12, <1>s, Zenon DEF AtRest
<1> QED
  BY <1>2, <1>6, <1>9, <1>10, <1>11, <1>12, RxKeeps, Zenon

(* Steps of rx that store no moment and reset no quiet. *)
LEMMA RxWalks ==
  ASSUME StaleInv, UNCHANGED <<now, chk, passTicks, saveTicks, moment, quiet>>,
         rx'.pc \notin {"momentLo", "momentHi"}, \A i \in Slots : AtRest(i)' => AtRest(i)
  PROVE  StaleInv'
<1>1. SampleInv'
  BY Zenon DEF SampleInv
<1>2. saveTicks' <= MaxTicksPerSave
  BY Zenon DEF StaleInv
<1> QED
  BY <1>1, <1>2, RxKeeps, Zenon

(* The slot is at rest before and after, or the same one is stored into. *)
LEMMA SameWork ==
  ASSUME TypeOK, NEW pc, rx' = [rx EXCEPT !.pc = pc], rx.pc \in SavePCs, pc \in SavePCs
  PROVE  rx'.pc = pc /\ rx'.slot = rx.slot /\ rx'.receiveTime = rx.receiveTime
         /\ \A i \in Slots : (AtRest(i)' <=> AtRest(i)) /\ (AtRest(i) <=> rx.slot # i)
<1>1. rx \in RxType
  BY RxTypes
<1>2. rx'.pc = pc /\ rx'.slot = rx.slot /\ rx'.receiveTime = rx.receiveTime
  BY <1>1, Zenon DEF RxType
<1> QED
  BY <1>2, Zenon DEF AtRest

LEMMA StaleRx ==
  ASSUME TypeOK, IdInv, OvertimeFits, StaleInv, RxStep
  PROVE  StaleInv'
<1>1. rx \in RxType /\ rx.slot \in Slots
  BY RxTypes
<1>2. ASSUME GetDeviceNumber
      PROVE  StaleInv'
  <2>1. rx.pc = "lookup" /\ UNCHANGED <<now, chk, passTicks, saveTicks, moment, quiet>>
    BY <1>2, Zenon DEF GetDeviceNumber, regs, bounds
  <2>2. \A i \in Slots : AtRest(i)
    BY <2>1, SMT DEF AtRest, SavePCs
  <2>3. rx'.pc \in {"delay", "temp"}
    <3>1. CASE RxSleep
      BY <1>1, <3>1, Zenon DEF RxSleep, RxType
    <3>2. ASSUME NEW i \in Slots, rx' = [rx EXCEPT !.pc = "temp", !.slot = i]
          PROVE  rx'.pc = "temp"
      BY <1>1, <3>2, Zenon DEF RxType
    <3> QED
      BY <1>2, <3>1, <3>2, Zenon DEF GetDeviceNumber
  <2>4. rx'.pc \notin {"momentLo", "momentHi"}
    BY <2>3, SMT
  <2> QED
    BY <2>1, <2>2, <2>4, RxWalks, Zenon
<1>3. ASSUME NEW pc \in SavePCs \ {"momentLo", "momentHi"}, rx.pc \in SavePCs,
             rx' = [rx EXCEPT !.pc = pc],
             UNCHANGED <<now, chk, passTicks, saveTicks, moment, quiet>>
      PROVE  StaleInv'
  BY <1>3, SameWork, RxWalks, Zenon
<1>4. ASSUME SaveTemperature
      PROVE  StaleInv'
  <2>1. /\ rx.pc = "temp" /\ rx' = [rx EXCEPT !.pc = "volt"]
        /\ UNCHANGED <<now, chk, passTicks, saveTicks, moment>>
        /\ quiet' = [quiet EXCEPT ![rx.slot] = 0]
    BY <1>4, Zenon DEF SaveTemperature, RxGoto, bounds
  <2>2. "volt" \in SavePCs /\ rx.pc \in SavePCs /\ "volt" \notin {"momentLo", "momentHi"}
    BY <2>1, SMT DEF SavePCs
  <2>3. /\ rx'.pc = "volt"
        /\ \A i \in Slots : (AtRest(i)' <=> AtRest(i)) /\ (AtRest(i) <=> rx.slot # i)
    BY <2>1, <2>2, SameWork, Zenon
  <2>4. quiet \in [Slots -> 0 .. QuietMax]
    BY RxTypes
  <2>5. \A i \in Slots : rx.slot # i => quiet'[i] = quiet[i]
    BY <2>1, <2>4, Zenon
  <2>6. SampleInv'
    BY <2>2, <2>3, Zenon DEF SampleInv
  <2>7. saveTicks' <= MaxTicksPerSave
    BY <2>1, Zenon DEF StaleInv
  <2> QED
    BY <2>1, <2>3, <2>5, <2>6, <2>7, RxKeeps, Zenon
<1>5. ASSUME SaveVoltage \/ SaveSignalStrength \/ StoreLaunchLo \/ StoreLaunchHi
      PROVE  StaleInv'
  <2>1. UNCHANGED <<now, chk, passTicks, saveTicks, moment, quiet>>
    BY <1>5, Zenon DEF SaveVoltage, SaveSignalStrength, StoreLaunchLo, StoreLaunchHi, bounds, history
  <2>2. \E pc \in {"stat", "readLo", "launchHi", "sample"} : rx' = [rx EXCEPT !.pc = pc]
    BY <1>5, Zenon DEF SaveVoltage, SaveSignalStrength, StoreLaunchLo, StoreLaunchHi, RxGoto
  <2>3. {"stat", "readLo", "launchHi", "sample"} \subseteq SavePCs \ {"momentLo", "momentHi"}
    BY SMT DEF SavePCs
  <2>4. rx.pc \in {"volt", "stat", "launchLo", "launchHi"}
    BY <1>5, Zenon DEF SaveVoltage, SaveSignalStrength, StoreLaunchLo, StoreLaunchHi
  <2>5. rx.pc \in SavePCs
    BY <2>4, SMT DEF SavePCs
  <2> QED
    BY <1>3, <2>1, <2>2, <2>3, <2>5, Zenon
<1>6. ASSUME LoadLaunchLo \/ LoadLaunchHi
      PROVE  StaleInv'
  <2>1. UNCHANGED <<now, chk, passTicks, saveTicks, moment, quiet>>
    BY <1>6, Zenon DEF LoadLaunchLo, LoadLaunchHi, regs, bounds, history
  <2>2. /\ rx.pc \in {"readLo", "readHi"} /\ rx'.pc \in {"readHi", "launchLo"}
        /\ rx'.slot = rx.slot
    BY <1>1, <1>6, Zenon DEF LoadLaunchLo, LoadLaunchHi, RxType
  <2>3. rx.pc \in SavePCs /\ rx'.pc \in SavePCs /\ rx'.pc \notin {"momentLo", "momentHi"}
    BY <2>2, SMT DEF SavePCs
  <2>4. \A i \in Slots : AtRest(i)' => AtRest(i)
    BY <2>2, <2>3, Zenon DEF AtRest
  <2> QED
    BY <2>1, <2>3, <2>4, RxWalks, Zenon
<1>7. ASSUME SampleReceiveTime
      PROVE  StaleInv'
  <2>1. UNCHANGED <<now, chk, passTicks, saveTicks, moment, quiet>>
    BY <1>7, Zenon DEF SampleReceiveTime, regs, bounds, history
  <2>2. /\ rx.pc = "sample" /\ rx'.pc = "momentLo" /\ rx'.slot = rx.slot
        /\ rx'.receiveTime = now
    BY <1>1, <1>7, Zenon DEF SampleReceiveTime, RxType
  <2>3. rx.pc \in SavePCs /\ rx'.pc \in SavePCs /\ rx'.pc # "momentHi"
    BY <2>2, SMT DEF SavePCs
  <2>4. \A i \in Slots : AtRest(i)' => AtRest(i)
    BY <2>2, <2>3, Zenon DEF AtRest
  <2>5. Elapsed(now, now) <= saveTicks
    <3>1. now \in 0 .. (Time - 1) /\ saveTicks \in Nat
      BY RxTypes
    <3>2. Elapsed(now, now) = IF now >= now THEN now - now ELSE now + Time - now
      BY <3>1, ElapsedIs
    <3> QED
      BY <3>1, <3>2, SMT
  <2>6. SampleInv'
    BY <2>1, <2>2, <2>3, <2>5, Zenon DEF SampleInv, Elapsed
  <2>7. saveTicks' <= MaxTicksPerSave
    BY <2>1, Zenon DEF StaleInv
  <2> QED
    BY <2>1, <2>4, <2>6, <2>7, RxKeeps, Zenon
<1>8. ASSUME StoreMomentLo
      PROVE  StaleInv'
  <2>1. /\ rx.pc = "momentLo" /\ rx' = [rx EXCEPT !.pc = "momentHi"]
        /\ UNCHANGED <<now, chk, passTicks, saveTicks, quiet>>
        /\ moment' = Saved(moment, [moment[rx.slot] EXCEPT !.lo = Lo(rx.receiveTime)])
    BY <1>8, Zenon DEF StoreMomentLo, RxGoto, bounds, history
  <2>2. "momentHi" \in SavePCs /\ rx.pc \in SavePCs
    BY <2>1, SMT DEF SavePCs
  <2>3. /\ rx'.pc = "momentHi" /\ rx'.slot = rx.slot /\ rx'.receiveTime = rx.receiveTime
        /\ \A i \in Slots : (AtRest(i)' <=> AtRest(i)) /\ (AtRest(i) <=> rx.slot # i)
    BY <2>1, <2>2, SameWork, Zenon
  <2>4. rx.valid
    BY <2>2, Zenon DEF IdInv, SavesUnderItsId
  <2>5. moment' = [moment EXCEPT ![rx.slot] = [moment[rx.slot] EXCEPT !.lo = Lo(rx.receiveTime)]]
    BY <2>1, <2>4, Zenon DEF Saved
  <2>6. moment \in [Slots -> Pair]
    BY RxTypes
  <2>7. \A i \in Slots : rx.slot # i => moment'[i] = moment[i]
    BY <2>5, <2>6, Zenon
  <2>8. moment'[rx.slot].lo = Lo(rx.receiveTime)
    BY <1>1, <2>5, <2>6, Zenon DEF Pair
  <2>9. SampleInv'
    <3>1. Elapsed(now, rx.receiveTime) <= saveTicks
      BY <2>1, Zenon DEF StaleInv, SampleInv
    <3> QED
      BY <2>1, <2>3, <2>8, <3>1, Zenon DEF SampleInv, Elapsed, Lo
  <2>10. saveTicks' <= MaxTicksPerSave
    BY <2>1, Zenon DEF StaleInv
  <2> QED
    BY <2>1, <2>3, <2>7, <2>9, <2>10, RxKeeps, Zenon
<1>9. ASSUME StoreMomentHi
      PROVE  StaleInv'
  BY <1>9, MomentStored
<1> QED
  BY <1>2, <1>4, <1>5, <1>6, <1>7, <1>8, <1>9, Zenon DEF RxStep

(* Steps of chk *)

LEMMA ChkTypes ==
  ASSUME TypeOK
  PROVE  /\ chk \in ChkType /\ chk.i \in 0 .. (N - 1) /\ N \in Nat \ {0} /\ Slots = 0 .. (N - 1)
         /\ Overtime \in Nat /\ MaxTicksPerPass \in Nat /\ MaxTicksPerSave \in Nat
         /\ passTicks \in Nat /\ \A i \in Slots : i \in Nat /\ quiet[i] \in Nat
<1>1. chk \in ChkType
  BY DEF TypeOK
<1>2. chk.i \in Slots
  BY <1>1, Zenon DEF ChkType
<1>3. quiet \in [Slots -> 0 .. QuietMax] /\ passTicks \in Nat
  BY Zenon DEF TypeOK
<1>4. \A i \in Slots : quiet[i] \in 0 .. QuietMax
  BY <1>3, Zenon
<1>5. /\ N \in Nat \ {0} /\ Overtime \in Nat /\ MaxTicksPerPass \in Nat
      /\ MaxTicksPerSave \in Nat
  BY TableAssumption
<1>6. QuietMax \in Nat
  BY <1>5, SMT DEF QuietMax
<1>7. \A i \in Slots : i \in Nat
  BY <1>5, SMT DEF Slots
<1>8. \A i \in Slots : quiet[i] \in Nat
  BY <1>4, <1>6, SMT
<1> QED
  BY <1>1, <1>2, <1>3, <1>5, <1>7, <1>8, Zenon DEF Slots

LEMMA ValueZero ==
  ASSUME NEW lo \in Regs, NEW hi \in Regs
  PROVE  lo + Word * hi = 0 <=> lo = 0 /\ hi = 0
<1>1. Word \in Nat \ {0} /\ lo \in Nat /\ hi \in Nat
  BY TimePositive, SMT DEF Regs
<1>2. Word * hi \in Nat /\ (hi = 0 => Word * hi = 0)
  BY <1>1, SMT
<1>3. hi # 0 => Word * 1 <= Word * hi
  BY <1>1, TimesMonotonic, SMT
<1> QED
  BY <1>1, <1>2, <1>3, SMT

LEMMA ChkKeeps ==
  ASSUME TypeOK, StaleInv, UNCHANGED <<now, rx, quiet, saveTicks>>,
         passTicks' <= MaxTicksPerPass, chk'.pc = "delay" => chk'.i = 0,
         \A i \in Slots : /\ moment'[i].lo \in {moment[i].lo, 0}
                          /\ moment'[i].hi \in {moment[i].hi, 0},
         \A i \in Slots : StaleSlot(i) /\ Value(moment'[i]) # 0 => QuietPart(i)' /\ KnownPart(i)'
  PROVE  StaleInv'
<1>1. SampleInv'
  <2>1. /\ rx.pc \in {"momentLo", "momentHi"} => Elapsed(now, rx.receiveTime) <= saveTicks
        /\ rx.pc = "momentHi" => moment[rx.slot].lo \in {Lo(rx.receiveTime), 0}
    BY Zenon DEF StaleInv, SampleInv
  <2>2. moment'[rx.slot].lo \in {moment[rx.slot].lo, 0}
    BY RxTypes, Zenon
  <2>3. PICK s, t : s = rx.slot /\ t = rx.receiveTime
    BY Zenon
  <2>4. /\ rx'.pc \in {"momentLo", "momentHi"} => Elapsed(now', t) <= saveTicks'
        /\ rx'.pc = "momentHi" => moment'[s].lo \in {Lo(t), 0}
    BY <2>1, <2>2, <2>3, Zenon
  <2>5. rx'.slot = s /\ rx'.receiveTime = t
    BY <2>3, Zenon
  <2> QED
    BY <2>4, <2>5, Zenon DEF SampleInv, Elapsed, Lo
<1>2. ASSUME NEW i \in Slots, Value(moment'[i]) # 0, AtRest(i)'
      PROVE  StaleSlot(i)'
  <2>1. AtRest(i)
    BY <1>2, Zenon DEF AtRest
  <2>2. Value(moment[i]) # 0
    <3>1. moment[i].lo \in Regs /\ moment[i].hi \in Regs
      BY RxTypes, Zenon DEF Pair
    <3>2. 0 + Word * 0 = 0
      BY TimePositive, SMT
    <3>3. SUFFICES ASSUME Value(moment[i]) = 0 PROVE FALSE
      OBVIOUS
    <3>4. moment[i].lo = 0 /\ moment[i].hi = 0
      BY <3>1, <3>3, ValueZero DEF Value
    <3>5. moment'[i].lo = 0 /\ moment'[i].hi = 0
      BY <3>4, Zenon
    <3> QED
      BY <1>2, <3>2, <3>5, Zenon DEF Value
  <2>3. StaleSlot(i)
    BY <2>1, <2>2, Zenon DEF StaleInv
  <2>4. MomentPart(i)'
    BY <2>3, MomentKept, Zenon DEF StaleSlot
  <2> QED
    BY <1>2, <2>3, <2>4, Zenon DEF StaleSlot
<1>3. \A i \in Slots : Value(moment[i])' # 0 /\ AtRest(i)' => StaleSlot(i)'
  BY <1>2, Zenon DEF Value
<1>4. saveTicks' <= MaxTicksPerSave
  BY Zenon DEF StaleInv
<1> QED
  BY <1>1, <1>3, <1>4, Zenon DEF StaleInv

(* chk stays at its slot. *)
LEMMA ChkStays ==
  ASSUME NEW i \in Slots, StaleSlot(i), chk'.i = chk.i, chk.pc # "delay", chk'.pc # "delay",
         UNCHANGED <<quiet, passTicks>>
  PROVE  QuietPart(i)'
BY Zenon DEF StaleSlot, QuietPart, Visited

(* chk goes on to the next slot, or to sleep. *)
LEMMA ChkGoesOn ==
  ASSUME TypeOK, chk.pc # "delay", NextSlot, UNCHANGED <<quiet, passTicks>>
  PROVE  /\ chk'.pc \in {"readLo", "delay"} /\ (chk'.pc = "delay" => chk'.i = 0)
         /\ \A i \in Slots : StaleSlot(i) /\ (i = chk.i => quiet[i] <= Overtime + passTicks)
                               => QuietPart(i)' /\ KnownPart(i)'
<1>1. /\ chk \in ChkType /\ chk.i \in 0 .. (N - 1) /\ N \in Nat \ {0} /\ Slots = 0 .. (N - 1)
      /\ Overtime \in Nat /\ MaxTicksPerPass \in Nat /\ passTicks \in Nat
      /\ \A i \in Slots : i \in Nat /\ quiet[i] \in Nat
  BY ChkTypes
<1>2. /\ chk'.pc = IF chk.i + 1 < N THEN "readLo" ELSE "delay"
      /\ chk'.i = (chk.i + 1) % N
  BY <1>1, Zenon DEF NextSlot, ChkType
<1>3. chk'.pc \in {"readLo", "delay"}
  BY <1>2, Zenon
<1>4. /\ chk.i + 1 < N => chk'.pc = "readLo" /\ chk'.i = chk.i + 1
      /\ ~ (chk.i + 1 < N) => chk'.pc = "delay" /\ chk'.i = 0
  <2>1. PICK k \in 0 .. (N - 1) : k = chk.i
    BY <1>1
  <2>2. k + 1 \in Nat /\ 0 \in Nat /\ 0 < N /\ (~ (k + 1 < N) => k + 1 = 0 + N)
    BY <1>1, SMT
  <2>3. (k + 1 < N => (k + 1) % N = k + 1) /\ (0 + N) % N = 0
    BY <1>1, <2>2, ModSmall
  <2> QED
    BY <1>2, <2>1, <2>2, <2>3, Zenon
<1>5. chk'.pc = "delay" => chk'.i = 0
  BY <1>4
<1>6. ASSUME NEW i \in Slots, StaleSlot(i), i = chk.i => quiet[i] <= Overtime + passTicks
      PROVE  QuietPart(i)' /\ KnownPart(i)'
  <2>1. KnownPart(i)'
    <3>1. chk'.pc \notin {"readHi", "check", "clrMomentHi"}
      BY <1>3, SMT
    <3> QED
      BY <3>1, Zenon DEF KnownPart
  <2>2. quiet[i] <= Overtime + passTicks + (IF chk.i > i THEN 0 ELSE MaxTicksPerPass)
    BY <1>6, Zenon DEF StaleSlot, QuietPart, Visited
  <2>3. PICK k \in Nat, q \in Nat, p \in Nat, c \in Nat :
          k = chk.i /\ q = quiet[i] /\ p = passTicks /\ c = chk'.i
    <3>1. chk.i \in Nat /\ chk'.i \in Nat /\ quiet[i] \in Nat
      BY <1>1, <1>4, SMT
    <3> QED
      BY <1>1, <3>1
  <2>4. q <= Overtime + p + (IF k > i THEN 0 ELSE MaxTicksPerPass)
    BY <2>2, <2>3
  <2>5. i = k => q <= Overtime + p
    BY <1>6, <2>3
  <2>6. i \in Nat /\ i <= N - 1 /\ (k + 1 < N => c = k + 1)
    BY <1>1, <1>4, <2>3, SMT
  <2>7. q <= Overtime + p + (IF chk'.pc = "delay" \/ c > i THEN 0 ELSE MaxTicksPerPass)
    <3>1. CASE chk'.pc = "delay"
      <4>1. ~ (k + 1 < N)
        BY <1>4, <2>3, <3>1
      <4>2. k >= i
        BY <1>1, <2>6, <4>1, SMT
      <4>3. q <= Overtime + p
        BY <1>1, <2>4, <2>5, <2>6, <4>2, SMT
      <4> QED
        BY <1>1, <3>1, <4>3, SMT
    <3>2. CASE chk'.pc # "delay"
      <4>1. c = k + 1
        BY <1>4, <2>3, <3>2
      <4>2. q <= Overtime + p + (IF c > i THEN 0 ELSE MaxTicksPerPass)
        BY <1>1, <2>4, <2>5, <2>6, <4>1, SMT
      <4> QED
        BY <3>2, <4>2, Zenon
    <3> QED
      BY <3>1, <3>2
  <2>8. QuietPart(i)'
    BY <2>3, <2>7, Zenon DEF QuietPart, Visited
  <2> QED
    BY <2>1, <2>8
<1> QED
  BY <1>3, <1>5, <1>6

(* The check of a slot in time finds a moment that is long past.            *)
LEMMA StaleIsFound ==
  ASSUME TypeOK, OvertimeFits, StaleInv, NEW i \in Slots, StaleSlot(i), Value(moment[i]) # 0,
         Elapsed(now, Value(moment[i])) < Overtime
  PROVE  quiet[i] <= Overtime + passTicks
<1>1. PICK t \in 0 .. (Time - 1) : MomentOf(i, t)
  BY DEF StaleSlot, MomentPart
<1>2. /\ moment[i].lo \in {Lo(t), 0} /\ moment[i].hi \in {Hi(t), 0}
      /\ quiet[i] <= Elapsed(now, t) /\ Elapsed(now, t) <= quiet[i] + MaxTicksPerSave
  BY <1>1, Zenon DEF MomentOf
<1>3. now \in 0 .. (Time - 1)
  BY RxTypes
<1>4. Elapsed(now, t) \in 0 .. (Time - 1)
  BY <1>3, ElapsedIs
<1>5. /\ Overtime \in Nat /\ MaxTicksPerPass \in Nat /\ MaxTicksPerSave \in Nat
      /\ passTicks \in Nat /\ quiet[i] \in Nat /\ Word \in Nat /\ Time \in Nat
  BY ChkTypes, TimePositive
<1>6. passTicks <= MaxTicksPerPass
  BY DEF StaleInv
<1>7. quiet[i] <= Overtime + passTicks + MaxTicksPerPass
  <2>1. quiet[i] <= Overtime + passTicks + (IF Visited(i) THEN 0 ELSE MaxTicksPerPass)
    BY DEF StaleSlot, QuietPart
  <2> QED
    BY <1>5, <2>1, SMT
<1>8. PICK e \in Nat, q \in Nat : e = Elapsed(now, t) /\ q = quiet[i]
  BY <1>4, <1>5, SMT
<1>9. e < Word
  BY <1>2, <1>5, <1>6, <1>7, <1>8, SMT DEF OvertimeFits
<1>10. Elapsed(now, Value(moment[i])) >= e
  <2>1. moment[i].lo + Word * moment[i].hi # 0
    BY DEF Value
  <2>2. Elapsed(now, moment[i].lo + Word * moment[i].hi) >= Elapsed(now, t)
    BY <1>2, <1>3, <1>8, <1>9, <2>1, RestIsOlder
  <2> QED
    BY <1>8, <2>2 DEF Value
<1>11. moment[i].lo \in Regs /\ moment[i].hi \in Regs
  BY RxTypes, Zenon DEF Pair
<1>12. Value(moment[i]) \in 0 .. (Time - 1)
  BY <1>11, ValueRange DEF Value
<1>13. Elapsed(now, Value(moment[i])) \in 0 .. (Time - 1)
  BY <1>3, <1>12, ElapsedIs
<1>14. PICK x \in Nat : x = Elapsed(now, Value(moment[i]))
  BY <1>5, <1>13, SMT
<1>15. x < Overtime /\ x >= e /\ q <= e
  BY <1>2, <1>8, <1>10, <1>14
<1> QED
  BY <1>5, <1>8, <1>15, SMT

LEMMA StaleChk ==
  ASSUME TypeOK, OvertimeFits, StaleInv, ChkStep
  PROVE  StaleInv'
<1>1. /\ chk \in ChkType /\ chk.i \in Slots
      /\ Overtime \in Nat /\ MaxTicksPerPass \in Nat /\ passTicks \in Nat
      /\ \A i \in Slots : quiet[i] \in Nat
  BY ChkTypes, Zenon
<1>2. passTicks <= MaxTicksPerPass /\ (chk.pc = "delay" => chk.i = 0)
  BY DEF StaleInv
<1>3. moment \in [Slots -> Pair]
  BY RxTypes
(* chk stays where it is and learns nothing. *)
<1>4. ASSUME NEW pc \in ChkPCs \ {"delay", "readHi", "check", "clrMomentHi"},
             chk.pc # "delay", chk' = [chk EXCEPT !.pc = pc],
             UNCHANGED <<now, rx, quiet, saveTicks, passTicks, moment>>
      PROVE  StaleInv'
  <2>1. chk'.pc = pc /\ chk'.i = chk.i
    BY <1>1, <1>4, Zenon DEF ChkType
  <2>2. pc \notin {"delay", "readHi", "check", "clrMomentHi"}
    BY <1>4, Zenon
  <2>3. \A i \in Slots : StaleSlot(i) => QuietPart(i)' /\ KnownPart(i)'
    BY <1>4, <2>1, <2>2, ChkStays, Zenon DEF KnownPart
  <2> QED
    BY <1>2, <1>4, <2>1, <2>2, <2>3, ChkKeeps, Zenon
<1>5. ASSUME TimerInit \/ ClearTemperature \/ ClearVoltage \/ ClearSignalStrength
               \/ ClearLaunchLo \/ ClearLaunchHi
      PROVE  StaleInv'
  <2>1. UNCHANGED <<now, rx, quiet, saveTicks, passTicks, moment>>
    BY <1>5, Zenon DEF TimerInit, ClearTemperature, ClearVoltage, ClearSignalStrength,
                       ClearLaunchLo, ClearLaunchHi, regs, bounds, history
  <2>2. \E pc \in {"readLo", "clrVolt", "clrStat", "clrLaunchLo", "clrLaunchHi", "clrMomentLo"} :
           chk' = [chk EXCEPT !.pc = pc]
    BY <1>5, Zenon DEF TimerInit, ClearTemperature, ClearVoltage, ClearSignalStrength,
                       ClearLaunchLo, ClearLaunchHi, ChkGoto
  <2>3. {"readLo", "clrVolt", "clrStat", "clrLaunchLo", "clrLaunchHi", "clrMomentLo"}
          \subseteq ChkPCs \ {"delay", "readHi", "check", "clrMomentHi"}
    BY SMT DEF ChkPCs, ClearPCs
  <2>4. chk.pc # "delay"
    BY <1>5, SMT DEF TimerInit, ClearTemperature, ClearVoltage, ClearSignalStrength,
                     ClearLaunchLo, ClearLaunchHi
  <2> QED
    BY <1>4, <2>1, <2>2, <2>3, <2>4, Zenon
<1>6. ASSUME StartPass
      PROVE  StaleInv'
  <2>1. /\ chk.pc = "delay" /\ chk' = [chk EXCEPT !.pc = "readLo"] /\ passTicks' = 0
        /\ UNCHANGED <<now, rx, quiet, saveTicks, moment>>
    BY <1>6, Zenon DEF StartPass, ChkGoto, regs, history
  <2>2. chk'.pc = "readLo" /\ chk'.i = 0
    BY <1>1, <1>2, <2>1, Zenon DEF ChkType
  <2>3. ASSUME NEW i \in Slots, StaleSlot(i)
        PROVE  QuietPart(i)' /\ KnownPart(i)'
    <3>1. KnownPart(i)'
      BY <2>2, SMT DEF KnownPart
    <3>2. quiet[i] <= Overtime + passTicks + 0
      BY <2>1, <2>3, Zenon DEF StaleSlot, QuietPart, Visited
    <3>3. ~ Visited(i)'
      <4>1. ~ (0 > i)
        BY ChkTypes, SMT
      <4> QED
        BY <2>2, <4>1, SMT DEF Visited
    <3>4. quiet[i] <= Overtime + 0 + MaxTicksPerPass
      BY <1>1, <1>2, <3>2, SMT
    <3>5. QuietPart(i)'
      BY <2>1, <3>3, <3>4, Zenon DEF QuietPart
    <3> QED
      BY <3>1, <3>5
  <2>4. passTicks' <= MaxTicksPerPass
    BY <1>1, <2>1, SMT
  <2> QED
    BY <2>1, <2>2, <2>3, <2>4, ChkKeeps, Zenon
<1>7. ASSUME LoadMomentLo
      PROVE  StaleInv'
  <2>1. /\ chk.pc = "readLo" /\ UNCHANGED <<now, rx, quiet, saveTicks, passTicks, moment>>
        /\ chk' = [chk EXCEPT !.pc = "readHi", !.lo = moment[chk.i].lo]
    BY <1>7, Zenon DEF LoadMomentLo, regs, bounds, history
  <2>2. chk'.pc = "readHi" /\ chk'.i = chk.i /\ chk'.lo = moment[chk.i].lo
    BY <1>1, <2>1, Zenon DEF ChkType
  <2>3. chk'.pc \notin {"delay", "check", "clrMomentHi"} /\ chk.pc # "delay"
    BY <2>1, <2>2, SMT
  <2>4. \A i \in Slots : StaleSlot(i) => QuietPart(i)' /\ KnownPart(i)'
    BY <2>1, <2>2, <2>3, ChkStays, Zenon DEF KnownPart
  <2> QED
    BY <1>2, <2>1, <2>2, <2>3, <2>4, ChkKeeps, Zenon
(* chk goes on, having seen the moment, or rx has stored since. *)
<1>8. ASSUME chk.pc # "delay", NextSlot, UNCHANGED <<now, rx, quiet, saveTicks, passTicks>>,
             \A i \in Slots : /\ moment'[i].lo \in {moment[i].lo, 0}
                              /\ moment'[i].hi \in {moment[i].hi, 0},
             StaleSlot(chk.i) /\ Value(moment'[chk.i]) # 0
               => quiet[chk.i] <= Overtime + passTicks
      PROVE  StaleInv'
  <2>1. /\ chk'.pc = "delay" => chk'.i = 0
        /\ \A i \in Slots : StaleSlot(i) /\ (i = chk.i => quiet[i] <= Overtime + passTicks)
                               => QuietPart(i)' /\ KnownPart(i)'
    BY <1>8, ChkGoesOn, Zenon
  <2>2. \A i \in Slots : StaleSlot(i) /\ Value(moment'[i]) # 0 => QuietPart(i)' /\ KnownPart(i)'
    BY <1>8, <2>1, Zenon
  <2> QED
    BY <1>2, <1>8, <2>1, <2>2, ChkKeeps, Zenon
<1>9. Renewed(chk.i) => quiet[chk.i] <= Overtime + passTicks
  BY <1>1, SMT DEF Renewed
<1>10. ASSUME LoadMomentHi
       PROVE  StaleInv'
  <2>1. chk.pc = "readHi" /\ UNCHANGED <<now, rx, quiet, saveTicks, passTicks, moment>>
    BY <1>10, Zenon DEF LoadMomentHi, regs, bounds, history
  <2>2. chk.pc # "delay"
    BY <2>1
  <2>3. ASSUME chk.lo + Word * moment[chk.i].hi = 0, NextSlot
        PROVE  StaleInv'
    <3>1. ASSUME StaleSlot(chk.i), Value(moment[chk.i]) # 0
          PROVE  Renewed(chk.i)
      <4>1. chk.lo = moment[chk.i].lo \/ Renewed(chk.i)
        BY <2>1, <3>1, Zenon DEF StaleSlot, KnownPart
      <4>2. chk.lo # moment[chk.i].lo
        BY <2>3, <3>1, Zenon DEF Value
      <4> QED
        BY <4>1, <4>2
    <3> QED
      BY <1>8, <1>9, <2>1, <2>2, <2>3, <3>1, Zenon
  <2>4. ASSUME chk' = [chk EXCEPT !.pc = "check",
                                  !.startTime = chk.lo + Word * moment[chk.i].hi]
        PROVE  StaleInv'
    <3>1. /\ chk'.pc = "check" /\ chk'.i = chk.i
          /\ chk'.startTime = chk.lo + Word * moment[chk.i].hi
      BY <1>1, <2>4, Zenon DEF ChkType
    <3>2. chk'.pc \notin {"delay", "readHi", "clrMomentHi"}
      BY <3>1, SMT
    <3>3. ASSUME NEW i \in Slots, StaleSlot(i)
          PROVE  QuietPart(i)' /\ KnownPart(i)'
      <4>1. QuietPart(i)'
        BY <2>1, <2>2, <3>1, <3>2, <3>3, ChkStays, Zenon
      <4>2. chk.i = i => chk.lo = moment[i].lo \/ Renewed(i)
        BY <2>1, <3>3, Zenon DEF StaleSlot, KnownPart
      <4>3. chk.i = i => chk'.startTime = Value(moment[i]) \/ Renewed(i)
        BY <3>1, <4>2, Zenon DEF Value
      <4>4. KnownPart(i)'
        BY <2>1, <3>1, <3>2, <4>3, Zenon DEF KnownPart, Value, Renewed
      <4> QED
        BY <4>1, <4>4
    <3> QED
      BY <1>2, <2>1, <3>2, <3>3, ChkKeeps, Zenon
  <2> QED
    BY <1>10, <2>3, <2>4, Zenon DEF LoadMomentHi
<1>11. ASSUME CheckOvertime
       PROVE  StaleInv'
  <2>1. chk.pc = "check" /\ UNCHANGED <<now, rx, quiet, saveTicks, passTicks, moment>>
    BY <1>11, Zenon DEF CheckOvertime, regs, bounds, history
  <2>2. chk.pc # "delay"
    BY <2>1
  <2>3. ASSUME ChkGoto("clrTemp")
        PROVE  StaleInv'
    <3>1. "clrTemp" \in ChkPCs \ {"delay", "readHi", "check", "clrMomentHi"}
      BY SMT DEF ChkPCs, ClearPCs
    <3> QED
      BY <1>4, <2>1, <2>2, <2>3, <3>1, Zenon DEF ChkGoto
  <2>4. ASSUME ~ (Elapsed(now, chk.startTime) >= Overtime), NextSlot
        PROVE  StaleInv'
    <3>1. ASSUME StaleSlot(chk.i), Value(moment[chk.i]) # 0
          PROVE  quiet[chk.i] <= Overtime + passTicks
      <4>1. chk.startTime = Value(moment[chk.i]) \/ Renewed(chk.i)
        BY <2>1, <3>1, Zenon DEF StaleSlot, KnownPart
      <4>2. Elapsed(now, chk.startTime) < Overtime
        <5>1. chk.startTime \in 0 .. (Time - 1)
          BY <1>1, Zenon DEF ChkType
        <5>2. Elapsed(now, chk.startTime) \in 0 .. (Time - 1)
          BY <5>1, RxTypes, ElapsedIs
        <5> QED
          BY <1>1, <2>4, <5>2, TimePositive, SMT
      <4> QED
        BY <1>1, <1>9, <3>1, <4>1, <4>2, StaleIsFound, Zenon
    <3> QED
      BY <1>8, <2>1, <2>2, <2>4, <3>1, Zenon
  <2> QED
    BY <1>11, <2>3, <2>4, Zenon DEF CheckOvertime
<1>12. ASSUME ClearMomentLo
       PROVE  StaleInv'
  <2>1. /\ chk.pc = "clrMomentLo" /\ UNCHANGED <<now, rx, quiet, saveTicks, passTicks>>
        /\ chk' = [chk EXCEPT !.pc = "clrMomentHi"]
        /\ moment' = [moment EXCEPT ![chk.i].lo = 0]
    BY <1>12, Zenon DEF ClearMomentLo, ChkGoto, bounds, history
  <2>2. chk'.pc = "clrMomentHi" /\ chk'.i = chk.i
    BY <1>1, <2>1, Zenon DEF ChkType
  <2>3. chk.pc # "delay" /\ chk'.pc \notin {"delay", "readHi", "check"}
    BY <2>1, <2>2, SMT
  <2>4. \A i \in Slots : i # chk.i => moment'[i] = moment[i]
    BY <1>3, <2>1, Zenon
  <2>5. moment'[chk.i].lo = 0 /\ moment'[chk.i].hi = moment[chk.i].hi
    BY <1>1, <1>3, <2>1, Zenon DEF Pair
  <2>6. \A i \in Slots : /\ moment'[i].lo \in {moment[i].lo, 0}
                         /\ moment'[i].hi \in {moment[i].hi, 0}
    BY <2>4, <2>5, Zenon
  <2>7. \A i \in Slots : StaleSlot(i) => QuietPart(i)' /\ KnownPart(i)'
    <3>1. ASSUME NEW i \in Slots, StaleSlot(i)
          PROVE  KnownPart(i)'
      BY <2>2, <2>3, <2>5, Zenon DEF KnownPart
    <3> QED
      BY <2>1, <2>2, <2>3, <3>1, ChkStays, Zenon
  <2> QED
    BY <1>2, <2>1, <2>3, <2>6, <2>7, ChkKeeps, Zenon
<1>13. ASSUME ClearMomentHi
       PROVE  StaleInv'
  <2>1. /\ chk.pc = "clrMomentHi" /\ UNCHANGED <<now, rx, quiet, saveTicks, passTicks>>
        /\ NextSlot /\ moment' = [moment EXCEPT ![chk.i].hi = 0]
    BY <1>13, Zenon DEF ClearMomentHi, bounds, history
  <2>2. chk.pc # "delay"
    BY <2>1
  <2>3. \A i \in Slots : i # chk.i => moment'[i] = moment[i]
    BY <1>3, <2>1, Zenon
  <2>4. moment'[chk.i].hi = 0 /\ moment'[chk.i].lo = moment[chk.i].lo
    BY <1>1, <1>3, <2>1, Zenon DEF Pair
  <2>5. \A i \in Slots : /\ moment'[i].lo \in {moment[i].lo, 0}
                         /\ moment'[i].hi \in {moment[i].hi, 0}
    BY <2>3, <2>4, Zenon
  <2>6. ASSUME StaleSlot(chk.i), Value(moment'[chk.i]) # 0
        PROVE  Renewed(chk.i)
    <3>1. moment[chk.i].lo = 0 \/ Renewed(chk.i)
      BY <2>1, <2>6, Zenon DEF StaleSlot, KnownPart
    <3>2. 0 + Word * 0 = 0
      BY TimePositive, SMT
    <3>3. moment[chk.i].lo # 0
      BY <2>4, <2>6, <3>2, Zenon DEF Value
    <3> QED
      BY <3>1, <3>3
  <2> QED
    BY <1>8, <1>9, <2>1, <2>2, <2>5, <2>6, Zenon
<1> QED
  BY <1>5, <1>6, <1>7, <1>10, <1>11, <1>12, <1>13, Zenon DEF ChkStep

(* Quiet is counted, not yet saturated, in a slot with a moment. *)
LEMMA QuietBound ==
  ASSUME TypeOK, StaleInv, NEW i \in Slots, StaleSlot(i)
  PROVE  quiet[i] <= Overtime + 2 * MaxTicksPerPass /\ quiet[i] < QuietMax
<1>1. /\ Overtime \in Nat /\ MaxTicksPerPass \in Nat /\ passTicks \in Nat /\ quiet[i] \in Nat
  BY ChkTypes
<1>2. quiet[i] <= Overtime + passTicks + (IF Visited(i) THEN 0 ELSE MaxTicksPerPass)
  BY DEF StaleSlot, QuietPart
<1>3. passTicks <= MaxTicksPerPass
  BY DEF StaleInv
<1> QED
  BY <1>1, <1>2, <1>3, SMT DEF QuietMax

LEMMA StaleTick ==
  ASSUME TypeOK, OvertimeFits, StaleInv, NodeOvertimeTiming
  PROVE  StaleInv'
<1>1. /\ passTicks < MaxTicksPerPass /\ passTicks' = passTicks + 1
      /\ rx.pc = "delay" \/ saveTicks < MaxTicksPerSave
      /\ saveTicks' = IF rx.pc = "delay" THEN saveTicks ELSE saveTicks + 1
      /\ now' = (now + 1) % Time
      /\ quiet' = [i \in Slots |-> IF quiet[i] < QuietMax THEN quiet[i] + 1 ELSE QuietMax]
      /\ UNCHANGED <<moment, rx, chk>>
  BY Zenon DEF NodeOvertimeTiming, regs
<1>2. /\ Overtime \in Nat /\ MaxTicksPerPass \in Nat /\ MaxTicksPerSave \in Nat
      /\ passTicks \in Nat /\ saveTicks \in Nat /\ now \in 0 .. (Time - 1)
      /\ \A i \in Slots : quiet[i] \in Nat
  BY ChkTypes, RxTypes
<1>3. passTicks' <= MaxTicksPerPass /\ saveTicks' <= MaxTicksPerSave
  <2>1. saveTicks <= MaxTicksPerSave
    BY DEF StaleInv
  <2> QED
    BY <1>1, <1>2, <2>1, SMT
<1>4. Word \in Nat /\ Time \in Nat /\ Word + 1 <= Time
  <2>1. Word \in Nat /\ Word >= 2 /\ Time \in Nat
    BY TableAssumption, TimePositive, SMT
  <2>2. Word * 2 <= Word * Word
    BY <2>1, TimesMonotonic
  <2> QED
    BY <2>1, <2>2, SMT DEF Time
<1>5. ASSUME NEW t \in 0 .. (Time - 1), Elapsed(now, t) < Word
      PROVE  Elapsed(now', t) = Elapsed(now, t) + 1 /\ Elapsed(now, t) \in Nat
  <2>1. Elapsed(now, t) \in 0 .. (Time - 1)
    BY <1>2, ElapsedIs
  <2>2. Elapsed(now, t) + 1 < Time /\ Elapsed(now, t) \in Nat
    BY <1>4, <1>5, <2>1, SMT
  <2> QED
    BY <1>1, <1>2, <2>2, ElapsedTick
<1>6. SampleInv'
  <2>1. PICK t \in 0 .. (Time - 1) : t = rx.receiveTime
    BY RxTypes
  <2>2. ASSUME rx.pc \in {"momentLo", "momentHi"}
        PROVE  Elapsed(now', t) <= saveTicks'
    <3>1. Elapsed(now, t) <= saveTicks /\ saveTicks <= MaxTicksPerSave
      BY <2>1, <2>2, Zenon DEF StaleInv, SampleInv
    <3>2. Elapsed(now, t) \in 0 .. (Time - 1)
      BY <1>2, ElapsedIs
    <3>3. PICK e \in Nat : e = Elapsed(now, t)
      BY <1>4, <3>2, SMT
    <3>4. e < Word
      BY <1>2, <1>4, <3>1, <3>3, SMT DEF OvertimeFits
    <3>5. Elapsed(now', t) = e + 1
      BY <1>5, <3>3, <3>4
    <3>6. rx.pc # "delay"
      BY <2>2, SMT
    <3>7. saveTicks' = saveTicks + 1
      BY <1>1, <3>6, Zenon
    <3> QED
      BY <1>2, <3>1, <3>3, <3>5, <3>7, SMT
  <2>3. rx.pc = "momentHi" => moment[rx.slot].lo \in {Lo(t), 0}
    BY <2>1, Zenon DEF StaleInv, SampleInv
  <2>4. rx'.receiveTime = t /\ rx'.pc = rx.pc /\ moment'[rx'.slot] = moment[rx.slot]
    BY <1>1, <2>1, Zenon
  <2> QED
    BY <2>2, <2>3, <2>4, Zenon DEF SampleInv, Elapsed, Lo
<1>7. ASSUME NEW i \in Slots, Value(moment'[i]) # 0, AtRest(i)'
      PROVE  StaleSlot(i)'
  <2>1. AtRest(i) /\ Value(moment[i]) # 0
    BY <1>1, <1>7, Zenon DEF AtRest
  <2>2. StaleSlot(i)
    BY <2>1, Zenon DEF StaleInv
  <2>3. PICK q \in Nat, p \in Nat : q = quiet[i] /\ p = passTicks
    BY <1>2
  <2>4. q <= Overtime + 2 * MaxTicksPerPass /\ q < QuietMax
    BY <2>2, <2>3, QuietBound
  <2>5. quiet'[i] = q + 1 /\ passTicks' = p + 1
    BY <1>1, <2>3, <2>4, Zenon
  <2>6. MomentPart(i)'
    <3>1. PICK t \in 0 .. (Time - 1) : MomentOf(i, t)
      BY <2>2 DEF StaleSlot, MomentPart
    <3>2. /\ moment[i].lo \in {Lo(t), 0} /\ moment[i].hi \in {Hi(t), 0}
          /\ q <= Elapsed(now, t) /\ Elapsed(now, t) <= q + MaxTicksPerSave
      BY <2>3, <3>1, Zenon DEF MomentOf
    <3>3. Elapsed(now, t) \in 0 .. (Time - 1)
      BY <1>2, ElapsedIs
    <3>4. PICK e \in Nat : e = Elapsed(now, t)
      BY <1>4, <3>3, SMT
    <3>5. e < Word
      BY <1>2, <1>4, <2>4, <3>2, <3>4, SMT DEF OvertimeFits
    <3>6. Elapsed(now', t) = e + 1
      BY <1>5, <3>4, <3>5
    <3>7. q + 1 <= e + 1 /\ e + 1 <= (q + 1) + MaxTicksPerSave
      BY <1>2, <3>2, <3>4, SMT
    <3>8. MomentOf(i, t)'
      BY <1>1, <2>5, <3>2, <3>6, <3>7, Zenon DEF MomentOf
    <3> QED
      BY <3>8, Zenon DEF MomentPart
  <2>7. QuietPart(i)'
    <3>1. ASSUME NEW v \in {0, MaxTicksPerPass}, q <= Overtime + p + v
          PROVE  q + 1 <= Overtime + (p + 1) + v
      BY <1>2, <3>1, SMT
    <3>2. q <= Overtime + p + (IF Visited(i) THEN 0 ELSE MaxTicksPerPass)
      BY <2>2, <2>3, Zenon DEF StaleSlot, QuietPart
    <3>3. Visited(i)' <=> Visited(i)
      BY <1>1, Zenon DEF Visited
    <3> QED
      BY <2>5, <3>1, <3>2, <3>3, Zenon DEF QuietPart
  <2>8. Renewed(i) => Renewed(i)'
    <3>1. q <= p => q + 1 <= p + 1
      BY SMT
    <3> QED
      BY <2>3, <2>5, <3>1, Zenon DEF Renewed
  <2>9. KnownPart(i)'
    BY <1>1, <2>2, <2>8, Zenon DEF StaleSlot, KnownPart, Value
  <2> QED
    BY <2>6, <2>7, <2>9, Zenon DEF StaleSlot
<1>8. \A i \in Slots : Value(moment[i])' # 0 /\ AtRest(i)' => StaleSlot(i)'
  BY <1>7, Zenon DEF Value
<1>9. chk'.pc = "delay" => chk'.i = 0
  BY <1>1, Zenon DEF StaleInv
<1> QED
  BY <1>3, <1>6, <1>8, <1>9, Zenon DEF StaleInv

LEMMA StaleStep ==
  ASSUME TypeOK, IdInv, OvertimeFits, StaleInv, [Next]_vars
  PROVE  StaleInv'
<1>1. rx \in RxType
  BY RxTypes
<1>2. CASE UNCHANGED <<now, chk, passTicks, saveTicks, moment, quiet, rx>>
  <2>1. saveTicks' <= MaxTicksPerSave /\ SampleInv'
    BY <1>2, Zenon DEF StaleInv, SampleInv, Elapsed, Lo
  <2>2. \A i \in Slots : AtRest(i)' => AtRest(i)
    BY <1>2, Zenon DEF AtRest
  <2> QED
    BY <1>2, <2>1, <2>2, RxKeeps, Zenon
<1>3. ASSUME NEW d, NEW ret, ReceivePacket(d, ret)
      PROVE  StaleInv'
  <2>1. /\ rx.pc = "delay" /\ saveTicks' = 0
        /\ UNCHANGED <<now, chk, passTicks, moment, quiet>>
    BY <1>3, Zenon DEF ReceivePacket, regs, history
  <2>2. rx'.pc \in {"delay", "lookup"}
    <3>1. CASE RxSleep
      BY <1>1, <3>1, Zenon DEF RxSleep, RxType
    <3>2. CASE rx' = [rx EXCEPT !.pc = "lookup", !.valid = TRUE, !.dev = d]
      BY <1>1, <3>2, Zenon DEF RxType
    <3> QED
      BY <1>3, <3>1, <3>2, Zenon DEF ReceivePacket
  <2>3. rx'.pc \notin {"momentLo", "momentHi"} /\ rx.pc \notin SavePCs
    BY <2>1, <2>2, SMT DEF SavePCs
  <2>4. SampleInv'
    BY <2>3, Zenon DEF SampleInv
  <2>5. saveTicks' <= MaxTicksPerSave
    BY <2>1, TableAssumption, SMT
  <2>6. \A i \in Slots : AtRest(i)
    BY <2>3, Zenon DEF AtRest
  <2> QED
    BY <2>1, <2>4, <2>5, <2>6, RxKeeps, Zenon
<1>4. CASE Configure
  BY <1>2, <1>4, Zenon DEF Configure, StoreDeviceIdWord, bounds, history
<1>5. CASE UNCHANGED vars
  BY <1>2, <1>5, Zenon DEF vars, regs, bounds, history
<1> QED
  BY <1>3, <1>4, <1>5, StaleRx, StaleChk, StaleTick, Zenon DEF Next

LEMMA StaleInit ==
  ASSUME Init
  PROVE  StaleInv
<1>1. /\ passTicks = 0 /\ saveTicks = 0 /\ rx.pc = "delay" /\ chk.pc = "start"
      /\ moment = [i \in Slots |-> [lo |-> 0, hi |-> 0]]
  BY Zenon DEF Init
<1>2. passTicks <= MaxTicksPerPass /\ saveTicks <= MaxTicksPerSave
  BY <1>1, TableAssumption, SMT
<1>3. SampleInv /\ chk.pc # "delay"
  BY <1>1, SMT DEF SampleInv
<1>4. \A i \in Slots : Value(moment[i]) = 0
  <2>1. 0 + Word * 0 = 0
    BY TimePositive, SMT
  <2> QED
    BY <1>1, <2>1, Zenon DEF Value
<1> QED
  BY <1>2, <1>3, <1>4, Zenon DEF StaleInv

(* However the stores of SaveReceiveTime, the clears of the overtime thread *)
(* and the wraps of the counter interleave, no slot keeps a moment for more *)
(* than a pass after its deadline: a moment of which chk cleared a word     *)
(* looks older, never younger.                                              *)
THEOREM SilentNodesExpireInTime == OvertimeFits => (Spec => []BoundedStaleness)
<1> SUFFICES ASSUME OvertimeFits PROVE Spec => []BoundedStaleness
  OBVIOUS
<1>1. Init => StaleInv
  BY StaleInit
<1>2. TypeOK /\ IdInv /\ StaleInv /\ [Next]_vars => StaleInv'
  BY StaleStep
<1>3. TypeOK /\ StaleInv => BoundedStaleness
  <2>1. SUFFICES ASSUME TypeOK, StaleInv, NEW i \in Slots, Value(moment[i]) # 0, AtRest(i)
                 PROVE  quiet[i] < QuietMax
    BY Zenon DEF BoundedStaleness, AtRest
  <2>2. StaleSlot(i)
    BY <2>1, Zenon DEF StaleInv
  <2> QED
    BY <2>1, <2>2, QuietBound
<1> QED
  BY <1>1, <1>2, <1>3, TypeCorrect, IdInvariant, PTL DEF Spec
=============================================================================
