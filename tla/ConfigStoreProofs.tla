-------------------------- MODULE ConfigStoreProofs --------------------------
(***************************************************************************)
(* Proofs about ConfigStore, for any number of ids, any values the host    *)
(* writes and any number of writes and power cuts: type correctness, that  *)
(* the file always holds the configuration in use when SaveConfig rests,   *)
(* that every step is one of DurableConfig, that the registers show what   *)
(* was loaded, and, for a host that waits, that the ids it asked for are   *)
(* stored and the slave always starts again.                               *)
(***************************************************************************)
EXTENDS ConfigStore, TLAPS

(* What register 0 is decoded to has the type of the parameters. *)
LEMMA DecodedType == \A r \in Pair : Decoded(r).baud \in Nat /\ Decoded(r).addr \in Byte
<1> SUFFICES ASSUME NEW r \in Pair
             PROVE  Decoded(r).baud \in Nat /\ Decoded(r).addr \in Byte
  OBVIOUS
<1>1. r.hi \in Nat /\ r.lo \in Byte BY DEF Pair, Byte
<1>2. r.hi % 4 \in 0 .. 3 BY <1>1
<1>3. BaudRates[r.hi % 4] \in Nat BY <1>2 DEF BaudRates
<1> QED BY <1>1, <1>3 DEF Decoded

(* A baud rate is stood for by two bits. *)
LEMMA BaudCodeType == \A baud : BaudCode(baud) \in 0 .. 3
BY DEF BaudCode

(* What a boot takes from the file is a configuration. *)
LEMMA LoadedType == Default \in Config /\ (json \in JsonFile => Loaded(json) \in Config)
<1>1. Default \in Config BY DEF Default, Config, Byte
<1>2. json \in JsonFile => Loaded(json) \in Config
  BY <1>1 DEF JsonFile, Loaded, NoFile, Empty
<1> QED BY <1>1, <1>2

(* The constants that Init and Reboot start from have their types. *)
LEMMA StartTypes ==
  /\ Zero \in Pair /\ ZeroIds \in [Slots -> Pair] /\ 0 \in Slots
  /\ NoWrite \in [to : {"none", "reg0", "reg1", "id", "flags"}, slot : Slots,
                  lo : Byte, bits : SUBSET Bits]
<1>1. 0 \in Byte BY DEF Byte
<1>2. 0 \in Slots BY ConfigAssumption DEF Slots
<1>3. Zero \in Pair BY <1>1 DEF Zero, Pair
<1>4. ZeroIds \in [Slots -> Pair] BY <1>3 DEF ZeroIds
<1> QED BY <1>1, <1>2, <1>3, <1>4 DEF NoWrite

(* Power-up starts with the declared types. *)
LEMMA ConfigInitTypeOK == Init => TypeOK
<1> SUFFICES ASSUME Init PROVE TypeOK OBVIOUS
<1> USE StartTypes DEF Init
<1>1. /\ reg0 \in Pair /\ reg1 \in Pair /\ ids \in [Slots -> Pair]
      /\ lines \in [Slots -> Pair] /\ flags \subseteq Bits
  OBVIOUS
<1>2. wr \in [to : {"none", "reg0", "reg1", "id", "flags"}, slot : Slots,
              lo : Byte, bits : SUBSET Bits]
  OBVIOUS
<1>3. gcfg \in Config /\ overtime \in Nat BY LoadedType
<1>4. sc \in [pc : ScPCs, upd : BOOLEAN, line : Slots] BY DEF ScPCs
<1>5. slave \in [started : BOOLEAN, on : BOOLEAN, baud : Nat, addr : Nat] OBVIOUS
<1>6. formatted \in BOOLEAN BY ConfigAssumption
<1>7. mounted \in BOOLEAN OBVIOUS
<1>8. json \in JsonFile /\ csv \in CsvFile BY DEF JsonFile, CsvFile
<1>9. writes \in Nat /\ cuts \in Nat OBVIOUS
<1>10. asked \in [Slots -> Pair] \cup {NoIds} OBVIOUS
<1> QED BY <1>1, <1>2, <1>3, <1>4, <1>5, <1>6, <1>7, <1>8, <1>9, <1>10, Zenon DEF TypeOK

(* So does every reboot, whatever the flash holds. *)
LEMMA RebootTypeOK ==
  TypeOK /\ Reboot /\ UNCHANGED <<formatted, files>> /\ writes' \in Nat /\ cuts' \in Nat
    => TypeOK'
<1> SUFFICES ASSUME TypeOK, Reboot, UNCHANGED <<formatted, files>>,
                    writes' \in Nat, cuts' \in Nat
             PROVE  TypeOK'
  OBVIOUS
<1> USE StartTypes DEF Reboot
<1>1. /\ reg0' \in Pair /\ reg1' \in Pair /\ ids' \in [Slots -> Pair]
      /\ lines' \in [Slots -> Pair] /\ flags' \subseteq Bits
  OBVIOUS
<1>2. wr' \in [to : {"none", "reg0", "reg1", "id", "flags"}, slot : Slots,
               lo : Byte, bits : SUBSET Bits]
  OBVIOUS
<1>3. gcfg' \in Config /\ overtime' \in Nat BY LoadedType
<1>4. sc' \in [pc : ScPCs, upd : BOOLEAN, line : Slots] BY DEF ScPCs
<1>5. slave' \in [started : BOOLEAN, on : BOOLEAN, baud : Nat, addr : Nat] OBVIOUS
<1>6. formatted' \in BOOLEAN BY DEF TypeOK
<1>7. mounted' \in BOOLEAN OBVIOUS
<1>8. json' \in JsonFile /\ csv' \in CsvFile BY DEF TypeOK, files
<1>9. writes' \in Nat /\ cuts' \in Nat OBVIOUS
<1>10. asked' \in [Slots -> Pair] \cup {NoIds} OBVIOUS
<1> QED BY <1>1, <1>2, <1>3, <1>4, <1>5, <1>6, <1>7, <1>8, <1>9, <1>10, Zenon DEF TypeOK

(* Every step of SaveConfig keeps the types. *)
LEMMA SaveConfigTypeOK == TypeOK /\ SaveConfig => TypeOK'
<1> SUFFICES ASSUME TypeOK, SaveConfig PROVE TypeOK' OBVIOUS
<1> USE DEF TypeOK, ScPCs, registers, files, bounds
<1>1. CASE FileOperateInit BY <1>1 DEF FileOperateInit, Goto
<1>2. CASE StartCheckOverTime
  <2>1. gcfg.over * 60 \in Nat BY DEF Config, Byte
  <2> QED BY <1>2, <2>1 DEF StartCheckOverTime, Goto
<1>3. CASE GetJsonFile BY <1>3, LoadedType DEF GetJsonFile, Goto
<1>4. CASE ConfigModbusHoldRegister
  <2>1. gcfg.addr \in Byte /\ gcfg.over \in Byte BY DEF Config
  <2>2. 12 + BaudCode(gcfg.baud) \in Byte BY BaudCodeType DEF Byte
  <2>3. reg0' \in Pair /\ reg1' \in Pair
    <3>1. 0 \in Byte BY SMT DEF Byte
    <3> QED BY <1>4, <2>1, <2>2, <3>1, Zenon DEF ConfigModbusHoldRegister, Pair
  <2> QED BY <1>4, <2>3 DEF ConfigModbusHoldRegister, Goto
<1>5. CASE ReadDeviceIdFile
  <2>1. csv.is = "ok" => csv.ids \in [Slots -> Pair] BY DEF CsvFile, NoFile, Empty
  <2> QED BY <1>5, <2>1 DEF ReadDeviceIdFile, Goto
<1>6. CASE TakeParameters
  <2>1. reg1.lo \in Byte BY DEF Pair
  <2>2. gcfg' \in Config BY <1>6, <2>1, DecodedType DEF TakeParameters, Config
  <2> QED BY <1>6, <2>2 DEF TakeParameters
<1>7. CASE OpenDeviceIdFile
  BY <1>7, StartTypes DEF OpenDeviceIdFile, CsvFile
<1>8. CASE WriteDeviceIdLine
  <2>1. sc.line + 1 < N => sc.line + 1 \in Slots BY ConfigAssumption DEF Slots
  <2> QED BY <1>8, <2>1 DEF WriteDeviceIdLine, Goto
<1>9. CASE CloseDeviceIdFile
  BY <1>9 DEF CloseDeviceIdFile, Goto, CsvFile
<1>10. CASE OpenJsonFile
  BY <1>10 DEF OpenJsonFile, Goto, JsonFile
<1>11. CASE CloseJsonFile
  BY <1>11 DEF CloseJsonFile, JsonFile
<1>12. CASE SystemReset
  BY <1>12, RebootTypeOK DEF SystemReset
<1>13. CASE Sleep BY <1>13 DEF Sleep, Goto
<1>14. CASE Wake BY <1>14 DEF Wake, Goto
<1> QED
  BY <1>1, <1>2, <1>3, <1>4, <1>5, <1>6, <1>7, <1>8, <1>9, <1>10, <1>11, <1>12,
     <1>13, <1>14 DEF SaveConfig

(* Every store of the poll thread keeps the types. *)
LEMMA PollTypeOK == TypeOK /\ Poll => TypeOK'
<1> SUFFICES ASSUME TypeOK, Poll PROVE TypeOK' OBVIOUS
<1> USE StartTypes DEF TypeOK, registers, files, bounds
<1>1. CASE ModbusSlavePollStart
  <2>1. gcfg.baud \in Nat /\ gcfg.addr \in Nat BY DEF Config, Byte
  <2> QED BY <1>1, <2>1 DEF ModbusSlavePollStart
<1>2. ASSUME NEW v \in HostReg0, HostWriteReg0(v) PROVE TypeOK'
  <2>1. v.hi \in Byte /\ v.lo \in Byte /\ 0 \in Byte BY ConfigAssumption DEF Pair, Byte
  <2>2. wr' \in [to : {"none", "reg0", "reg1", "id", "flags"}, slot : Slots, lo : Byte,
                  bits : SUBSET Bits]
    BY <1>2, <2>1 DEF HostWriteReg0, NoWrite
  <2> QED BY <1>2, <2>1, <2>2 DEF HostWriteReg0, Pair
<1>3. ASSUME NEW v \in HostReg1, HostWriteReg1(v) PROVE TypeOK'
  <2>1. v.hi \in Byte /\ v.lo \in Byte /\ 0 \in Byte BY ConfigAssumption DEF Pair, Byte
  <2>2. wr' \in [to : {"none", "reg0", "reg1", "id", "flags"}, slot : Slots, lo : Byte,
                  bits : SUBSET Bits]
    BY <1>3, <2>1 DEF HostWriteReg1, NoWrite
  <2> QED BY <1>3, <2>1, <2>2 DEF HostWriteReg1, Pair
<1>4. ASSUME NEW i \in Slots, NEW v \in HostIds, HostWriteId(i, v) PROVE TypeOK'
  <2>1. v.hi \in Byte /\ v.lo \in Byte /\ 0 \in Byte BY ConfigAssumption DEF Pair, Byte
  <2>2. wr' \in [to : {"none", "reg0", "reg1", "id", "flags"}, slot : Slots, lo : Byte,
                  bits : SUBSET Bits]
    BY <1>4, <2>1 DEF HostWriteId, NoWrite
  <2> QED BY <1>4, <2>1, <2>2 DEF HostWriteId, Pair
<1>5. ASSUME NEW bits \in HostFlags, HostWriteFlags(bits) PROVE TypeOK'
  <2>1. bits \subseteq Bits BY ConfigAssumption
  <2>2. bits \cap 8 .. 15 \subseteq Bits /\ bits \cap 0 .. 7 \subseteq Bits BY <2>1
  <2>3. wr' \in [to : {"none", "reg0", "reg1", "id", "flags"}, slot : Slots, lo : Byte,
                  bits : SUBSET Bits]
    BY <1>5, <2>2 DEF HostWriteFlags, NoWrite
  <2> QED BY <1>5, <2>2, <2>3 DEF HostWriteFlags
<1>6. CASE FinishWrite
  <2>1. wr.lo \in Byte /\ wr.slot \in Slots /\ wr.bits \subseteq Bits OBVIOUS
  <2>2. reg0' \in Pair /\ reg1' \in Pair BY <1>6, <2>1 DEF FinishWrite, Pair
  <2>3. ids' \in [Slots -> Pair] BY <1>6, <2>1 DEF FinishWrite, Pair
  <2>4. flags' \subseteq Bits BY <1>6, <2>1 DEF FinishWrite
  <2> QED BY <1>6, <2>2, <2>3, <2>4 DEF FinishWrite
<1> QED BY <1>1, <1>2, <1>3, <1>4, <1>5, <1>6 DEF Poll

(* Every step of the system keeps the types. *)
LEMMA ConfigNextTypeOK == TypeOK /\ [Next]_vars => TypeOK'
<1> SUFFICES ASSUME TypeOK, [Next]_vars PROVE TypeOK' OBVIOUS
<1>1. CASE PowerCut
  <2>1. writes' \in Nat /\ cuts' \in Nat BY <1>1 DEF PowerCut, TypeOK
  <2> QED BY <1>1, <2>1, RebootTypeOK DEF PowerCut
<1>2. CASE UNCHANGED vars
  BY <1>2 DEF vars, TypeOK, registers, files, bounds
<1> QED BY <1>1, <1>2, SaveConfigTypeOK, PollTypeOK DEF Next

(* Registers, parameters and files keep their types, and SaveDeviceIdFile   *)
(* never indexes past the last id.                                          *)
THEOREM ConfigTypeCorrect == Spec => []TypeOK
BY ConfigInitTypeOK, ConfigNextTypeOK, PTL DEF Spec

-----------------------------------------------------------------------------
(* The file holds the configuration *)

(* RebootKeepsConfiguration speaks of SaveConfig at rest.  The inductive    *)
(* invariant follows it round its loop: isConfigUpdata is set whenever the  *)
(* parameters in use differ from the file's, and only then is a difference  *)
(* allowed; it is clear when the loop starts again.                         *)
SaveInv ==
  /\ sc.pc \in {"mount", "overtime", "json?", "registers", "ids?", "check",
                "reset?", "sleep"} => ~ sc.upd
  /\ mounted /\ ~ sc.upd /\ sc.pc \notin {"mount", "overtime", "json?"}
       => Loaded(json) = gcfg
  /\ sc.pc = "jsonClose" => sc.upd

(* A reboot starts over, whatever the file holds. *)
LEMMA RebootSaveInv == Reboot => SaveInv'
BY DEF Reboot, SaveInv

(* SaveInv is inductive. *)
LEMMA NextSaveInv == TypeOK /\ SaveInv /\ [Next]_vars => SaveInv'
<1> SUFFICES ASSUME TypeOK, SaveInv, [Next]_vars PROVE SaveInv' OBVIOUS
<1>1. sc \in [pc : ScPCs, upd : BOOLEAN, line : Slots] /\ gcfg \in Config
  BY DEF TypeOK
(* Steps that leave the parameters, the file and isConfigUpdata alone. *)
<1>2. ASSUME UNCHANGED <<mounted, gcfg, json>>, sc'.upd = sc.upd,
             sc'.pc = sc.pc \/ sc'.pc \in {"csvLine", "csvClose", "upd"},
             sc.pc \notin {"mount", "overtime", "json?"}
      PROVE  SaveInv'
  BY <1>2 DEF SaveInv
<1>3. CASE FileOperateInit BY <1>1, <1>3 DEF FileOperateInit, Goto, SaveInv
<1>4. CASE StartCheckOverTime BY <1>1, <1>4 DEF StartCheckOverTime, Goto, SaveInv
<1>5. CASE GetJsonFile BY <1>1, <1>5 DEF GetJsonFile, Goto, SaveInv, files
<1>6. CASE ConfigModbusHoldRegister
  BY <1>1, <1>6 DEF ConfigModbusHoldRegister, Goto, SaveInv, files
<1>7. CASE ReadDeviceIdFile
  BY <1>1, <1>7 DEF ReadDeviceIdFile, Goto, SaveInv, files
<1>8. CASE TakeParameters
  <2>1. ~ sc.upd BY <1>8 DEF TakeParameters, SaveInv
  <2>2. UNCHANGED <<mounted, json>> BY <1>8 DEF TakeParameters, files
  <2>3. sc'.pc \in {"csvOpen", "upd"} BY <1>1, <1>8 DEF TakeParameters
  <2>4. ~ sc'.upd => 0 \notin flags /\ 1 \notin flags BY <1>1, <1>8 DEF TakeParameters
  <2>5. ~ sc'.upd => gcfg' = gcfg BY <1>1, <1>8, <2>4 DEF TakeParameters, Config
  <2>6. mounted => Loaded(json) = gcfg BY <1>8, <2>1 DEF TakeParameters, SaveInv
  <2> QED BY <2>2, <2>3, <2>5, <2>6 DEF SaveInv, Loaded
<1>9. CASE OpenDeviceIdFile BY <1>1, <1>2, <1>9 DEF OpenDeviceIdFile
<1>10. CASE WriteDeviceIdLine BY <1>1, <1>2, <1>10 DEF WriteDeviceIdLine, Goto, files
<1>11. CASE CloseDeviceIdFile BY <1>1, <1>2, <1>11 DEF CloseDeviceIdFile, Goto
<1>12. CASE OpenJsonFile BY <1>1, <1>12 DEF OpenJsonFile, Goto, SaveInv
<1>13. CASE CloseJsonFile BY <1>1, <1>13 DEF CloseJsonFile, SaveInv, Loaded
<1>14. CASE SystemReset BY <1>14, RebootSaveInv DEF SystemReset
<1>15. CASE Sleep BY <1>1, <1>15 DEF Sleep, Goto, SaveInv, files
<1>16. CASE Wake BY <1>1, <1>16 DEF Wake, Goto, SaveInv, files
(* The poll thread and a stuttering step touch none of these. *)
<1>17. CASE Poll
  <2>1. UNCHANGED <<mounted, gcfg, json, sc>>
    BY <1>17 DEF Poll, ModbusSlavePollStart, HostWriteReg0, HostWriteReg1, HostWriteId,
                 HostWriteFlags, FinishWrite, files
  <2> QED BY <2>1 DEF SaveInv
<1>18. CASE PowerCut BY <1>18, RebootSaveInv DEF PowerCut
<1>19. CASE UNCHANGED vars BY <1>19 DEF vars, files, SaveInv
<1> QED
  BY <1>3, <1>4, <1>5, <1>6, <1>7, <1>8, <1>9, <1>10, <1>11, <1>12, <1>13, <1>14,
     <1>15, <1>16, <1>17, <1>18, <1>19 DEF Next, SaveConfig

(* A reboot at rest, asked for or not, brings back exactly the parameters   *)
(* in use: SaveConfigThreadEntry never goes to sleep or resets with a       *)
(* parameter the file does not hold, however often the power failed before. *)
THEOREM ConfigurationSurvivesReboot == Spec => []RebootKeepsConfiguration
<1>1. Init => SaveInv BY DEF Init, SaveInv
<1>2. SaveInv => RebootKeepsConfiguration BY DEF SaveInv, RebootKeepsConfiguration
<1> QED BY <1>1, <1>2, NextSaveInv, ConfigTypeCorrect, PTL DEF Spec
-----------------------------------------------------------------------------
(* The refinement of DurableConfig *)

(* What the refinement needs besides SaveInv: flash that is mounted holds a *)
(* file system, and a json file is only there once one was mounted, so that *)
(* a boot that cannot mount has nothing to load.                            *)
FlashInv ==
  /\ mounted => formatted
  /\ ~ formatted => json = NoFile
  /\ ~ mounted /\ sc.pc # "mount" => json = NoFile

(* FlashInv is inductive. *)
LEMMA NextFlashInv == TypeOK /\ FlashInv /\ [Next]_vars => FlashInv'
<1> SUFFICES ASSUME TypeOK, FlashInv, [Next]_vars PROVE FlashInv' OBVIOUS
<1>1. /\ sc \in [pc : ScPCs, upd : BOOLEAN, line : Slots]
      /\ formatted \in BOOLEAN /\ mounted \in BOOLEAN
  BY DEF TypeOK
(* Steps that leave the flash alone and are not part of the boot. *)
<1>2. ASSUME UNCHANGED <<formatted, mounted, json>>, sc.pc # "mount"
      PROVE  FlashInv'
  BY <1>2 DEF FlashInv
(* A reboot unmounts the flash. *)
<1>3. ASSUME Reboot, UNCHANGED <<formatted, json>> PROVE FlashInv'
  BY <1>3 DEF Reboot, FlashInv
<1>4. CASE FileOperateInit BY <1>1, <1>4 DEF FileOperateInit, Goto, FlashInv, files
<1>5. CASE \/ StartCheckOverTime \/ GetJsonFile \/ ConfigModbusHoldRegister
           \/ ReadDeviceIdFile \/ TakeParameters
  BY <1>2, <1>5 DEF StartCheckOverTime, GetJsonFile, ConfigModbusHoldRegister,
                    ReadDeviceIdFile, TakeParameters, files
<1>6. CASE OpenDeviceIdFile \/ WriteDeviceIdLine \/ CloseDeviceIdFile
  BY <1>2, <1>6 DEF OpenDeviceIdFile, WriteDeviceIdLine, CloseDeviceIdFile, files
<1>7. CASE OpenJsonFile BY <1>7 DEF OpenJsonFile, FlashInv
<1>8. CASE CloseJsonFile BY <1>8 DEF CloseJsonFile, FlashInv
<1>9. CASE SystemReset BY <1>3, <1>9 DEF SystemReset, files
<1>10. CASE Sleep \/ Wake BY <1>2, <1>10 DEF Sleep, Wake, files
<1>11. CASE Poll
  BY <1>2, <1>11 DEF Poll, PollMayRun, HostMayWrite, ModbusSlavePollStart,
       HostWriteReg0, HostWriteReg1, HostWriteId, HostWriteFlags, FinishWrite, files
<1>12. CASE PowerCut BY <1>3, <1>12 DEF PowerCut, files
<1>13. CASE UNCHANGED vars BY <1>13 DEF vars, files, FlashInv
<1> QED
  BY <1>4, <1>5, <1>6, <1>7, <1>8, <1>9, <1>10, <1>11, <1>12, <1>13
     DEF Next, SaveConfig

(* A reboot, asked for or not, comes up with what the file holds. *)
LEMMA RebootComesUp ==
  FlashInv /\ TypeOK /\ Reboot /\ UNCHANGED <<formatted, files>> => Durable!ComesUp
<1> SUFFICES ASSUME FlashInv, TypeOK, Reboot, UNCHANGED <<formatted, files>>
             PROVE  Durable!ComesUp
  OBVIOUS
<1>1. sc' = [pc |-> "mount", upd |-> FALSE, line |-> 0] /\ json' = json
  BY DEF Reboot, files
<1>2. Loaded(json)' = Loaded(json) BY <1>1 DEF Loaded
<1>3. formatted' \in {TRUE, IF sc.pc = "mount" THEN formatted ELSE mounted}
  BY DEF TypeOK, FlashInv
<1> QED BY <1>1, <1>2, <1>3 DEF Durable!ComesUp, Booting

(* Every step of the detailed specification is one of the abstract one, or  *)
(* changes nothing the abstract one sees.                                   *)
LEMMA StepRefines ==
  TypeOK /\ SaveInv /\ FlashInv /\ [Next]_vars => [Durable!Next]_(Durable!vars)
<1> SUFFICES ASSUME TypeOK, SaveInv, FlashInv, [Next]_vars
             PROVE  [Durable!Next]_(Durable!vars)
  OBVIOUS
<1>1. /\ sc \in [pc : ScPCs, upd : BOOLEAN, line : Slots] /\ gcfg \in Config
      /\ formatted \in BOOLEAN /\ mounted \in BOOLEAN /\ json \in JsonFile
  BY DEF TypeOK
(* After the boot, steps that leave the parameters, the json file and       *)
(* isConfigUpdata alone stutter.                                            *)
<1>2. ASSUME UNCHANGED <<mounted, gcfg, json, cuts>>, sc'.upd = sc.upd,
             sc.pc \notin {"mount", "overtime", "json?"},
             sc'.pc \notin {"mount", "overtime", "json?"}
      PROVE  UNCHANGED Durable!vars
  BY <1>2 DEF Durable!vars, Booting, Loaded
<1>3. CASE FileOperateInit
  BY <1>1, <1>3 DEF FileOperateInit, Goto, Durable!vars, Booting, Loaded, files, bounds
<1>4. CASE StartCheckOverTime
  BY <1>1, <1>4 DEF StartCheckOverTime, Goto, Durable!vars, Booting, Loaded, files, bounds
<1>5. CASE GetJsonFile
  <2>1. ~ mounted => Loaded(json) = Default BY <1>5 DEF GetJsonFile, FlashInv, Loaded, NoFile
  <2>2. gcfg' = Loaded(json) /\ json' = json /\ mounted' = mounted /\ cuts' = cuts
    BY <1>5, <2>1 DEF GetJsonFile, files, bounds
  <2>3. sc'.pc = "registers" /\ sc'.upd = sc.upd /\ sc.pc = "json?"
    BY <1>1, <1>5 DEF GetJsonFile, Goto
  <2> QED BY <2>2, <2>3 DEF Durable!vars, Booting, Loaded
<1>6. CASE ConfigModbusHoldRegister
  BY <1>1, <1>2, <1>6 DEF ConfigModbusHoldRegister, Goto, files, bounds
<1>7. CASE ReadDeviceIdFile BY <1>1, <1>2, <1>7 DEF ReadDeviceIdFile, Goto, files, bounds
<1>8. CASE TakeParameters
  <2>1. /\ UNCHANGED <<mounted, json, cuts>> /\ sc.pc = "check"
        /\ sc'.pc \in {"csvOpen", "upd"} /\ ~ sc.upd
    BY <1>1, <1>8 DEF TakeParameters, files, bounds, SaveInv
  <2>2. CASE 0 \in flags \/ 1 \in flags
    <3>1. sc'.upd = TRUE BY <1>1, <1>8, <2>2 DEF TakeParameters
    <3>2. gcfg' \in Config
      BY <1>8, ConfigNextTypeOK DEF TypeOK
    <3>3. Durable!Change BY <2>1, <3>1, <3>2 DEF Durable!Change, Booting, Loaded
    <3> QED BY <3>3 DEF Durable!Next
  <2>3. CASE 0 \notin flags /\ 1 \notin flags
    <3>1. sc'.upd = sc.upd BY <1>1, <1>8, <2>1, <2>3 DEF TakeParameters
    <3>2. gcfg' = gcfg BY <1>1, <1>8, <2>3 DEF TakeParameters, Config
    <3> QED BY <1>2, <2>1, <3>1, <3>2
  <2> QED BY <2>2, <2>3
<1>9. CASE OpenDeviceIdFile BY <1>1, <1>2, <1>9 DEF OpenDeviceIdFile, bounds
<1>10. CASE WriteDeviceIdLine
  BY <1>1, <1>2, <1>10 DEF WriteDeviceIdLine, Goto, files, bounds
<1>11. CASE CloseDeviceIdFile BY <1>1, <1>2, <1>11 DEF CloseDeviceIdFile, Goto, bounds
<1>12. CASE OpenJsonFile
  <2>1. /\ UNCHANGED <<mounted, gcfg, cuts>> /\ sc.pc = "upd"
        /\ sc'.pc \in {"jsonClose", "reset?"} /\ sc'.upd = sc.upd
    BY <1>1, <1>12 DEF OpenJsonFile, Goto, bounds
  <2>2. CASE sc.upd /\ mounted
    <3>1. Loaded(json)' = Default BY <1>12, <2>2 DEF OpenJsonFile, Loaded, Empty
    <3>2. Durable!BeginSave BY <2>1, <2>2, <3>1 DEF Durable!BeginSave, Booting
    <3> QED BY <3>2 DEF Durable!Next
  <2>3. CASE ~ (sc.upd /\ mounted)
    <3>1. json' = json BY <1>12, <2>3 DEF OpenJsonFile
    <3> QED BY <1>2, <2>1, <3>1
  <2> QED BY <2>2, <2>3
<1>13. CASE CloseJsonFile
  <2>1. /\ UNCHANGED <<mounted, gcfg, cuts>> /\ sc.pc = "jsonClose" /\ sc.upd
        /\ sc'.pc = "reset?" /\ sc'.upd = FALSE
    BY <1>1, <1>13 DEF CloseJsonFile, bounds, SaveInv
  <2>2. Loaded(json)' = IF mounted THEN gcfg ELSE Loaded(json)
    BY <1>13 DEF CloseJsonFile, Loaded
  <2>3. Durable!EndSave BY <2>1, <2>2 DEF Durable!EndSave, Booting
  <2> QED BY <2>3 DEF Durable!Next
<1>14. CASE SystemReset
  <2>1. Durable!ComesUp BY <1>14, RebootComesUp DEF SystemReset
  <2>2. /\ sc.pc = "reset?" /\ ~ sc.upd /\ (mounted => Loaded(json) = gcfg)
        /\ cuts' = cuts /\ json' = json /\ sc'.pc = "mount"
    BY <1>14 DEF SystemReset, SaveInv, bounds, files, Reboot
  <2>3. Durable!Restart BY <2>1, <2>2 DEF Durable!Restart, Booting, Loaded
  <2> QED BY <2>3 DEF Durable!Next
<1>15. CASE Sleep \/ Wake BY <1>1, <1>2, <1>15 DEF Sleep, Wake, Goto, files, bounds
<1>16. CASE Poll
  <2>1. UNCHANGED <<mounted, gcfg, json, cuts, sc>>
    BY <1>16 DEF Poll, ModbusSlavePollStart, HostWriteReg0, HostWriteReg1, HostWriteId,
                 HostWriteFlags, FinishWrite, files, bounds
  <2>2. sc.pc \notin {"mount", "overtime", "json?"}
    BY <1>16 DEF Poll, PollMayRun, HostMayWrite, ModbusSlavePollStart, HostWriteReg0,
                 HostWriteReg1, HostWriteId, HostWriteFlags, FinishWrite
  <2> QED BY <1>2, <2>1, <2>2
<1>17. CASE PowerCut
  <2>1. Durable!ComesUp BY <1>17, RebootComesUp DEF PowerCut
  <2>2. Durable!PowerFails BY <1>17, <2>1 DEF PowerCut, Durable!PowerFails
  <2> QED BY <2>2 DEF Durable!Next
<1>18. CASE UNCHANGED vars
  BY <1>18 DEF vars, files, bounds, Durable!vars, Booting, Loaded
<1> QED
  BY <1>3, <1>4, <1>5, <1>6, <1>7, <1>8, <1>9, <1>10, <1>11, <1>12, <1>13, <1>14,
     <1>15, <1>16, <1>17, <1>18 DEF Next, SaveConfig

(* The safety part of ImplementsDurableConfig: a parameter is never lost    *)
(* without a power failure, SystemReset waits for the save, a failure in    *)
(* the middle of Create_JsonFile leaves the defaults, and flash that could  *)
(* be mounted once can be mounted after every later restart.                *)
THEOREM ConfigStoreRefinesDurableConfig == Spec => Durable!Safety
<1>1. Init => SaveInv BY DEF Init, SaveInv
<1>2. Init => FlashInv BY DEF Init, FlashInv
<1>3. Init => Durable!Init
  BY ConfigAssumption DEF Init, Durable!Init, Booting, Loaded, NoFile
<1> QED
  BY <1>1, <1>2, <1>3, ConfigTypeCorrect, NextSaveInv, NextFlashInv, StepRefines, PTL
     DEF Spec, Durable!Safety
-----------------------------------------------------------------------------
(* The registers show the configuration *)

Rates == {BaudRates[c] : c \in 0 .. 3}

(* Only the four baud rates of the protocol are ever in use or in the file, *)
(* so that each has a code; ConfigModbusHoldRegister is then inverted by    *)
(* HostSetModbusParameter, and nothing comes between the two.               *)
RatesInv ==
  /\ gcfg.baud \in Rates
  /\ Loaded(json).baud \in Rates
  /\ RegistersShowConfiguration

(* What register 0 is decoded to has one of the four baud rates. *)
LEMMA DecodedRate == \A r \in Pair : Decoded(r).baud \in Rates
<1> SUFFICES ASSUME NEW r \in Pair PROVE Decoded(r).baud \in Rates OBVIOUS
<1>1. r.hi % 4 \in 0 .. 3 BY DEF Pair, Byte
<1> QED BY <1>1 DEF Decoded, Rates

(* The bits that ConfigModbusHoldRegister writes for a baud rate stand for  *)
(* that baud rate when they are read back.                                  *)
LEMMA CodeDecodes ==
  \A baud \in Rates : BaudRates[(12 + BaudCode(baud)) % 4] = baud
<1> SUFFICES ASSUME NEW baud \in Rates
             PROVE  BaudRates[(12 + BaudCode(baud)) % 4] = baud
  OBVIOUS
<1>1. \E c \in 0 .. 3 : BaudRates[c] = baud BY DEF Rates
<1>2. BaudRates[BaudCode(baud)] = baud BY <1>1 DEF BaudCode
<1>3. BaudCode(baud) \in 0 .. 3 BY BaudCodeType
<1>4. (12 + BaudCode(baud)) % 4 = BaudCode(baud) BY <1>3
<1> QED BY <1>2, <1>4

(* The default configuration has one of the four baud rates. *)
LEMMA DefaultRate == Default.baud \in Rates
<1>1. BaudRates[3] = 115200 BY DEF BaudRates
<1> QED BY <1>1 DEF Default, Rates

(* RatesInv is inductive. *)
LEMMA NextRatesInv == TypeOK /\ RatesInv /\ [Next]_vars => RatesInv'
<1> SUFFICES ASSUME TypeOK, RatesInv, [Next]_vars PROVE RatesInv' OBVIOUS
<1>1. /\ sc \in [pc : ScPCs, upd : BOOLEAN, line : Slots] /\ gcfg \in Config
      /\ reg0 \in Pair
  BY DEF TypeOK
(* Steps that leave parameters and file alone, and do not lead to where     *)
(* RegistersShowConfiguration speaks.                                       *)
<1>2. ASSUME UNCHANGED <<gcfg, json>>, sc'.pc # "ids?" PROVE RatesInv'
  BY <1>2 DEF RatesInv, Loaded, RegistersShowConfiguration
<1>3. ASSUME Reboot, UNCHANGED json PROVE RatesInv'
  <2>1. gcfg' = Default /\ sc'.pc = "mount" BY <1>3 DEF Reboot
  <2> QED BY <1>3, <2>1, DefaultRate DEF RatesInv, Loaded, RegistersShowConfiguration
<1>4. CASE FileOperateInit BY <1>1, <1>2, <1>4 DEF FileOperateInit, Goto, files
<1>5. CASE StartCheckOverTime BY <1>1, <1>2, <1>5 DEF StartCheckOverTime, Goto, files
<1>6. CASE GetJsonFile
  <2>1. gcfg' = (IF mounted THEN Loaded(json) ELSE Default) /\ json' = json
    BY <1>6 DEF GetJsonFile, files
  <2>2. sc'.pc = "registers" BY <1>1, <1>6 DEF GetJsonFile, Goto
  <2> QED BY <2>1, <2>2, DefaultRate DEF RatesInv, Loaded, RegistersShowConfiguration
<1>7. CASE ConfigModbusHoldRegister
  <2>1. UNCHANGED <<gcfg, json>> BY <1>7 DEF ConfigModbusHoldRegister, files
  <2>2. reg0'.hi = 12 + BaudCode(gcfg.baud) /\ reg0'.lo = gcfg.addr /\ reg1'.lo = gcfg.over
    BY <1>7 DEF ConfigModbusHoldRegister
  <2>3. BaudRates[reg0'.hi % 4] = gcfg.baud BY <2>2, CodeDecodes DEF RatesInv
  <2>4. Decoded(reg0)' = [baud |-> gcfg.baud, addr |-> gcfg.addr]
    BY <2>2, <2>3 DEF Decoded
  <2>5. RegistersShowConfiguration'
    BY <2>1, <2>2, <2>4 DEF RegistersShowConfiguration
  <2> QED BY <2>1, <2>5 DEF RatesInv, Loaded
<1>8. CASE ReadDeviceIdFile BY <1>1, <1>2, <1>8 DEF ReadDeviceIdFile, Goto, files
<1>9. CASE TakeParameters
  <2>1. gcfg'.baud \in Rates BY <1>9, <1>1, DecodedRate DEF TakeParameters, RatesInv
  <2>2. json' = json /\ sc'.pc # "ids?" BY <1>1, <1>9 DEF TakeParameters, files
  <2> QED BY <2>1, <2>2 DEF RatesInv, Loaded, RegistersShowConfiguration
<1>10. CASE OpenDeviceIdFile BY <1>1, <1>2, <1>10 DEF OpenDeviceIdFile
<1>11. CASE WriteDeviceIdLine BY <1>1, <1>2, <1>11 DEF WriteDeviceIdLine, Goto, files
<1>12. CASE CloseDeviceIdFile BY <1>1, <1>2, <1>12 DEF CloseDeviceIdFile, Goto
<1>13. CASE OpenJsonFile
  <2>1. gcfg' = gcfg /\ sc'.pc # "ids?" BY <1>1, <1>13 DEF OpenJsonFile, Goto
  <2>2. Loaded(json)' \in {Loaded(json), Default} BY <1>13 DEF OpenJsonFile, Loaded, Empty
  <2> QED BY <2>1, <2>2, DefaultRate DEF RatesInv, RegistersShowConfiguration
<1>14. CASE CloseJsonFile
  <2>1. gcfg' = gcfg /\ sc'.pc # "ids?" BY <1>1, <1>14 DEF CloseJsonFile
  <2>2. Loaded(json)' \in {Loaded(json), gcfg} BY <1>14 DEF CloseJsonFile, Loaded
  <2> QED BY <2>1, <2>2 DEF RatesInv, RegistersShowConfiguration
<1>15. CASE SystemReset BY <1>3, <1>15 DEF SystemReset, files
<1>16. CASE Sleep \/ Wake BY <1>1, <1>2, <1>16 DEF Sleep, Wake, Goto, files
<1>17. CASE Poll
  <2>1. UNCHANGED <<gcfg, json, sc>>
    BY <1>17 DEF Poll, ModbusSlavePollStart, HostWriteReg0, HostWriteReg1, HostWriteId,
                 HostWriteFlags, FinishWrite, files
  <2>2. sc.pc # "ids?"
    BY <1>17 DEF Poll, PollMayRun, HostMayWrite, ModbusSlavePollStart, HostWriteReg0,
                 HostWriteReg1, HostWriteId, HostWriteFlags, FinishWrite
  <2> QED BY <1>2, <2>1, <2>2
<1>18. CASE PowerCut BY <1>3, <1>18 DEF PowerCut, files
<1>19. CASE UNCHANGED vars
  BY <1>19 DEF vars, files, registers, RatesInv, Loaded, RegistersShowConfiguration, Decoded
<1> QED
  BY <1>4, <1>5, <1>6, <1>7, <1>8, <1>9, <1>10, <1>11, <1>12, <1>13, <1>14,
     <1>15, <1>16, <1>17, <1>18, <1>19 DEF Next, SaveConfig

(* After every boot the registers read back as the configuration in use, so *)
(* a host that sets bit 0 without writing register 0 changes nothing.       *)
THEOREM RegistersAreInverse == Spec => []RegistersShowConfiguration
<1>1. Init => RatesInv
  BY DefaultRate DEF Init, RatesInv, Loaded, NoFile, RegistersShowConfiguration
<1>2. RatesInv => RegistersShowConfiguration BY DEF RatesInv
<1> QED BY <1>1, <1>2, NextRatesInv, ConfigTypeCorrect, PTL DEF Spec

-----------------------------------------------------------------------------
(* What a host that waits for its answers may rely on *)

(* While a bit the code acts on is set no register write is under way; only *)
(* a write of register 7 has bits to set; until the first wait of           *)
(* SaveConfig there is no request.                                          *)
PoliteInv ==
  /\ flags \cap {0, 1, 3} # {} => wr = NoWrite
  /\ wr.to # "flags" => wr.bits = {}
  /\ sc.pc \in {"mount", "overtime", "json?", "registers", "ids?"}
       => flags = {} /\ wr = NoWrite /\ asked = NoIds

(* PoliteInv is inductive for a host that waits for register 7 to be 0. *)
LEMMA NextPoliteInv == Polite /\ TypeOK /\ PoliteInv /\ [Next]_vars => PoliteInv'
<1> SUFFICES ASSUME Polite, TypeOK, PoliteInv, [Next]_vars PROVE PoliteInv' OBVIOUS
<1>1. /\ sc \in [pc : ScPCs, upd : BOOLEAN, line : Slots]
      /\ wr \in [to : {"none", "reg0", "reg1", "id", "flags"}, slot : Slots,
                 lo : Byte, bits : SUBSET Bits]
  BY DEF TypeOK
(* Steps of SaveConfig clear bits and leave the write under way alone. *)
<1>2. ASSUME UNCHANGED <<wr, asked>>, flags' \subseteq flags,
             sc'.pc \in {"mount", "overtime", "json?", "registers", "ids?"}
               => sc.pc \in {"mount", "overtime", "json?", "registers", "ids?"}
      PROVE  PoliteInv'
  BY <1>2 DEF PoliteInv
<1>3. ASSUME Reboot PROVE PoliteInv' BY <1>3 DEF Reboot, PoliteInv, NoWrite
<1>4. CASE FileOperateInit \/ StartCheckOverTime \/ GetJsonFile
  BY <1>1, <1>2, <1>4 DEF FileOperateInit, StartCheckOverTime, GetJsonFile, Goto, registers
<1>5. CASE ConfigModbusHoldRegister \/ ReadDeviceIdFile
  BY <1>1, <1>2, <1>5 DEF ConfigModbusHoldRegister, ReadDeviceIdFile, Goto
<1>6. CASE TakeParameters BY <1>1, <1>2, <1>6 DEF TakeParameters
<1>7. CASE OpenDeviceIdFile \/ WriteDeviceIdLine
  BY <1>1, <1>2, <1>7 DEF OpenDeviceIdFile, WriteDeviceIdLine, Goto, registers
<1>8. CASE CloseDeviceIdFile BY <1>1, <1>2, <1>8 DEF CloseDeviceIdFile, Goto
<1>9. CASE OpenJsonFile \/ CloseJsonFile \/ Sleep \/ Wake
  BY <1>1, <1>2, <1>9 DEF OpenJsonFile, CloseJsonFile, Sleep, Wake, Goto, registers
<1>10. CASE SystemReset BY <1>3, <1>10 DEF SystemReset
<1>11. CASE ModbusSlavePollStart BY <1>1, <1>2, <1>11 DEF ModbusSlavePollStart, registers
(* A write begins when no bit is set, and its first store sets none of them. *)
<1>12. ASSUME HostMayWrite, flags' \subseteq 8 .. 15, UNCHANGED <<sc, asked>>,
              wr'.to # "flags" => wr'.bits = {}
       PROVE  PoliteInv'
  <2>1. sc.pc \notin {"mount", "overtime", "json?", "registers", "ids?"}
    BY <1>12 DEF HostMayWrite, PollMayRun
  <2>2. flags' \cap {0, 1, 3} = {} BY <1>12
  <2> QED BY <1>12, <2>1, <2>2 DEF PoliteInv
<1>13. ASSUME HostMayWrite PROVE flags = {} BY <1>13 DEF HostMayWrite
<1>14. CASE \E v \in HostReg0 : HostWriteReg0(v)
  BY <1>12, <1>13, <1>14 DEF HostWriteReg0, NoWrite
<1>15. CASE \E v \in HostReg1 : HostWriteReg1(v)
  BY <1>12, <1>13, <1>15 DEF HostWriteReg1, NoWrite
<1>16. CASE \E i \in Slots, v \in HostIds : HostWriteId(i, v)
  BY <1>12, <1>13, <1>16 DEF HostWriteId, NoWrite
<1>17. CASE \E bits \in HostFlags : HostWriteFlags(bits)
  BY <1>12, <1>17 DEF HostWriteFlags, NoWrite
<1>18. CASE FinishWrite
  BY <1>18 DEF FinishWrite, PollMayRun, PoliteInv, NoWrite
<1>19. CASE PowerCut BY <1>3, <1>19 DEF PowerCut
<1>20. CASE UNCHANGED vars BY <1>20 DEF vars, registers, PoliteInv
<1> QED
  BY <1>4, <1>5, <1>6, <1>7, <1>8, <1>9, <1>10, <1>11, <1>14, <1>15, <1>16, <1>17,
     <1>18, <1>19, <1>20 DEF Next, SaveConfig, Poll

(* PoliteInv holds of every behaviour with such a host. *)
LEMMA PoliteInvariant == Polite => (Spec => []PoliteInv)
<1> SUFFICES ASSUME Polite PROVE Spec => []PoliteInv OBVIOUS
<1>1. Init => PoliteInv BY DEF Init, PoliteInv, NoWrite
<1>2. TypeOK /\ PoliteInv /\ [Next]_vars => PoliteInv' BY NextPoliteInv
<1> QED BY <1>1, <1>2, ConfigTypeCorrect, PTL DEF Spec

(* The ids the host asked to save stay as they are until bit 3 is cleared,  *)
(* the lines written so far are those ids, and after that the file is what  *)
(* was asked for.                                                           *)
IdsInv ==
  /\ sc.pc \in {"csvOpen", "csvLine", "csvClose"} => 3 \in flags
  /\ 3 \in flags => asked = ids
  /\ sc.pc = "csvLine" => \A i \in Slots : i < sc.line => lines[i] = ids[i]
  /\ sc.pc = "csvClose" => lines = ids
  /\ mounted /\ asked # NoIds /\ 3 \notin flags => csv = [is |-> "ok", ids |-> asked]

(* IdsInv is inductive for a host that waits for register 7 to be 0. *)
LEMMA NextIdsInv ==
  Polite /\ TypeOK /\ PoliteInv /\ IdsInv /\ [Next]_vars => IdsInv'
<1> SUFFICES ASSUME Polite, TypeOK, PoliteInv, IdsInv, [Next]_vars PROVE IdsInv'
  OBVIOUS
<1>1. /\ sc \in [pc : ScPCs, upd : BOOLEAN, line : Slots]
      /\ lines \in [Slots -> Pair] /\ ids \in [Slots -> Pair]
      /\ wr \in [to : {"none", "reg0", "reg1", "id", "flags"}, slot : Slots,
                 lo : Byte, bits : SUBSET Bits]
  BY DEF TypeOK
(* Steps that have nothing to do with the ids. *)
<1>2. ASSUME UNCHANGED <<ids, lines, csv, asked, mounted>>, 3 \in flags <=> 3 \in flags',
             \/ sc' = sc
             \/ sc'.pc \notin {"csvOpen", "csvLine", "csvClose"}
      PROVE  IdsInv'
  BY <1>2 DEF IdsInv
(* While the relay starts there is no request. *)
<1>3. ASSUME flags' = {}, asked' = NoIds,
             sc'.pc \notin {"csvOpen", "csvLine", "csvClose"}
      PROVE  IdsInv'
  BY <1>3 DEF IdsInv
<1>4. CASE FileOperateInit \/ ReadDeviceIdFile
  BY <1>1, <1>3, <1>4 DEF FileOperateInit, ReadDeviceIdFile, PoliteInv, Goto, registers
<1>5. CASE StartCheckOverTime \/ GetJsonFile \/ ConfigModbusHoldRegister
  BY <1>1, <1>2, <1>5 DEF StartCheckOverTime, GetJsonFile, ConfigModbusHoldRegister,
                          Goto, registers, files
<1>6. CASE TakeParameters
  <2>1. UNCHANGED <<ids, lines, csv, asked, mounted>> /\ (3 \in flags <=> 3 \in flags')
    BY <1>6 DEF TakeParameters, files
  <2>2. sc'.pc = IF 3 \in flags THEN "csvOpen" ELSE "upd"
    BY <1>1, <1>6 DEF TakeParameters
  <2> QED BY <2>1, <2>2 DEF IdsInv
<1>7. CASE OpenDeviceIdFile
  <2>1. 3 \in flags /\ UNCHANGED <<ids, lines, asked, flags>>
    BY <1>7 DEF OpenDeviceIdFile, IdsInv, registers
  <2>2. sc'.pc = "csvLine" /\ sc'.line = 0 BY <1>1, <1>7 DEF OpenDeviceIdFile
  <2>3. \A i \in Slots : ~ (i < 0) BY DEF Slots
  <2> QED BY <2>1, <2>2, <2>3 DEF IdsInv
<1>8. CASE WriteDeviceIdLine
  <2>1. 3 \in flags /\ asked = ids /\ UNCHANGED <<ids, csv, asked, flags, mounted>>
    BY <1>8 DEF WriteDeviceIdLine, IdsInv, registers, files
  <2>2. \A i \in Slots : i < sc.line + 1 => lines'[i] = ids[i]
    <3> SUFFICES ASSUME NEW i \in Slots, i < sc.line + 1 PROVE lines'[i] = ids[i]
      OBVIOUS
    <3>1. i = sc.line \/ i < sc.line BY <1>1, ConfigAssumption DEF Slots
    <3>2. i < sc.line => lines[i] = ids[i] BY <1>8 DEF WriteDeviceIdLine, IdsInv
    <3> QED BY <1>1, <1>8, <3>1, <3>2 DEF WriteDeviceIdLine
  <2>3. CASE sc.line + 1 < N
    <3>1. sc'.pc = "csvLine" /\ sc'.line = sc.line + 1
      BY <1>1, <1>8, <2>3 DEF WriteDeviceIdLine
    <3> QED BY <2>1, <2>2, <3>1 DEF IdsInv
  <2>4. CASE ~ (sc.line + 1 < N)
    <3>1. sc'.pc = "csvClose" BY <1>1, <1>8, <2>4 DEF WriteDeviceIdLine, Goto
    <3>2. \A i \in Slots : i < sc.line + 1 BY <1>1, <2>4, ConfigAssumption DEF Slots
    <3>3. \A i \in Slots : lines'[i] = ids[i] BY <2>2, <3>2
    <3>4. lines' \in [Slots -> Pair] BY <1>1, <1>8 DEF WriteDeviceIdLine
    <3>5. lines' = ids BY <1>1, <3>3, <3>4
    <3> QED BY <2>1, <3>1, <3>5 DEF IdsInv
  <2> QED BY <2>3, <2>4
<1>9. CASE CloseDeviceIdFile
  <2>1. 3 \notin flags' /\ UNCHANGED <<ids, lines, asked, mounted>>
    BY <1>9 DEF CloseDeviceIdFile
  <2>2. sc'.pc = "upd" BY <1>1, <1>9 DEF CloseDeviceIdFile, Goto
  <2>3. lines = asked BY <1>9 DEF CloseDeviceIdFile, IdsInv
  <2>4. mounted => csv' = [is |-> "ok", ids |-> asked] BY <1>9, <2>3 DEF CloseDeviceIdFile
  <2> QED BY <2>1, <2>2, <2>4 DEF IdsInv
<1>10. CASE OpenJsonFile \/ CloseJsonFile
  BY <1>1, <1>2, <1>10 DEF OpenJsonFile, CloseJsonFile, Goto, registers
<1>11. CASE SystemReset \/ PowerCut BY <1>3, <1>11 DEF SystemReset, PowerCut, Reboot
<1>12. CASE Sleep \/ Wake BY <1>1, <1>2, <1>12 DEF Sleep, Wake, Goto, registers, files
<1>13. CASE ModbusSlavePollStart BY <1>2, <1>13 DEF ModbusSlavePollStart, registers, files
<1>14. CASE \E v \in HostReg0 : HostWriteReg0(v) BY <1>2, <1>14 DEF HostWriteReg0, files
<1>15. CASE \E v \in HostReg1 : HostWriteReg1(v) BY <1>2, <1>15 DEF HostWriteReg1, files
(* No write of an id begins before the file is complete. *)
<1>16. CASE \E i \in Slots, v \in HostIds : HostWriteId(i, v)
  <2>1. flags = {} /\ UNCHANGED <<flags, lines, csv, asked, mounted, sc>>
    BY <1>16 DEF HostWriteId, HostMayWrite, files
  <2> QED BY <2>1 DEF IdsInv
<1>17. CASE \E bits \in HostFlags : HostWriteFlags(bits)
  <2>1. flags = {} /\ 3 \notin flags' /\ UNCHANGED <<ids, lines, csv, asked, mounted, sc>>
    BY <1>17 DEF HostWriteFlags, HostMayWrite, files
  <2> QED BY <1>2, <2>1
<1>18. CASE FinishWrite
  <2>1. /\ 3 \notin flags /\ UNCHANGED <<sc, csv, lines, mounted>>
        /\ flags' = flags \cup wr.bits
    BY <1>18 DEF FinishWrite, PoliteInv, files
  <2>2. sc.pc \notin {"csvOpen", "csvLine", "csvClose"} BY <2>1 DEF IdsInv
  <2>3. CASE 3 \in wr.bits
    <3>1. wr.to = "flags" BY <2>3 DEF PoliteInv
    <3>2. ids' = ids /\ asked' = ids BY <1>18, <2>3, <3>1 DEF FinishWrite
    <3> QED BY <2>1, <2>2, <2>3, <3>2 DEF IdsInv
  <2>4. CASE 3 \notin wr.bits
    <3>1. asked' = asked /\ 3 \notin flags' BY <1>18, <2>1, <2>4 DEF FinishWrite
    <3> QED BY <2>1, <2>2, <3>1 DEF IdsInv
  <2> QED BY <2>3, <2>4
<1>19. CASE UNCHANGED vars BY <1>2, <1>19 DEF vars, registers, files
<1> QED
  BY <1>4, <1>5, <1>6, <1>7, <1>8, <1>9, <1>10, <1>11, <1>12, <1>13, <1>14, <1>15,
     <1>16, <1>17, <1>18, <1>19 DEF Next, SaveConfig, Poll

(* A host that waits for register 7 to be 0 finds, when bit 3 is clear      *)
(* again, the ids for which it set the bit in DeviceId.csv, all N of them   *)
(* and no other, although SaveDeviceIdFile writes them line by line while   *)
(* the poll thread runs.                                                    *)
THEOREM PoliteHostsIdsAreStored == Polite => (Spec => []AskedIdsAreStored)
<1> SUFFICES ASSUME Polite PROVE Spec => []AskedIdsAreStored OBVIOUS
<1>1. Init => IdsInv BY DEF Init, IdsInv
<1>2. TypeOK /\ PoliteInv /\ IdsInv /\ [Next]_vars => IdsInv' BY NextIdsInv
<1>3. IdsInv => AskedIdsAreStored BY DEF IdsInv, AskedIdsAreStored
<1>4. Spec => []PoliteInv BY PoliteInvariant
<1> QED BY <1>1, <1>2, <1>3, <1>4, ConfigTypeCorrect, PTL DEF Spec

-----------------------------------------------------------------------------
(* The slave comes up *)

(* The addresses that eMBInit accepts. *)
Addresses == 1 .. 247

(* Every slave address that is in use, in the file, in register 0 or on its *)
(* way there is one that eMBInit accepts; register 0 holds another only     *)
(* before the boot has set it, and between the two stores of a write.       *)
AddressInv ==
  /\ gcfg.addr \in Addresses
  /\ Loaded(json).addr \in Addresses
  /\ wr.to = "reg0" => wr.lo \in Addresses
  /\ sc.pc \notin {"mount", "overtime", "json?", "registers"} /\ wr.to # "reg0"
       => reg0.lo \in Addresses
  /\ SlaveStarts

(* What the host sends to register 0 has such an address. *)
ValidHost == Polite /\ \A v \in HostReg0 : v.lo \in Addresses

(* AddressInv is inductive for such a host. *)
LEMMA NextAddressInv ==
  ValidHost /\ TypeOK /\ PoliteInv /\ AddressInv /\ [Next]_vars => AddressInv'
<1> SUFFICES ASSUME ValidHost, TypeOK, PoliteInv, AddressInv, [Next]_vars
             PROVE  AddressInv'
  OBVIOUS
<1>1. /\ sc \in [pc : ScPCs, upd : BOOLEAN, line : Slots] /\ reg0 \in Pair
      /\ gcfg \in Config
      /\ wr \in [to : {"none", "reg0", "reg1", "id", "flags"}, slot : Slots,
                 lo : Byte, bits : SUBSET Bits]
  BY DEF TypeOK
<1>2. Default.addr \in Addresses BY DEF Default, Addresses
(* Steps of SaveConfig that leave register 0 alone: the address in use is   *)
(* the one before, the file's or the default, and so is the file's.         *)
<1>3. ASSUME gcfg'.addr \in Addresses, Loaded(json)'.addr \in Addresses,
             UNCHANGED <<wr, reg0, slave>>,
             sc.pc \in {"mount", "overtime", "json?"} =>
               sc'.pc \in {"mount", "overtime", "json?", "registers"},
             sc.pc # "registers"
      PROVE  AddressInv'
  BY <1>3 DEF AddressInv, SlaveStarts
<1>4. ASSUME Reboot, UNCHANGED json PROVE AddressInv'
  <2>1. /\ gcfg' = Default /\ Loaded(json)' = Loaded(json) /\ wr'.to = "none"
        /\ sc'.pc = "mount" /\ slave'.started = FALSE
    BY <1>4 DEF Reboot, Loaded, NoWrite
  <2> QED BY <1>2, <2>1 DEF AddressInv, SlaveStarts
<1>5. CASE FileOperateInit \/ StartCheckOverTime
  BY <1>1, <1>3, <1>5 DEF FileOperateInit, StartCheckOverTime, Goto, files, registers,
                          AddressInv, Loaded
<1>6. CASE GetJsonFile
  <2>1. gcfg' \in {Loaded(json), Default} /\ Loaded(json)' = Loaded(json)
    BY <1>6 DEF GetJsonFile, files, Loaded
  <2>2. UNCHANGED <<wr, reg0, slave>> /\ sc.pc = "json?" /\ sc'.pc = "registers"
    BY <1>1, <1>6 DEF GetJsonFile, registers, Goto
  <2> QED BY <1>2, <1>3, <2>1, <2>2 DEF AddressInv
<1>7. CASE ConfigModbusHoldRegister
  <2>1. /\ UNCHANGED <<gcfg, wr, slave>> /\ Loaded(json)' = Loaded(json)
        /\ reg0'.lo = gcfg.addr
    BY <1>7 DEF ConfigModbusHoldRegister, files, Loaded
  <2> QED BY <2>1 DEF AddressInv, SlaveStarts
<1>8. CASE ReadDeviceIdFile
  BY <1>1, <1>3, <1>8 DEF ReadDeviceIdFile, Goto, files, AddressInv, Loaded
<1>9. CASE TakeParameters
  <2>1. 0 \in flags => wr = NoWrite BY DEF PoliteInv
  <2>2. 0 \in flags => reg0.lo \in Addresses
    BY <1>9, <2>1 DEF AddressInv, TakeParameters, NoWrite
  <2>3. gcfg'.addr \in Addresses BY <1>9, <2>2 DEF TakeParameters, Decoded, AddressInv
  <2>4. /\ UNCHANGED <<wr, reg0, slave>> /\ Loaded(json)' = Loaded(json)
        /\ sc.pc = "check"
    BY <1>9 DEF TakeParameters, files, Loaded
  <2> QED BY <1>3, <2>3, <2>4 DEF AddressInv
<1>10. CASE OpenDeviceIdFile
  BY <1>1, <1>3, <1>10 DEF OpenDeviceIdFile, registers, AddressInv, Loaded
<1>11. CASE WriteDeviceIdLine
  BY <1>1, <1>3, <1>11 DEF WriteDeviceIdLine, Goto, registers, files, AddressInv, Loaded
<1>12. CASE CloseDeviceIdFile
  BY <1>1, <1>3, <1>12 DEF CloseDeviceIdFile, Goto, AddressInv, Loaded
<1>13. CASE OpenJsonFile
  <2>1. UNCHANGED <<gcfg, wr, reg0, slave>> /\ sc.pc = "upd"
    BY <1>13 DEF OpenJsonFile, registers
  <2>2. Loaded(json)' \in {Loaded(json), Default} BY <1>13 DEF OpenJsonFile, Loaded, Empty
  <2> QED BY <1>2, <1>3, <2>1, <2>2 DEF AddressInv
<1>14. CASE CloseJsonFile
  <2>1. UNCHANGED <<gcfg, wr, reg0, slave>> /\ sc.pc = "jsonClose"
    BY <1>14 DEF CloseJsonFile, registers
  <2>2. Loaded(json)' \in {Loaded(json), gcfg} BY <1>14 DEF CloseJsonFile, Loaded
  <2> QED BY <1>3, <2>1, <2>2 DEF AddressInv
<1>15. CASE SystemReset \/ PowerCut BY <1>4, <1>15 DEF SystemReset, PowerCut, files
<1>16. CASE Sleep \/ Wake
  BY <1>1, <1>3, <1>16 DEF Sleep, Wake, Goto, registers, files, AddressInv, Loaded
<1>17. CASE ModbusSlavePollStart
  <2>1. UNCHANGED <<gcfg, json, wr, reg0, sc>> /\ slave'.on = (gcfg.addr \in Addresses)
    BY <1>17 DEF ModbusSlavePollStart, registers, files, Addresses
  <2> QED BY <2>1 DEF AddressInv, SlaveStarts, Loaded
<1>18. ASSUME NEW v \in HostReg0, HostWriteReg0(v) PROVE AddressInv'
  <2>1. wr'.to = "reg0" /\ wr'.lo = v.lo BY <1>18 DEF HostWriteReg0, NoWrite
  <2>2. v.lo \in Addresses BY DEF ValidHost
  <2>3. UNCHANGED <<gcfg, json, slave, sc>> BY <1>18 DEF HostWriteReg0, files
  <2> QED BY <2>1, <2>2, <2>3 DEF AddressInv, SlaveStarts, Loaded
(* A write to another register leaves register 0 complete. *)
<1>19. ASSUME HostMayWrite, UNCHANGED <<gcfg, json, slave, sc, reg0>>, wr'.to # "reg0"
       PROVE  AddressInv'
  <2>1. wr.to # "reg0" BY <1>19 DEF HostMayWrite, NoWrite
  <2> QED BY <1>19, <2>1 DEF AddressInv, SlaveStarts, Loaded
<1>20. CASE \E v \in HostReg1 : HostWriteReg1(v)
  BY <1>19, <1>20 DEF HostWriteReg1, NoWrite, files
<1>21. CASE \E i \in Slots, v \in HostIds : HostWriteId(i, v)
  BY <1>19, <1>21 DEF HostWriteId, NoWrite, files
<1>22. CASE \E bits \in HostFlags : HostWriteFlags(bits)
  BY <1>19, <1>22 DEF HostWriteFlags, NoWrite, files
<1>23. CASE FinishWrite
  <2>1. UNCHANGED <<gcfg, json, slave, sc>> /\ wr'.to = "none"
    BY <1>23 DEF FinishWrite, files, NoWrite
  <2>2. reg0'.lo = IF wr.to = "reg0" THEN wr.lo ELSE reg0.lo
    BY <1>1, <1>23 DEF FinishWrite, Pair
  <2> QED BY <2>1, <2>2 DEF AddressInv, SlaveStarts, Loaded
<1>24. CASE UNCHANGED vars
  BY <1>24 DEF vars, registers, files, AddressInv, SlaveStarts, Loaded
<1> QED
  BY <1>5, <1>6, <1>7, <1>8, <1>9, <1>10, <1>11, <1>12, <1>13, <1>14, <1>15, <1>16,
     <1>17, <1>18, <1>20, <1>21, <1>22, <1>23, <1>24 DEF Next, SaveConfig, Poll

(* With a host that waits for register 7 to be 0 and sends only addresses   *)
(* 1..247, every start of the poll thread enables the slave: no reboot, at  *)
(* whatever moment of a register write or of a save, leaves an address that *)
(* eMBInit refuses.                                                         *)
THEOREM ValidHostsSlaveStarts == ValidHost => (Spec => []SlaveStarts)
<1> SUFFICES ASSUME ValidHost PROVE Spec => []SlaveStarts OBVIOUS
<1>1. Init => AddressInv
  BY DEF Init, AddressInv, Loaded, NoFile, Default, Addresses, NoWrite, SlaveStarts
<1>2. TypeOK /\ PoliteInv /\ AddressInv /\ [Next]_vars => AddressInv' BY NextAddressInv
<1>3. AddressInv => SlaveStarts BY DEF AddressInv
<1>4. Spec => []PoliteInv BY PoliteInvariant DEF ValidHost
<1> QED BY <1>1, <1>2, <1>3, <1>4, ConfigTypeCorrect, PTL DEF Spec
=============================================================================
