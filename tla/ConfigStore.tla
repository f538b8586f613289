----------------------------- MODULE ConfigStore -----------------------------
(***************************************************************************)
(* Configuration of the relay: how a Modbus host sets it, how the          *)
(* SaveConfig thread (priority 20) takes it over and writes it to flash,   *)
(* and how a boot brings it back.                                          *)
(*                                                                         *)
(* The host's requests are stored by the ModbusSlavePoll thread (priority  *)
(* 22), a register as two byte stores.  That thread runs only while        *)
(* SaveConfig sleeps or waits for the flash, so SaveConfig may find a      *)
(* register half stored but is itself never interrupted outside its file   *)
(* operations.  A file is empty from f_open(FA_CREATE_ALWAYS) to f_close.  *)
(* The power may fail after any step.                                      *)
(***************************************************************************)
EXTENDS Naturals

CONSTANTS
  N,           \* number of device ids (256 in the code)
  HostReg0,    \* values the host writes to register 0: baud rate and address
  HostReg1,    \* values the host writes to register 1: overtime in minutes
  HostIds,     \* values the host writes to an id register
  HostFlags,   \* sets of bits the host writes to register 7
  Polite,      \* the host waits for register 7 to be 0 before it writes again
  Formatted,   \* whether the flash may hold a file system at the first boot
  MaxWrites,   \* bound: register writes of the host
  MaxCuts      \* bound: power failures

Byte  == 0 .. 255
Pair  == [hi : Byte, lo : Byte]      \* a 16-bit register
Bits  == {0, 1, 3, 15}               \* the bits of register 7 the code looks at
Slots == 0 .. (N - 1)

ASSUME ConfigAssumption ==
  /\ N \in Nat \ {0}
  /\ HostReg0 \subseteq Pair /\ HostReg1 \subseteq Pair /\ HostIds \subseteq Pair
  /\ HostFlags \subseteq SUBSET Bits
  /\ Polite \in BOOLEAN /\ Formatted \subseteq BOOLEAN
  /\ MaxWrites \in Nat /\ MaxCuts \in Nat

VARIABLES
  reg0, reg1, ids, flags,  \* holding registers 0, 1, 0x708.. and 7
  wr,          \* the register write ModbusSlavePoll is in the middle of
  gcfg,        \* g_ConfigFile: baud rate, slave address, overtime
  overtime,    \* overtime of TaskCheckOverTimeThreadEntry, in seconds
  sc,          \* SaveConfig: program counter, isConfigUpdata, next csv line
  lines,       \* the ids written so far to the open DeviceId.csv
  slave,       \* the Modbus slave: started, enabled, its parameters
  formatted, mounted,      \* the file system
  json, csv,   \* /ConfigFile.json and /DeviceId.csv
  asked,       \* history: the ids for which the host last set bit 3
  writes, cuts \* bounds

registers == <<reg0, reg1, ids, flags, wr>>
files     == <<json, csv>>
bounds    == <<writes, cuts>>
vars == <<registers, gcfg, overtime, sc, lines, slave, formatted, mounted, files,
          asked, bounds>>

Zero    == [hi |-> 0, lo |-> 0]
NoWrite == [to |-> "none", slot |-> 0, lo |-> 0, bits |-> {}]
ZeroIds == [i \in Slots |-> Zero]
NoIds   == <<>>
Default == [baud |-> 115200, addr |-> 1, over |-> 1]    \* g_ConfigFile

NoFile  == [is |-> "absent"]
Empty   == [is |-> "empty"]

(* A reboot: RAM is as the linker and the start-up code leave it, the flash *)
(* keeps its contents.                                                      *)
Reboot ==
  /\ reg0' = Zero /\ reg1' = Zero /\ ids' = ZeroIds
  /\ flags' = {} /\ wr' = NoWrite
  /\ gcfg' = Default /\ overtime' = 0
  /\ sc' = [pc |-> "mount", upd |-> FALSE, line |-> 0] /\ lines' = ZeroIds
  /\ slave' = [started |-> FALSE, on |-> FALSE, baud |-> 0, addr |-> 0]
  /\ mounted' = FALSE /\ asked' = NoIds

Init ==
  /\ reg0 = Zero /\ reg1 = Zero /\ ids = ZeroIds
  /\ flags = {} /\ wr = NoWrite
  /\ gcfg = Default /\ overtime = 0
  /\ sc = [pc |-> "mount", upd |-> FALSE, line |-> 0] /\ lines = ZeroIds
  /\ slave = [started |-> FALSE, on |-> FALSE, baud |-> 0, addr |-> 0]
  /\ formatted \in Formatted /\ mounted = FALSE
  /\ json = NoFile /\ csv = NoFile
  /\ asked = NoIds
  /\ writes = 0 /\ cuts = 0

-----------------------------------------------------------------------------
(* Boot *)

Goto(pc) == sc' = [sc EXCEPT !.pc = pc]

(* FileOperateInit: mount, or else format without mounting.  The threads    *)
(* are created next; dfs_mkfs itself may fail.                              *)
FileOperateInit ==
  /\ sc.pc = "mount"
  /\ mounted' = formatted
  /\ formatted' \in (IF formatted THEN {TRUE} ELSE BOOLEAN)
  /\ Goto("overtime")
  /\ UNCHANGED <<registers, gcfg, overtime, lines, slave, files, asked,
                 bounds>>

(* TaskCheckOverTimeThreadEntry reads its overtime when it starts, which    *)
(* its priority 11 puts before SaveConfig's first instruction.              *)
StartCheckOverTime ==
  /\ sc.pc = "overtime"
  /\ overtime' = gcfg.over * 60
  /\ Goto("json?")
  /\ UNCHANGED <<registers, gcfg, lines, slave, formatted, mounted, files, asked, bounds>>

(* What a boot makes of the file: its parameters if it parses, else the     *)
(* defaults that g_ConfigFile starts with.                                  *)
Loaded(file) == IF file.is = "ok" THEN file.cfg ELSE Default

(* Get_JsonFile; a file that cannot be opened or parsed changes nothing.    *)
GetJsonFile ==
  /\ sc.pc = "json?"
  /\ gcfg' = IF mounted THEN Loaded(json) ELSE Default
  /\ Goto("registers")
  /\ UNCHANGED <<registers, overtime, lines, slave, formatted, mounted, files,
                 asked, bounds>>

BaudRates == [c \in 0 .. 3 |-> CASE c = 0 -> 2400 [] c = 1 -> 4800
                                 [] c = 2 -> 9600 [] c = 3 -> 115200]

(* A plausible slip: two of the codes are exchanged. *)
BaudCodeSwapped(baud) ==
  CASE baud = 4800 -> 2 [] baud = 9600 -> 1 [] baud = 115200 -> 3 [] OTHER -> 0

(* The bits 8 and 9 that stand for a baud rate, 0 when it is none of these. *)
BaudCode(baud) ==
  IF \E c \in 0 .. 3 : BaudRates[c] = baud
    THEN CHOOSE c \in 0 .. 3 : BaudRates[c] = baud ELSE 0

(* ConfigModbusHoldRegister; 12 stands for the serial format, bits 10, 11. *)
ConfigModbusHoldRegister ==
  /\ sc.pc = "registers"
  /\ reg0' = [hi |-> 12 + BaudCode(gcfg.baud), lo |-> gcfg.addr]
  /\ reg1' = [hi |-> 0, lo |-> gcfg.over]
  /\ Goto("ids?")
  /\ UNCHANGED <<ids, flags, wr, gcfg, overtime, lines, slave, formatted, mounted,
                 files, asked, bounds>>

ReadDeviceIdFile ==
  /\ sc.pc = "ids?"
  /\ ids' = IF mounted /\ csv.is = "ok" THEN csv.ids ELSE ids
  /\ Goto("check")
  /\ UNCHANGED <<reg0, reg1, flags, wr, gcfg, overtime, lines, slave, formatted,
                 mounted, files, asked, bounds>>

-----------------------------------------------------------------------------
(* The loop of SaveConfigThreadEntry *)

(* A plausible slip: the address is shifted out with the format bits. *)
DecodedShifted(r) == [baud |-> BaudRates[r.hi % 4], addr |-> r.hi \div 16]

(* HostSetModbusParameter: what register 0 says. *)
Decoded(r) == [baud |-> BaudRates[r.hi % 4], addr |-> r.lo]

(* A plausible slip: a new overtime is taken over but not marked for saving. *)
TakeParametersUnmarked ==
  /\ sc.pc = "check"
  /\ gcfg' = [baud |-> IF 0 \in flags THEN Decoded(reg0).baud ELSE gcfg.baud,
              addr |-> IF 0 \in flags THEN Decoded(reg0).addr ELSE gcfg.addr,
              over |-> IF 1 \in flags THEN reg1.lo ELSE gcfg.over]
  /\ flags' = flags \ {0, 1}
  /\ sc' = [sc EXCEPT !.pc = IF 3 \in flags THEN "csvOpen" ELSE "upd",
                      !.upd = sc.upd \/ 0 \in flags]
  /\ UNCHANGED <<reg0, reg1, ids, wr, overtime, lines, slave, formatted, mounted,
                 files, asked, bounds>>

(* Bits 0 and 1: take the parameters over and clear the bits. *)
TakeParameters ==
  /\ sc.pc = "check"
  /\ gcfg' = [baud |-> IF 0 \in flags THEN Decoded(reg0).baud ELSE gcfg.baud,
              addr |-> IF 0 \in flags THEN Decoded(reg0).addr ELSE gcfg.addr,
              over |-> IF 1 \in flags THEN reg1.lo ELSE gcfg.over]
  /\ flags' = flags \ {0, 1}
  /\ sc' = [sc EXCEPT !.pc = IF 3 \in flags THEN "csvOpen" ELSE "upd",
                      !.upd = sc.upd \/ 0 \in flags \/ 1 \in flags]
  /\ UNCHANGED <<reg0, reg1, ids, wr, overtime, lines, slave, formatted, mounted,
                 files, asked, bounds>>

(* SaveDeviceIdFile: truncate, one line per slot, close; then bit 3 is      *)
(* cleared.  Without a mounted file system every operation fails silently.  *)
OpenDeviceIdFile ==
  /\ sc.pc = "csvOpen"
  /\ csv' = IF mounted THEN Empty ELSE csv
  /\ sc' = [sc EXCEPT !.pc = "csvLine", !.line = 0]
  /\ UNCHANGED <<registers, gcfg, overtime, lines, slave, formatted, mounted,
                 json, asked, bounds>>

(* A plausible slip: the last id is left out. *)
WriteDeviceIdLineOneShort ==
  /\ sc.pc = "csvLine"
  /\ IF sc.line + 1 < N
       THEN /\ sc' = [sc EXCEPT !.line = sc.line + 1]
            /\ lines' = [lines EXCEPT ![sc.line] = ids[sc.line]]
       ELSE Goto("csvClose") /\ UNCHANGED lines
  /\ UNCHANGED <<registers, gcfg, overtime, slave, formatted, mounted, files,
                 asked, bounds>>

(* A plausible slip: the loop runs one past the last id. *)
WriteDeviceIdLineOnePast ==
  /\ sc.pc = "csvLine"
  /\ lines' = [lines EXCEPT ![sc.line] = ids[sc.line]]
  /\ IF sc.line < N
       THEN sc' = [sc EXCEPT !.line = sc.line + 1]
       ELSE Goto("csvClose")
  /\ UNCHANGED <<registers, gcfg, overtime, slave, formatted, mounted, files,
                 asked, bounds>>

WriteDeviceIdLine ==
  /\ sc.pc = "csvLine"
  /\ lines' = [lines EXCEPT ![sc.line] = ids[sc.line]]
  /\ IF sc.line + 1 < N
       THEN sc' = [sc EXCEPT !.line = sc.line + 1]
       ELSE Goto("csvClose")
  /\ UNCHANGED <<registers, gcfg, overtime, slave, formatted, mounted, files,
                 asked, bounds>>

(* A plausible slip: bit 3 is not cleared. *)
CloseDeviceIdFileUnacknowledged ==
  /\ sc.pc = "csvClose"
  /\ csv' = IF mounted THEN [is |-> "ok", ids |-> lines] ELSE csv
  /\ Goto("upd")
  /\ UNCHANGED <<registers, gcfg, overtime, lines, slave, formatted, mounted, json,
                 asked, bounds>>

CloseDeviceIdFile ==
  /\ sc.pc = "csvClose"
  /\ csv' = IF mounted THEN [is |-> "ok", ids |-> lines] ELSE csv
  /\ flags' = flags \ {3}
  /\ Goto("upd")
  /\ UNCHANGED <<reg0, reg1, ids, wr, gcfg, overtime, lines, slave, formatted,
                 mounted, json, asked, bounds>>

(* Create_JsonFile, when a parameter was taken over. *)
OpenJsonFile ==
  /\ sc.pc = "upd"
  /\ json' = IF sc.upd /\ mounted THEN Empty ELSE json
  /\ Goto(IF sc.upd THEN "jsonClose" ELSE "reset?")
  /\ UNCHANGED <<registers, gcfg, overtime, lines, slave, formatted, mounted, csv,
                 asked, bounds>>

(* A plausible slip: isConfigUpdata is not reset. *)
CloseJsonFileStillMarked ==
  /\ sc.pc = "jsonClose"
  /\ json' = IF mounted THEN [is |-> "ok", cfg |-> gcfg] ELSE json
  /\ Goto("reset?")
  /\ UNCHANGED <<registers, gcfg, overtime, lines, slave, formatted, mounted, csv,
                 asked, bounds>>

CloseJsonFile ==
  /\ sc.pc = "jsonClose"
  /\ json' = IF mounted THEN [is |-> "ok", cfg |-> gcfg] ELSE json
  /\ sc' = [sc EXCEPT !.pc = "reset?", !.upd = FALSE]
  /\ UNCHANGED <<registers, gcfg, overtime, lines, slave, formatted, mounted, csv,
                 asked, bounds>>

(* Bit 15: SystemReset; otherwise rt_thread_mdelay(1000). *)
SystemReset ==
  /\ sc.pc = "reset?" /\ 15 \in flags
  /\ Reboot
  /\ UNCHANGED <<formatted, files, bounds>>

Sleep ==
  /\ sc.pc = "reset?" /\ 15 \notin flags
  /\ Goto("sleep")
  /\ UNCHANGED <<registers, gcfg, overtime, lines, slave, formatted, mounted, files,
                 asked, bounds>>

Wake ==
  /\ sc.pc = "sleep"
  /\ Goto("check")
  /\ UNCHANGED <<registers, gcfg, overtime, lines, slave, formatted, mounted, files,
                 asked, bounds>>

SaveConfig ==
  \/ FileOperateInit \/ StartCheckOverTime
  \/ GetJsonFile \/ ConfigModbusHoldRegister \/ ReadDeviceIdFile
  \/ TakeParameters
  \/ OpenDeviceIdFile \/ WriteDeviceIdLine \/ CloseDeviceIdFile
  \/ OpenJsonFile \/ CloseJsonFile
  \/ SystemReset \/ Sleep \/ Wake

-----------------------------------------------------------------------------
(* ModbusSlavePoll, which runs while SaveConfig sleeps or waits for flash *)

PollMayRun == sc.pc \in {"sleep", "csvLine", "csvClose", "jsonClose"}

(* eMBInit refuses addresses outside 1..247; eMBEnable then does nothing. *)
ModbusSlavePollStart ==
  /\ PollMayRun /\ ~ slave.started
  /\ slave' = [started |-> TRUE, on |-> gcfg.addr \in 1 .. 247,
               baud |-> gcfg.baud, addr |-> gcfg.addr]
  /\ UNCHANGED <<registers, gcfg, overtime, sc, lines, formatted, mounted, files,
                 asked, bounds>>

HostMayWrite ==
  /\ PollMayRun /\ slave.on /\ wr = NoWrite
  /\ writes < MaxWrites
  /\ Polite => flags = {}

(* The first store of a register write in eMBRegHoldingCB: the high byte,   *)
(* which zeroes the low one.                                                *)
HostWriteReg0(v) ==
  /\ HostMayWrite
  /\ reg0' = [hi |-> v.hi, lo |-> 0]
  /\ wr' = [NoWrite EXCEPT !.to = "reg0", !.lo = v.lo]
  /\ writes' = writes + 1
  /\ UNCHANGED <<reg1, ids, flags, gcfg, overtime, sc, lines, slave, formatted,
                 mounted, files, asked, cuts>>

HostWriteReg1(v) ==
  /\ HostMayWrite
  /\ reg1' = [hi |-> v.hi, lo |-> 0]
  /\ wr' = [NoWrite EXCEPT !.to = "reg1", !.lo = v.lo]
  /\ writes' = writes + 1
  /\ UNCHANGED <<reg0, ids, flags, gcfg, overtime, sc, lines, slave, formatted,
                 mounted, files, asked, cuts>>

HostWriteId(i, v) ==
  /\ HostMayWrite
  /\ ids' = [ids EXCEPT ![i] = [hi |-> v.hi, lo |-> 0]]
  /\ wr' = [NoWrite EXCEPT !.to = "id", !.slot = i, !.lo = v.lo]
  /\ writes' = writes + 1
  /\ UNCHANGED <<reg0, reg1, flags, gcfg, overtime, sc, lines, slave, formatted,
                 mounted, files, asked, cuts>>

HostWriteFlags(bits) ==
  /\ HostMayWrite
  /\ flags' = bits \cap 8 .. 15
  /\ wr' = [NoWrite EXCEPT !.to = "flags", !.bits = bits \cap 0 .. 7]
  /\ writes' = writes + 1
  /\ UNCHANGED <<reg0, reg1, ids, gcfg, overtime, sc, lines, slave, formatted,
                 mounted, files, asked, cuts>>

(* The second store: the low byte is or-ed in. *)
FinishWrite ==
  /\ PollMayRun /\ wr # NoWrite
  /\ reg0' = IF wr.to = "reg0" THEN [reg0 EXCEPT !.lo = wr.lo] ELSE reg0
  /\ reg1' = IF wr.to = "reg1" THEN [reg1 EXCEPT !.lo = wr.lo] ELSE reg1
  /\ ids' = IF wr.to = "id" THEN [ids EXCEPT ![wr.slot].lo = wr.lo] ELSE ids
  /\ flags' = flags \cup wr.bits
  /\ asked' = IF 3 \in wr.bits THEN ids ELSE asked
  /\ wr' = NoWrite
  /\ UNCHANGED <<gcfg, overtime, sc, lines, slave, formatted, mounted, files,
                 bounds>>

Poll ==
  \/ ModbusSlavePollStart
  \/ \E v \in HostReg0 : HostWriteReg0(v)
  \/ \E v \in HostReg1 : HostWriteReg1(v)
  \/ \E i \in Slots, v \in HostIds : HostWriteId(i, v)
  \/ \E bits \in HostFlags : HostWriteFlags(bits)
  \/ FinishWrite

PowerCut ==
  /\ cuts < MaxCuts
  /\ cuts' = cuts + 1
  /\ Reboot
  /\ UNCHANGED <<formatted, files, writes>>

Next == SaveConfig \/ Poll \/ PowerCut

Spec == Init /\ [][Next]_vars

(* Neither thread is starved: SaveConfig sleeps a second at a time, and the *)
(* poll thread runs in that second.  It then finishes what it has begun.    *)
FairSpec ==
  /\ Spec
  /\ WF_vars(SaveConfig)
  /\ SF_vars(ModbusSlavePollStart) /\ SF_vars(FinishWrite)

-----------------------------------------------------------------------------
(* Properties *)

Config   == [baud : Nat, addr : Byte, over : Byte]
JsonFile == {NoFile, Empty} \cup [is : {"ok"}, cfg : Config]
CsvFile  == {NoFile, Empty} \cup [is : {"ok"}, ids : [Slots -> Pair]]
ScPCs    == {"mount", "overtime", "json?", "registers", "ids?", "check",
             "csvOpen", "csvLine", "csvClose", "upd", "jsonClose", "reset?", "sleep"}

(* The registers hold bytes, and the line SaveDeviceIdFile is about to write *)
(* is one of the N ids.                                                     *)
TypeOK ==
  /\ reg0 \in Pair /\ reg1 \in Pair /\ ids \in [Slots -> Pair]
  /\ flags \subseteq Bits
  /\ wr \in [to : {"none", "reg0", "reg1", "id", "flags"}, slot : Slots,
             lo : Byte, bits : SUBSET Bits]
  /\ gcfg \in Config /\ overtime \in Nat
  /\ sc \in [pc : ScPCs, upd : BOOLEAN, line : Slots] /\ lines \in [Slots -> Pair]
  /\ slave \in [started : BOOLEAN, on : BOOLEAN, baud : Nat, addr : Nat]
  /\ formatted \in BOOLEAN /\ mounted \in BOOLEAN
  /\ asked \in [Slots -> Pair] \cup {NoIds}
  /\ writes \in Nat /\ cuts \in Nat
  /\ json \in JsonFile /\ csv \in CsvFile

(* At rest, and whenever SystemReset may come, a reboot would load exactly  *)
(* the parameters in use: nothing the host changed is left unsaved, whether *)
(* or not the power failed in the middle of an earlier save.                *)
RebootKeepsConfiguration ==
  mounted /\ sc.pc \in {"sleep", "reset?"} => Loaded(json) = gcfg

(* What ConfigModbusHoldRegister shows the host after a boot is what        *)
(* HostSetModbusParameter would read back: a host that sets bit 0 without   *)
(* writing register 0 changes nothing.                                      *)
RegistersShowConfiguration ==
  sc.pc = "ids?" =>
    /\ Decoded(reg0) = [baud |-> gcfg.baud, addr |-> gcfg.addr]
    /\ reg1.lo = gcfg.over

(* "Check whether transmitter ids were sent down, and save them if so"      *)
(* (TaskModbus.c:134): when bit 3 is clear again, the file holds the ids    *)
(* for which the host set it.                                               *)
AskedIdsAreStored ==
  mounted /\ sc.pc = "sleep" /\ wr = NoWrite /\ 3 \notin flags /\ asked # NoIds
    => csv = [is |-> "ok", ids |-> asked]

(* Every bit the host sets in register 7 is cleared again, which is how the *)
(* host learns that its request was taken.                                  *)
RequestsAreAcknowledged == flags # {} ~> flags = {}

(* "Start FreeModbus" (TaskModbus.c:66): with a host that only sends        *)
(* addresses 1..247, every start of the poll thread enables the slave.      *)
SlaveStarts == slave.started => slave.on

(* "If the json file exists the parameters in the file are used"            *)
(* (TaskModbus.c:90): the overtime too.                                     *)
OvertimeOfFileIsUsed ==
  sc.pc = "registers" => overtime = gcfg.over * 60

(* "Check whether Modbus parameters were sent down, and save the file if    *)
(* so" (TaskModbus.c:115), whatever state the flash was in at power-up:     *)
(* parameters taken over are in the file.                                   *)
ParametersAreSaved == sc.pc = "sleep" => Loaded(json) = gcfg

-----------------------------------------------------------------------------
(* ConfigStore implements DurableConfig: the configuration in use is        *)
(* g_ConfigFile once a boot has read the file, the stored one is what a     *)
(* boot makes of the file, and isConfigUpdata tells that a save is due.     *)

Booting == sc.pc \in {"mount", "overtime", "json?"}

Durable ==
  INSTANCE DurableConfig WITH
    Configs  <- Config,
    inUse    <- IF Booting THEN Loaded(json) ELSE gcfg,
    stored   <- Loaded(json),
    unsaved  <- sc.upd,
    durable  <- IF sc.pc = "mount" THEN formatted ELSE mounted,
    failures <- cuts

(* What SaveConfig, the json file, resets and power failures do together is *)
(* what DurableConfig promises: every parameter taken over is saved, and a  *)
(* restart that the host asks for loses none, whatever other bits register  *)
(* 7 holds and however far the host's write of its two bytes has come.      *)
ImplementsDurableConfig == Durable!Spec
=============================================================================
