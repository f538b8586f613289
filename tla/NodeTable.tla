------------------------------ MODULE NodeTable ------------------------------
(***************************************************************************)
(* The table of node records in the Modbus holding registers               *)
(* (usSRegHoldBuf) and the contexts that share it without any lock:        *)
(*                                                                         *)
(*   rx    TaskDataReceiveThreadEntry, priority 11: looks a transmitter's  *)
(*         id up and stores its record, one 16-bit store at a time;        *)
(*   chk   TaskCheckOverTimeThreadEntry, priority 11: zeroes the records   *)
(*         of nodes that have been silent for too long;                    *)
(*   Tick  NodeOvertimeTiming, called by the timer interrupt every second; *)
(*   the configuration threads, priorities 20 and 22, which store device   *)
(*         ids and run only while rx and chk both sleep.                   *)
(*                                                                         *)
(* rx and chk have the same priority and a time slice, so the scheduler    *)
(* may switch between them after any store: every access to a register     *)
(* both of them use is an action of its own.                               *)
(***************************************************************************)
EXTENDS Naturals

CONSTANTS
  N,                \* number of node slots (256 in the code)
  Word,             \* number of values of a 16-bit register (2^16)
  Overtime,         \* seconds of silence after which a record is cleared
  Devices,          \* the ids that transmitters send
  IdWords,          \* the values the configuration threads store in id words
  TimerOutcomes,    \* the results rt_timer_create may have
  MaxTicksPerPass,  \* bound: seconds that may pass during one pass of chk
  MaxTicksPerSave,  \* bound: seconds that may pass while rx handles a packet
  MaxPackets        \* bound: packets received in a behaviour

Time == Word * Word           \* number of values of a uint32_t

ASSUME TableAssumption ==
  /\ N \in Nat \ {0}
  /\ Word \in Nat \ {0, 1}
  /\ Overtime \in Nat
  /\ Devices \subseteq 0 .. (Time - 1)
  /\ IdWords \subseteq 0 .. (Word - 1)
  /\ TimerOutcomes \subseteq BOOLEAN
  /\ MaxTicksPerPass \in Nat
  /\ MaxTicksPerSave \in Nat
  /\ MaxPackets \in Nat

VARIABLES
  now,        \* NodeOvertimeTimerNumber
  timer,      \* the one-second timer exists and runs
  ids,        \* registers 0x708: device id of each slot, low and high word
  temp,       \* registers 0x008: whose temperature is stored, 0 when cleared
  volt,       \* registers 0x108: whose voltage
  stat,       \* registers 0x408: whose signal strength
  launch,     \* registers 0x208: number of packets, low and high word
  moment,     \* registers 0xA08: receive moment, low and high word
  rx, chk,    \* program counter and locals of the two threads
  passTicks,  \* bound: ticks since chk last started a pass
  saveTicks,  \* bound: ticks since rx last took a packet
  received,   \* bound: packets received so far
  saves,      \* history: packets whose record was begun in each slot
  quiet       \* history: seconds since rx stored a record's first or last word

regs    == <<ids, temp, volt, stat, launch, moment>>
bounds  == <<passTicks, saveTicks, received>>
history == <<saves, quiet>>
vars    == <<now, timer, regs, rx, chk, bounds, history>>

Slots == 0 .. (N - 1)
Regs  == 0 .. (Word - 1)
Pair  == [lo : Regs, hi : Regs]

(* A 32-bit value kept in two registers, and the words it is stored as. *)
Value(p) == p.lo + Word * p.hi
Lo(v)    == v % Word

(* A plausible slip: the mask of the low word copied to the high one. *)
HiCopiedFromLo(v) == v % Word
Hi(v)    == (v \div Word) % Word

(* A reading stored for device d; only where it came from is kept. *)
Reading(d) == d + 1

(* The history counter quiet saturates here: late enough to tell a record  *)
(* that outlived its deadline.                                              *)
QuietMax == Overtime + 2 * MaxTicksPerPass + 2

(* The steps of rx that store into the slot GetDeviceNumber found, and of  *)
(* chk that clear the slot it found expired.                                *)
SavePCs  == {"temp", "volt", "stat", "readLo", "readHi", "launchLo",
             "launchHi", "sample", "momentLo", "momentHi"}
ClearPCs == {"clrTemp", "clrVolt", "clrStat", "clrLaunchLo", "clrLaunchHi",
             "clrMomentLo", "clrMomentHi"}
RxPCs    == SavePCs \cup {"delay", "lookup"}
ChkPCs   == ClearPCs \cup {"start", "delay", "readLo", "readHi", "check"}

Init ==
  /\ now = 0 /\ timer = FALSE
  /\ ids = [i \in Slots |-> [lo |-> 0, hi |-> 0]]
  /\ temp = [i \in Slots |-> 0]
  /\ volt = [i \in Slots |-> 0]
  /\ stat = [i \in Slots |-> 0]
  /\ launch = [i \in Slots |-> [lo |-> 0, hi |-> 0]]
  /\ moment = [i \in Slots |-> [lo |-> 0, hi |-> 0]]
  /\ rx = [pc |-> "delay", valid |-> FALSE, dev |-> 0, slot |-> 0,
           lo |-> 0, launchNumber |-> 0, receiveTime |-> 0]
  /\ chk = [pc |-> "start", i |-> 0, lo |-> 0, startTime |-> 0]
  /\ passTicks = 0 /\ saveTicks = 0 /\ received = 0
  /\ saves = [i \in Slots |-> 0]
  /\ quiet = [i \in Slots |-> 0]

-----------------------------------------------------------------------------
(* TaskDataReceiveThreadEntry *)

(* The rest of the thread's loop body: the frame is done with, the data is  *)
(* marked invalid, and the thread sleeps.                                   *)
RxSleep == rx' = [rx EXCEPT !.pc = "delay", !.valid = FALSE]

RxGoto(pc) == rx' = [rx EXCEPT !.pc = pc]

(* CC1101_ReceivePacket delivered a frame and DataFrameAnalysis returned    *)
(* ret: 0 for a good frame, 1 for a bad checksum, 2 for a bad head.          *)
ReceivePacket(d, ret) ==
  /\ rx.pc = "delay"
  /\ received < MaxPackets
  /\ received' = received + 1 /\ saveTicks' = 0
  /\ IF ret = 0
       THEN rx' = [rx EXCEPT !.pc = "lookup", !.valid = TRUE, !.dev = d]
       ELSE RxSleep
  /\ UNCHANGED <<now, timer, regs, chk, passTicks, history>>

Matches(d) == {i \in Slots : Value(ids[i]) = d}

(* Slot i is the first one that holds id d: the loop stops at it. *)
IsFirstMatch(i, d) == i \in Matches(d) /\ \A j \in Matches(d) : i <= j

(* GetDeviceNumber.  Only threads of lower priority store ids, so the loop  *)
(* over the slots sees one value of them.                                   *)
GetDeviceNumber ==
  /\ rx.pc = "lookup"
  /\ \/ Matches(rx.dev) = {} /\ RxSleep /\ UNCHANGED saves
     \/ \E i \in Slots :
          /\ IsFirstMatch(i, rx.dev)
          /\ rx' = [rx EXCEPT !.pc = "temp", !.slot = i]
          /\ saves' = [saves EXCEPT ![i] = @ + 1]
  /\ UNCHANGED <<now, timer, regs, chk, bounds, quiet>>

(* What a Save function leaves in its register when isDataValid is f. *)
Saved(reg, v) == IF rx.valid THEN [reg EXCEPT ![rx.slot] = v] ELSE reg

SaveTemperature ==
  /\ rx.pc = "temp"
  /\ temp' = Saved(temp, Reading(rx.dev))
  /\ quiet' = [quiet EXCEPT ![rx.slot] = 0]
  /\ RxGoto("volt")
  /\ UNCHANGED <<now, timer, ids, volt, stat, launch, moment, chk, bounds, saves>>

SaveVoltage ==
  /\ rx.pc = "volt"
  /\ volt' = Saved(volt, Reading(rx.dev))
  /\ RxGoto("stat")
  /\ UNCHANGED <<now, timer, ids, temp, stat, launch, moment, chk, bounds, history>>

SaveSignalStrength ==
  /\ rx.pc = "stat"
  /\ stat' = Saved(stat, Reading(rx.dev))
  /\ RxGoto("readLo")
  /\ UNCHANGED <<now, timer, ids, temp, volt, launch, moment, chk, bounds, history>>

(* SaveLaunchNumber: two loads, an increment, two stores. *)
LoadLaunchLo ==
  /\ rx.pc = "readLo"
  /\ rx' = [rx EXCEPT !.pc = "readHi", !.lo = launch[rx.slot].lo]
  /\ UNCHANGED <<now, timer, regs, chk, bounds, history>>

LoadLaunchHi ==
  /\ rx.pc = "readHi"
  /\ rx' = [rx EXCEPT !.pc = "launchLo",
              !.launchNumber = (rx.lo + Word * launch[rx.slot].hi + 1) % Time]
  /\ UNCHANGED <<now, timer, regs, chk, bounds, history>>

StoreLaunchLo ==
  /\ rx.pc = "launchLo"
  /\ launch' = Saved(launch, [launch[rx.slot] EXCEPT !.lo = Lo(rx.launchNumber)])
  /\ RxGoto("launchHi")
  /\ UNCHANGED <<now, timer, ids, temp, volt, stat, moment, chk, bounds, history>>

StoreLaunchHi ==
  /\ rx.pc = "launchHi"
  /\ launch' = Saved(launch, [launch[rx.slot] EXCEPT !.hi = Hi(rx.launchNumber)])
  /\ RxGoto("sample")
  /\ UNCHANGED <<now, timer, ids, temp, volt, stat, moment, chk, bounds, history>>

(* SaveReceiveTime: GetNodeOvertime, then two stores. *)
SampleReceiveTime ==
  /\ rx.pc = "sample"
  /\ rx' = [rx EXCEPT !.pc = "momentLo", !.receiveTime = now]
  /\ UNCHANGED <<now, timer, regs, chk, bounds, history>>

StoreMomentLo ==
  /\ rx.pc = "momentLo"
  /\ moment' = Saved(moment, [moment[rx.slot] EXCEPT !.lo = Lo(rx.receiveTime)])
  /\ RxGoto("momentHi")
  /\ UNCHANGED <<now, timer, ids, temp, volt, stat, launch, chk, bounds, history>>

StoreMomentHi ==
  /\ rx.pc = "momentHi"
  /\ moment' = Saved(moment, [moment[rx.slot] EXCEPT !.hi = Hi(rx.receiveTime)])
  /\ RxSleep
  /\ quiet' = [quiet EXCEPT ![rx.slot] = 0]
  /\ UNCHANGED <<now, timer, ids, temp, volt, stat, launch, chk, bounds, saves>>

RxStep ==
  \/ GetDeviceNumber
  \/ SaveTemperature \/ SaveVoltage \/ SaveSignalStrength
  \/ LoadLaunchLo \/ LoadLaunchHi \/ StoreLaunchLo \/ StoreLaunchHi
  \/ SampleReceiveTime \/ StoreMomentLo \/ StoreMomentHi

-----------------------------------------------------------------------------
(* TaskCheckOverTimeThreadEntry *)

ChkGoto(pc) == chk' = [chk EXCEPT !.pc = pc]

(* A plausible slip: the loop index runs one past the last slot. *)
NextSlotOnePast ==
  chk' = [chk EXCEPT !.pc = IF chk.i < N THEN "readLo" ELSE "delay",
                     !.i  = (chk.i + 1) % (N + 1)]

(* The end of the loop body for slot i: on to the next slot, or to sleep. *)
NextSlot ==
  chk' = [chk EXCEPT !.pc = IF chk.i + 1 < N THEN "readLo" ELSE "delay",
                     !.i  = (chk.i + 1) % N]

(* The thread starts: TimerInit creates the periodic timer and starts it,   *)
(* unless there is no memory for it.                                        *)
TimerInit ==
  /\ chk.pc = "start"
  /\ timer' \in TimerOutcomes
  /\ ChkGoto("readLo")
  /\ UNCHANGED <<now, regs, rx, bounds, history>>

(* rt_thread_mdelay(50) is over and the for loop starts at slot 0. *)
StartPass ==
  /\ chk.pc = "delay"
  /\ passTicks' = 0
  /\ ChkGoto("readLo")
  /\ UNCHANGED <<now, timer, regs, rx, saveTicks, received, history>>

LoadMomentLo ==
  /\ chk.pc = "readLo"
  /\ chk' = [chk EXCEPT !.pc = "readHi", !.lo = moment[chk.i].lo]
  /\ UNCHANGED <<now, timer, regs, rx, bounds, history>>

(* The second load completes startTime; a start time of 0 skips the slot. *)
LoadMomentHi ==
  /\ chk.pc = "readHi"
  /\ LET startTime == chk.lo + Word * moment[chk.i].hi IN
     IF startTime = 0
       THEN NextSlot
       ELSE chk' = [chk EXCEPT !.pc = "check", !.startTime = startTime]
  /\ UNCHANGED <<now, timer, regs, rx, bounds, history>>

(* A plausible slip: the subtraction saturates instead of wrapping. *)
ElapsedSaturating(nowTime, startTime) ==
  IF nowTime >= startTime THEN nowTime - startTime ELSE 0

(* nowTime - startTime in uint32_t arithmetic. *)
Elapsed(nowTime, startTime) == (nowTime + Time - startTime) % Time

CheckOvertime ==
  /\ chk.pc = "check"
  /\ IF Elapsed(now, chk.startTime) >= Overtime
       THEN ChkGoto("clrTemp")
       ELSE NextSlot
  /\ UNCHANGED <<now, timer, regs, rx, bounds, history>>

ClearTemperature ==
  /\ chk.pc = "clrTemp"
  /\ temp' = [temp EXCEPT ![chk.i] = 0]
  /\ ChkGoto("clrVolt")
  /\ UNCHANGED <<now, timer, ids, volt, stat, launch, moment, rx, bounds, history>>

ClearVoltage ==
  /\ chk.pc = "clrVolt"
  /\ volt' = [volt EXCEPT ![chk.i] = 0]
  /\ ChkGoto("clrStat")
  /\ UNCHANGED <<now, timer, ids, temp, stat, launch, moment, rx, bounds, history>>

ClearSignalStrength ==
  /\ chk.pc = "clrStat"
  /\ stat' = [stat EXCEPT ![chk.i] = 0]
  /\ ChkGoto("clrLaunchLo")
  /\ UNCHANGED <<now, timer, ids, temp, volt, launch, moment, rx, bounds, history>>

ClearLaunchLo ==
  /\ chk.pc = "clrLaunchLo"
  /\ launch' = [launch EXCEPT ![chk.i].lo = 0]
  /\ ChkGoto("clrLaunchHi")
  /\ UNCHANGED <<now, timer, ids, temp, volt, stat, moment, rx, bounds, history>>

ClearLaunchHi ==
  /\ chk.pc = "clrLaunchHi"
  /\ launch' = [launch EXCEPT ![chk.i].hi = 0]
  /\ ChkGoto("clrMomentLo")
  /\ UNCHANGED <<now, timer, ids, temp, volt, stat, moment, rx, bounds, history>>

ClearMomentLo ==
  /\ chk.pc = "clrMomentLo"
  /\ moment' = [moment EXCEPT ![chk.i].lo = 0]
  /\ ChkGoto("clrMomentHi")
  /\ UNCHANGED <<now, timer, ids, temp, volt, stat, launch, rx, bounds, history>>

(* A plausible slip: only the low word of the moment is cleared. *)
ClearMomentHiForgotten ==
  /\ chk.pc = "clrMomentHi"
  /\ NextSlot
  /\ UNCHANGED <<now, timer, regs, rx, bounds, history>>

ClearMomentHi ==
  /\ chk.pc = "clrMomentHi"
  /\ moment' = [moment EXCEPT ![chk.i].hi = 0]
  /\ NextSlot
  /\ UNCHANGED <<now, timer, ids, temp, volt, stat, launch, rx, bounds, history>>

ChkStep ==
  \/ TimerInit \/ StartPass
  \/ LoadMomentLo \/ LoadMomentHi \/ CheckOvertime
  \/ ClearTemperature \/ ClearVoltage \/ ClearSignalStrength
  \/ ClearLaunchLo \/ ClearLaunchHi \/ ClearMomentLo \/ ClearMomentHi

-----------------------------------------------------------------------------
(* NodeOvertimeTiming, in the timer interrupt: it may come between any two  *)
(* steps of the threads, but neither thread falls behind by more than the   *)
(* named bounds: both run every 50 ms.                                      *)
NodeOvertimeTiming ==
  /\ timer
  /\ passTicks < MaxTicksPerPass
  /\ rx.pc = "delay" \/ saveTicks < MaxTicksPerSave
  /\ passTicks' = passTicks + 1
  /\ saveTicks' = IF rx.pc = "delay" THEN saveTicks ELSE saveTicks + 1
  /\ now' = (now + 1) % Time
  /\ quiet' = [i \in Slots |-> IF quiet[i] < QuietMax THEN quiet[i] + 1 ELSE QuietMax]
  /\ UNCHANGED <<timer, regs, rx, chk, received, saves>>

(* A plausible slip: the configuration threads are given a priority that    *)
(* lets them preempt the table threads.                                     *)
StoreDeviceIdWordAnyTime(i, half, w) ==
  /\ ids' = [ids EXCEPT ![i][half] = w]
  /\ UNCHANGED <<now, timer, temp, volt, stat, launch, moment, rx, chk, bounds, history>>

(* ReadDeviceIdFile and the Modbus host store a word of an id.  They run at *)
(* lower priority, so only while both table threads sleep.                  *)
StoreDeviceIdWord(i, half, w) ==
  /\ rx.pc = "delay" /\ chk.pc = "delay"
  /\ ids' = [ids EXCEPT ![i][half] = w]
  /\ UNCHANGED <<now, timer, temp, volt, stat, launch, moment, rx, chk, bounds, history>>

Configure ==
  \E i \in Slots, half \in {"lo", "hi"}, w \in IdWords : StoreDeviceIdWord(i, half, w)

Next ==
  \/ \E d \in Devices, ret \in 0 .. 2 : ReceivePacket(d, ret)
  \/ RxStep
  \/ ChkStep
  \/ NodeOvertimeTiming
  \/ Configure

Spec == Init /\ [][Next]_vars

(* Both threads sleep for bounded times and share the processor in slices,  *)
(* and the timer interrupt keeps coming.                                    *)
FairSpec ==
  /\ Spec
  /\ WF_vars(RxStep) /\ WF_vars(ChkStep) /\ WF_vars(NodeOvertimeTiming)

-----------------------------------------------------------------------------
(* Properties *)

RxType  == [pc : RxPCs, valid : BOOLEAN, dev : 0 .. (Time - 1), slot : Slots,
            lo : Regs, launchNumber : 0 .. (Time - 1), receiveTime : 0 .. (Time - 1)]
ChkType == [pc : ChkPCs, i : Slots, lo : Regs, startTime : 0 .. (Time - 1)]

(* The registers hold 16-bit words, the locals uint32_t values, and the     *)
(* slot numbers both threads index with stay inside the table.              *)
TypeOK ==
  /\ now \in 0 .. (Time - 1) /\ timer \in BOOLEAN
  /\ ids \in [Slots -> Pair]
  /\ temp \in [Slots -> 0 .. Time]
  /\ volt \in [Slots -> 0 .. Time]
  /\ stat \in [Slots -> 0 .. Time]
  /\ launch \in [Slots -> Pair] /\ moment \in [Slots -> Pair]
  /\ rx \in RxType /\ chk \in ChkType
  /\ passTicks \in Nat /\ saveTicks \in Nat /\ received \in Nat
  /\ saves \in [Slots -> Nat] /\ quiet \in [Slots -> 0 .. QuietMax]

(* While a record is being stored, its slot is still the first one that     *)
(* carries the transmitter's id.  Nothing locks the id registers between    *)
(* GetDeviceNumber and the last store: only the priorities of the threads   *)
(* that write them, and that no Save function sleeps, keep them still.      *)
SavesUnderItsId ==
  rx.pc \in SavePCs =>
    /\ rx.valid
    /\ Value(ids[rx.slot]) = rx.dev
    /\ \A j \in 0 .. (rx.slot - 1) : Value(ids[j]) # rx.dev

(* The launch number a host reads never exceeds the number of packets the   *)
(* relay took in for the slot, although chk may zero either word between    *)
(* the two loads and the two stores of SaveLaunchNumber.                    *)
LaunchNeverOvercounts == \A i \in Slots : Value(launch[i]) <= saves[i]

(* A slot with a receive moment is cleared at most a pass after its         *)
(* deadline: no interleaving of the stores of rx and chk leaves a moment    *)
(* that CheckOvertime takes for fresh when the transmitter is long silent.  *)
BoundedStaleness ==
  \A i \in Slots :
    Value(moment[i]) # 0 /\ ~ (rx.pc \in SavePCs /\ rx.slot = i)
      => quiet[i] < QuietMax

(* The overtime and the delays of both threads are shorter than the low     *)
(* word of the counter takes to run round (18 hours in the code).           *)
OvertimeFits == Overtime + 2 * MaxTicksPerPass + MaxTicksPerSave < Word

(* Once transmitters fall silent, every receive moment is zeroed for good:  *)
(* TaskCheckOverTimeThreadEntry reaches every slot again and again.         *)
SilentSlotsExpire == <>[](\A i \in Slots : Value(moment[i]) = 0)

(* "Clear the data of the node that timed out" (TaskDataReceive.c:166): a   *)
(* reading is zeroed only when its transmitter has been silent for the      *)
(* whole overtime.  The code decides and clears in separate steps.          *)
ClearsOnlyExpired ==
  [][\A i \in Slots : temp[i] # 0 /\ temp'[i] = 0 => quiet[i] >= Overtime]_vars
=============================================================================
