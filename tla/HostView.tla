------------------------------- MODULE HostView -------------------------------
(***************************************************************************)
(* From the sensor to the host: transmitters' frames are decoded and filed *)
(* in the holding registers at their real addresses (Frame), silent nodes  *)
(* are cleared, and a host reads the records and writes the device ids     *)
(* through the Modbus function codes (FunctionCodes).                      *)
(*                                                                         *)
(* The receive and overtime threads have priority 11 both and share their  *)
(* time slices: each load and store of theirs is a step.  They do not      *)
(* sleep in the middle of a record, so the poll thread (22) runs only when *)
(* neither is in one.                                                      *)
(***************************************************************************)
EXTENDS Frame, FunctionCodes

CONSTANTS
  Slots,       \* slots kept in the model, of the 256
  Configured,  \* the device id in each of them at start-up
  Sensors,     \* what transmitters measure: [t, v, rssi, lqi], raw
  Senders,     \* ids of the transmitters in range
  Damages,     \* ways a frame may differ from what was sent
  Times,       \* values of the overtime counter
  MaxFrames,   \* bound: frames taken in
  MaxInputs    \* bound: frames and requests taken in together

ASSUME HostViewAssumption ==
  /\ Slots \subseteq 0 .. 255
  /\ Configured \in [Slots -> [hi : Words, lo : Words]]
  /\ Senders \subseteq [hi : Words, lo : Words]
  /\ Sensors \subseteq [t : 0 .. AdcMax, v : 0 .. AdcMax, rssi : Bytes, lqi : Bytes]
  /\ Damages \subseteq {"none", "head", "byte"}
  /\ Times \subseteq Nat /\ MaxFrames \in Nat \ {0} /\ MaxInputs \in Nat

VARIABLES
  rx,       \* the receive thread and its locals
  chk,      \* the overtime thread and its locals
  frames,   \* bound: frames taken in
  shown,    \* history: what the last good frame for each slot said
  mixed,    \* history: slots last stored or cleared by both threads at once
  renamed   \* history: slots whose id the host has changed

vars == <<slaveVars, rx, chk, frames, shown, mixed, renamed>>

(* A plausible slip: one block begins in the last register of the other. *)
VoltageAddrOneBelow(i) == 263 + i

(* The layout of the registers, DataFrame.h. *)
TemperatureAddr(i) == 8 + i
VoltageAddr(i)     == 264 + i
LaunchAddr(i)      == 520 + 2 * i
StatusAddr(i)      == 1032 + 2 + 3 * i
IdAddr(i)          == 1800 + 2 * i
MomentAddr(i)      == 2568 + 2 * i

(* A record: every register of slot i but those of its id, in the order in  *)
(* which both threads store them.                                           *)
Record(i) ==
  <<TemperatureAddr(i), VoltageAddr(i), StatusAddr(i), LaunchAddr(i),
    LaunchAddr(i) + 1, MomentAddr(i), MomentAddr(i) + 1>>
RecordAddrs(i) == {Record(i)[k] : k \in 1 .. 7}

Layout ==
  UNION {RecordAddrs(i) \cup {IdAddr(i), IdAddr(i) + 1} : i \in Slots}

(* The registers of the slots are all kept. *)
ASSUME LayoutAssumption == Layout \subseteq Stored

Nothing == [t |-> 0, v |-> 0, rssi |-> 0, lqi |-> 0, id |-> [hi |-> 0, lo |-> 0], is |-> FALSE]

(* The threads outside of records. *)
Receiving == [pc |-> "sleep", slot |-> 0, k |-> 1, word |-> [k \in 1 .. 7 |-> 0]]
Resting   == [pc |-> "sleep", slot |-> 0, k |-> 1, lo |-> 0]

(* After the boot: the ids are in place, there are no records. *)
Init ==
  /\ hold = [a \in Stored |->
               IF \E i \in Slots : a = IdAddr(i)
                 THEN Configured[CHOOSE i \in Slots : a = IdAddr(i)].lo
               ELSE IF \E i \in Slots : a = IdAddr(i) + 1
                 THEN Configured[CHOOSE i \in Slots : a = IdAddr(i) + 1].hi
               ELSE 0]
  /\ SlaveInit
  /\ rx = Receiving /\ chk = Resting
  /\ frames = 0
  /\ shown = [i \in Slots |-> Nothing]
  /\ mixed = {} /\ renamed = {}

-----------------------------------------------------------------------------
(* The receive thread *)

(* A transmitter's frame, and what the air makes of it. *)
FrameOf(id, s) ==
  LET body == <<90, 0, id.hi \div 256, id.hi % 256, id.lo \div 256, id.lo % 256,
                s.t \div 256, s.t % 256, s.v \div 256, s.v % 256>>
      sum == 90 + (id.hi \div 256) + (id.hi % 256) + (id.lo \div 256) + (id.lo % 256)
               + (s.t \div 256) + (s.t % 256) + (s.v \div 256) + (s.v % 256)
  IN  body \o <<sum \div 256, sum % 256>>

Damaged(f, how) ==
  IF how = "head" THEN [f EXCEPT ![1] = 91]
  ELSE IF how = "byte" THEN [f EXCEPT ![10] = (@ + 1) % 256]
  ELSE f

DeviceId(i) == [hi |-> Register(IdAddr(i) + 1), lo |-> Register(IdAddr(i))]

(* A plausible slip: the high words are not compared. *)
SlotsOfLowWord(id) ==
  {i \in Slots : DeviceId(i).lo = id.lo}
    \cup (IF id = Nothing.id THEN (0 .. 255) \ Slots ELSE {})

(* GetDeviceNumber; slots that are not kept hold id 0. *)
SlotsOf(id) ==
  {i \in Slots : DeviceId(i) = id}
    \cup (IF id = Nothing.id THEN (0 .. 255) \ Slots ELSE {})
FirstOf(S)  == CHOOSE i \in S : \A j \in S : i <= j

(* A thread is in the record of slot i. *)
Saving(i)   == rx.pc # "sleep" /\ rx.slot = i
Clearing(i) == chk.pc = "clear" /\ chk.slot = i

(* Another thread stores: an answer is no longer the latest news, and a     *)
(* request in progress was disturbed.                                       *)
Disturb ==
  answer' = NoAnswer /\ host' = [host EXCEPT !.calm = (host.pc = "idle")]

(* A frame f of a good packet comes in; RSSI and LQI are in s.  It is       *)
(* analysed and its slot looked up, which no other thread can change.       *)
(* Slots that are not kept are not seen.                                    *)
HandleFrame(id, s, how) ==
  LET f == Damaged(FrameOf(id, s), how)
      found == SlotsOf(CalculateDeviceId(f))
      i == FirstOf(found)
      accepted == DataFrameAnalysis(f) = 0 /\ found # {} /\ i \in Slots IN
  /\ rx.pc = "sleep" /\ frames < MaxFrames /\ frames + served < MaxInputs
  /\ frames' = frames + 1
  /\ \/ /\ ~ accepted
        /\ UNCHANGED <<rx, shown, mixed, renamed>>
     \/ /\ accepted
        /\ rx' = [pc |-> "store", slot |-> i, k |-> 1,
                  word |-> <<TemperatureFormat(TemperatureRaw(f)), VoltageFormat(VoltageRaw(f)),
                             SignalFormat(s.rssi, s.lqi), 0, 0, 0, 0>>]
        /\ shown' = IF how # "none" THEN shown
                    ELSE [shown EXCEPT ![i] = [t |-> s.t, v |-> s.v, rssi |-> s.rssi,
                                               lqi |-> s.lqi, id |-> id, is |-> TRUE]]
        /\ mixed' = IF Clearing(i) THEN mixed \cup {i} ELSE mixed \ {i}
        /\ renamed' = renamed \ {i}
  /\ UNCHANGED <<slaveVars, chk>>

(* The stores of the five Save functions. *)
SaveWord ==
  /\ rx.pc = "store"
  /\ hold' = [hold EXCEPT ![Record(rx.slot)[rx.k]] = rx.word[rx.k]]
  /\ rx' = CASE rx.k = 3 -> [rx EXCEPT !.pc = "launchLo", !.k = 4]
             [] rx.k = 5 -> [rx EXCEPT !.pc = "moment", !.k = 6]
             [] rx.k = 7 -> Receiving
             [] OTHER -> [rx EXCEPT !.k = @ + 1]
  /\ Disturb
  /\ UNCHANGED <<coils, served, want, chk, frames, shown, mixed, renamed>>

(* SaveLaunchNumber loads the two words of the number, and adds 1. *)
LoadLaunch ==
  /\ \/ /\ rx.pc = "launchLo"
        /\ rx' = [rx EXCEPT !.pc = "launchHi", !.word[4] = Register(LaunchAddr(rx.slot))]
     \/ /\ rx.pc = "launchHi"
        /\ LET lo == rx.word[4]
               hi == Register(LaunchAddr(rx.slot) + 1) IN
           rx' = [rx EXCEPT !.pc = "store", !.word[4] = (lo + 1) % 65536,
                            !.word[5] = IF lo = 65535 THEN (hi + 1) % 65536 ELSE hi]
  /\ UNCHANGED <<slaveVars, chk, frames, shown, mixed, renamed>>

(* SaveReceiveTime: GetNodeOvertime is now. *)
TakeMoment(now) ==
  /\ rx.pc = "moment"
  /\ rx' = [rx EXCEPT !.pc = "store", !.word[6] = now % 65536,
                      !.word[7] = (now \div 65536) % 65536]
  /\ UNCHANGED <<slaveVars, chk, frames, shown, mixed, renamed>>

-----------------------------------------------------------------------------
(* The overtime thread *)

(* It comes to slot i and loads the low word of its moment.  The order of   *)
(* the slots is left open.                                                  *)
CheckSlot(i) ==
  /\ chk.pc = "sleep"
  /\ chk' = [Resting EXCEPT !.pc = "moment", !.slot = i, !.lo = Register(MomentAddr(i))]
  /\ UNCHANGED <<slaveVars, rx, frames, shown, mixed, renamed>>

(* The high word.  Without a moment, the slot is skipped; CheckOvertime may *)
(* say either, NodeTable has its clock.                                     *)
CheckMoment ==
  LET i == chk.slot IN
  /\ chk.pc = "moment"
  /\ \/ chk' = Resting /\ UNCHANGED mixed
     \/ /\ chk.lo # 0 \/ Register(MomentAddr(i) + 1) # 0
        /\ chk' = [Resting EXCEPT !.pc = "clear", !.slot = i]
        /\ mixed' = IF Saving(i) THEN mixed \cup {i} ELSE mixed \ {i}
  /\ UNCHANGED <<slaveVars, rx, frames, shown, renamed>>

(* The stores that clear a record.  When they are done and the other thread *)
(* did not come between, the slot has no record.                            *)
ClearWord ==
  LET i == chk.slot IN
  /\ chk.pc = "clear"
  /\ hold' = [hold EXCEPT ![Record(i)[chk.k]] = 0]
  /\ chk' = IF chk.k = 7 THEN Resting ELSE [chk EXCEPT !.k = @ + 1]
  /\ shown' = IF chk.k = 7 /\ i \notin mixed THEN [shown EXCEPT ![i] = Nothing] ELSE shown
  /\ Disturb
  /\ UNCHANGED <<coils, served, want, rx, frames, mixed, renamed>>

-----------------------------------------------------------------------------
(* A host that does not write over measurements, and nothing but 0 into the *)
(* other registers of a record, in the requests that are not refused.       *)
SparesRecords ==
  \A r \in HostRequests : WritesWords(r) /\ ~ SentBack(r) /\ Exception(r) = 0 =>
    \A i \in Slots, j \in 1 .. WriteCount(r) :
      /\ WriteAddr(r) + j - 1 \notin {TemperatureAddr(i), VoltageAddr(i), StatusAddr(i)}
      /\ WriteAddr(r) + j - 1 \in RecordAddrs(i) => r.data[j] = 0

(* The poll thread runs while the other two sleep. *)
HostNext ==
  /\ rx.pc = "sleep" /\ chk.pc = "sleep"
  /\ SlaveNext
  /\ served' = served \/ frames + served < MaxInputs
  /\ renamed' = renamed \cup {i \in Slots : hold[IdAddr(i)] # hold'[IdAddr(i)]
                                         \/ hold[IdAddr(i) + 1] # hold'[IdAddr(i) + 1]}
  /\ UNCHANGED <<rx, chk, frames, shown, mixed>>

Next ==
  \/ \E id \in Senders, s \in Sensors, how \in Damages : HandleFrame(id, s, how)
  \/ SaveWord \/ LoadLaunch
  \/ \E now \in Times : TakeMoment(now)
  \/ \E i \in Slots : CheckSlot(i)
  \/ CheckMoment \/ ClearWord
  \/ HostNext

Spec == Init /\ [][Next]_vars

-----------------------------------------------------------------------------
(* Properties *)

(* Types; every register is a 16-bit word, the bytes that eMBRegHoldingCB   *)
(* loads or stores next belong to usSRegHoldBuf, and no bit behind the last *)
(* coil is 1.  Which bytes of ucSCoilBuf are loaded and stored is not said: *)
(* xMBUtilSetBits also rewrites the byte behind the ones it changes.        *)
TypeOK ==
  /\ hold \in [Stored -> Words]
  /\ coils \subseteq 0 .. (NCoils - 1)
  /\ host.pc \in {"idle", "store", "load"}
  /\ \A r \in host.req :
       /\ host.pc = "store" => WriteAddr(r) + (host.k \div 2) \in 0 .. (NHold - 1)
       /\ host.pc = "load" => r.addr + (host.k \div 2) \in 0 .. (NHold - 1)
  /\ answer.ex \in 0 .. 3
  /\ rx.pc \in {"sleep", "store", "launchLo", "launchHi", "moment"}
  /\ chk.pc \in {"sleep", "moment", "clear"}
  /\ rx.k \in 1 .. 7 /\ chk.k \in 1 .. 7 /\ rx.word \in [1 .. 7 -> Words]
  /\ rx.pc # "sleep" => rx.slot \in Slots
  /\ chk.pc # "sleep" => chk.slot \in Slots
  /\ frames \in 0 .. MaxFrames /\ served \in 0 .. MaxRequests
  /\ mixed \cup renamed \subseteq Slots

(* The host's reading w of the temperature register for the converter value *)
(* t: right to the tenth above zero, right to the degree below, and never   *)
(* on the wrong side of zero.                                               *)
TemperatureShown(w, t) ==
  /\ HostBelowZero(w) <=> ~ AtLeastTenths(t, 0)
  /\ ~ HostBelowZero(w) => AtLeastTenths(t, w) /\ ~ AtLeastTenths(t, w + 1)
  /\ HostBelowZero(w) =>
       AtLeastTenths(t, HostTenths(w) - 10) /\ ~ AtLeastTenths(t, HostTenths(w) + 1)

(* Of the voltage register: right to the millivolt. *)
VoltageShown(w, v) == 1023 * w \in (5000 * v - 1022) .. (5000 * v)

(* Of the status register: right modulo 256, the range of the int8_t, and   *)
(* the seven bits of LQI.                                                   *)
SignalShown(w, rssi, lqi) == HostRssi(w) = Int8(Dbm(rssi)) /\ HostLqi(w) = lqi % 128

(* The first three registers of a record against what was measured. *)
Shows(k, w, s) ==
  CASE k = 1 -> TemperatureShown(w, s.t)
    [] k = 2 -> VoltageShown(w, s.v)
    [] k = 3 -> SignalShown(w, s.rssi, s.lqi)

(* Both threads are or were in the record of slot i at once, or it is being *)
(* cleared.                                                                 *)
Torn(i) == i \in mixed \/ Clearing(i)

(* Once it is stored, a record shows what its transmitter measured in the   *)
(* last frame, through converter, frame, formula and register format, in    *)
(* all slots up to the last, whatever frames, clearings and host writes     *)
(* come between.  Where SaveTemperature and its kin raced with the clearing *)
(* of the overtime thread, a register may be 0 instead, but it never shows  *)
(* anything else, such as an earlier frame.                                 *)
RecordsShowMeasurements ==
  \A i \in Slots, k \in 1 .. 3 : shown[i].is /\ ~ Saving(i) =>
    LET w == Register(Record(i)[k]) IN Shows(k, w, shown[i]) \/ (w = 0 /\ Torn(i))

(* A record stands under the id of the transmitter it came from, until the  *)
(* host gives the slot another id.                                          *)
RecordsStandUnderTheirId ==
  \A i \in Slots : shown[i].is /\ i \notin renamed => DeviceId(i) = shown[i].id

(* A frame with a damaged head or byte leaves no trace, nor does a record   *)
(* that was cleared while the receive thread stayed out of it: until the    *)
(* next good frame for the slot begins to be stored, its registers are 0,   *)
(* whatever the threads do to other slots.                                  *)
NoTraceWithoutRecord ==
  \A i \in Slots : ~ shown[i].is => \A a \in RecordAddrs(i) : Register(a) = 0

-----------------------------------------------------------------------------
(* What a comment of DataFrame.c promises and the code does not keep *)

(* "[2000,2500] stands for -0.0 to -50.0 degrees, one decimal is kept": a   *)
(* reading below zero is right to the tenth, rounded towards zero as above. *)
TenthsBelowZero ==
  \A i \in Slots : shown[i].is /\ ~ Saving(i) /\ ~ Torn(i) =>
    LET w == Register(TemperatureAddr(i)) IN
    HostBelowZero(w) =>
      AtLeastTenths(shown[i].t, HostTenths(w) - 1) /\ ~ AtLeastTenths(shown[i].t, HostTenths(w) + 1)
=============================================================================
