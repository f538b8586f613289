------------------------------ MODULE MCHostView ------------------------------
(***************************************************************************)
(* HostView with the register map at its real size and some of the 256     *)
(* slots: the first two, a slot that was never configured, the last.       *)
(*                                                                         *)
(* Several transmitters, and a request of each kind, legal and illegal, at *)
(* the limits of the map.  The run host_tenths has one slot, no host and   *)
(* every value of the temperature converter.                               *)
(***************************************************************************)
EXTENDS HostView

Id(h, l) == [hi |-> h, lo |-> l]

MCSlots == {0, 1, 2, 255}
MCConfigured ==
  [i \in MCSlots |->
     IF i = 0 THEN Id(1, 258) ELSE IF i = 1 THEN Id(4660, 0)
     ELSE IF i = 255 THEN Id(0, 255) ELSE Id(0, 0)]

(* The last id is configured nowhere. *)
MCSenders == {Id(1, 258), Id(0, 255), Id(0, 0), Id(9, 9)}

(* A warm sensor, and one just below zero with a weak signal. *)
Sensor(t, v, rssi, lqi) == [t |-> t, v |-> v, rssi |-> rssi, lqi |-> lqi]
Warm == Sensor(300, 512, 40, 130)
Cold == Sensor(424, 1023, 200, 5)
MCSensors == {Warm, Cold}

(* Every temperature. *)
Temperatures == {Sensor(t, 512, 0, 0) : t \in 0 .. AdcMax}

MCTimes == {3, 65536}

(* One slot, one transmitter. *)
OneSlot == {255}
OneConfigured == [i \in OneSlot |-> Id(0, 255)]
OneSender == {Id(0, 255)}
OneTime == {3}

Read(fc, len, addr, count) ==
  [fc |-> fc, len |-> len, addr |-> addr, count |-> count, nbytes |-> 0,
   data |-> <<>>, waddr |-> 0, wcount |-> 0]
Write(fc, len, addr, count, nbytes, data) ==
  [fc |-> fc, len |-> len, addr |-> addr, count |-> count, nbytes |-> nbytes,
   data |-> data, waddr |-> 0, wcount |-> 0]
ReadWrite(len, addr, count, waddr, wcount, nbytes, data) ==
  [fc |-> 23, len |-> len, addr |-> addr, count |-> count, nbytes |-> nbytes,
   data |-> data, waddr |-> waddr, wcount |-> wcount]

(* Reads: of a record, the last registers, one too far, past the end of a   *)
(* USHORT, with no or too many items, and with a wrong length.              *)
Reads ==
  {Read(1, 5, 0, 64), Read(1, 5, 6, 2), Read(1, 5, 53, 11), Read(1, 5, 1, 64),
   Read(1, 5, 65530, 8), Read(1, 5, 0, 2000),
   Read(2, 5, 0, 16), Read(2, 5, 16, 1), Read(2, 5, 0, 0), Read(2, 4, 0, 1),
   Read(3, 5, TemperatureAddr(0), 2), Read(3, 5, LaunchAddr(255), 2),
   Read(3, 5, 3078, 2), Read(3, 5, 3079, 2), Read(3, 5, 3080, 1), Read(3, 5, 65535, 1),
   Read(3, 5, 65535, 2), Read(3, 5, 0, 126), Read(3, 6, 0, 1),
   Read(4, 5, 0, 120), Read(4, 5, 1, 120), Read(4, 5, 0, 125),
   Read(17, 1, 0, 0), Read(7, 1, 0, 0)}

(* Writes of ids, of 0 to the last register, and of coils. *)
Writes ==
  {Write(6, 5, IdAddr(0), 0, 0, <<259>>), Write(6, 5, 3079, 0, 0, <<0>>),
   Write(6, 5, 3080, 0, 0, <<7>>), Write(6, 4, 3079, 0, 0, <<7>>),
   Write(16, 10, IdAddr(2), 2, 4, <<255, 0>>), Write(16, 10, 3079, 2, 4, <<0, 2>>),
   Write(16, 10, IdAddr(2), 2, 5, <<1, 2>>), Write(16, 6, IdAddr(255), 1, 2, <<772>>),
   Write(5, 5, 63, 0, 0, << {0} >>), Write(5, 5, 63, 0, 0, << {} >>),
   Write(5, 5, 64, 0, 0, << {0} >>), Write(5, 5, 0, 0, 0, << {3} >>),
   Write(15, 7, 5, 3, 1, << {0, 2} >>), Write(15, 7, 56, 8, 1, << {0, 7} >>),
   Write(15, 8, 53, 11, 2, << {1, 7}, {2} >>), Write(15, 8, 54, 11, 2, << {0}, {0} >>),
   Write(15, 7, 0, 9, 1, << {0}, {} >>), Write(15, 5, 0, 1, 1, << {0} >>)}

(* Read/write requests: legal, too short, unreadable after the write, not   *)
(* writable, and with a byte count that does not fit.                       *)
ReadWrites ==
  {ReadWrite(12, IdAddr(0), 2, IdAddr(0), 1, 2, <<772>>),
   ReadWrite(9, 8, 1, IdAddr(0), 1, 2, <<772>>),
   ReadWrite(12, 3080, 1, IdAddr(1), 1, 2, <<258>>),
   ReadWrite(12, 8, 1, 65535, 1, 2, <<1>>),
   ReadWrite(12, 8, 1, IdAddr(0), 1, 3, <<1>>)}

MCHostRequests == Reads \cup Writes \cup ReadWrites

NoRequests == {}

(* The hypotheses of the theorems on records and on coils. *)
ASSUME MCSparesRecords == SparesRecords
ASSUME MCUnusedBitsAreZero == UnusedBitsAreZero

(* Each value a converter or the radio can deliver, against its reading. *)
ASSUME MCFormats ==
  /\ \A t \in 0 .. AdcMax : TemperatureShown(TemperatureFormat(t), t)
  /\ \A v \in 0 .. AdcMax : VoltageShown(VoltageFormat(v), v)
  /\ \A b \in Bytes : SignalShown(SignalFormat(b, 255 - b), b, 255 - b)

(* The records and ids of the slots; 3079 is the last of slot 255. *)
MCStored == Layout
=============================================================================
