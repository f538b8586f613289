----------------------------- MODULE RadioProofs -----------------------------
(***************************************************************************)
(* Proofs about Radio, for any frame length, any packets on the channel    *)
(* and any number of polls between two resets: type correctness, that only *)
(* whole packets are handed over, that the driver refuses a frame at most  *)
(* once for every other packet, and that a frame the driver accepts is     *)
(* lost to resets only.                                                    *)
(***************************************************************************)
EXTENDS Radio, SequenceTheorems, TLAPS

ItemOf(is, p) == [is |-> is, p |-> p]

(* The chip and its FIFO: a packet is on the air exactly while GDO0 is      *)
(* high, its head is the last thing in the FIFO until the FIFO is emptied   *)
(* under it, and the driver reads only from a FIFO that holds something.    *)
ChipInv ==
  /\ chip = "sync" => air.p \in Packets
  /\ chip # "sync" => air = Silence
  /\ air.upto = "head" => fifo # <<>> /\ fifo[Len(fifo)] = ItemOf("head", air.p)
  /\ drv.pc \in {"length", "payload", "forget"} => fifo # <<>>
  /\ drv.pc = "start" => chip = "idle" /\ ~ tuned /\ fifo = <<>>

(* Lengths and packets are what the driver's variables can hold. *)
LEMMA Ranges ==
  /\ FrameLen \in 1 .. (UInt8 - 1) /\ Lengths \subseteq 0 .. (UInt8 - 1)
  /\ 0 \in 0 .. (UInt8 - 1) /\ Bytes \subseteq 0 .. (UInt8 - 1)
  /\ Frame \in Packets /\ \A p \in Packets : p.len \in Lengths /\ p.crc \in BOOLEAN
<1>1. UInt8 \in Nat BY RadioAssumption
<1>2. FrameLen \in 1 .. (UInt8 - 1) BY RadioAssumption
<1>3. FrameLen \in 1 .. (UInt8 - 1) /\ Lengths \subseteq 0 .. (UInt8 - 1)
  BY <1>1, <1>2, RadioAssumption
<1>4. 0 \in 0 .. (UInt8 - 1) /\ Bytes \subseteq 0 .. (UInt8 - 1) BY RadioAssumption
<1>5. Frame \in Packets BY RadioAssumption DEF Frame, Packets
<1>6. \A p \in Packets : p.len \in Lengths /\ p.crc \in BOOLEAN BY DEF Packets
<1> QED BY <1>3, <1>4, <1>5, <1>6

(* What an uint8_t computes stays in its range. *)
LEMMA ByteArithmetic ==
  \A i \in 0 .. (UInt8 - 1) : Decremented(i) \in 0 .. (UInt8 - 1)
                                /\ (i * 4) % UInt8 \in 0 .. (UInt8 - 1)
<1> SUFFICES ASSUME NEW i \in 0 .. (UInt8 - 1)
             PROVE  Decremented(i) \in 0 .. (UInt8 - 1) /\ (i * 4) % UInt8 \in 0 .. (UInt8 - 1)
  OBVIOUS
<1>1. UInt8 \in Nat \ {0} BY RadioAssumption
<1>2. \A n \in Nat : n % UInt8 \in 0 .. (UInt8 - 1) BY <1>1
<1>3. i + UInt8 - 1 \in Nat /\ i * 4 \in Nat BY <1>1
<1> QED BY <1>2, <1>3 DEF Decremented

(* The driver's locals. *)
DrvType == [pc : DrvPCs, leng : 0 .. (UInt8 - 1), i : 0 .. (UInt8 - 1),
            packetLength : 0 .. (UInt8 - 1),
            got : Packets \cup {NoPacket, Mixed}, ok : BOOLEAN]
AirType == [upto : {"none", "head", "cut"}, p : Packets \cup {NoPacket}]

(* The state before the first step. *)
LEMMA RadioInit == Init => TypeOK /\ ChipInv
<1> SUFFICES ASSUME Init PROVE TypeOK /\ ChipInv OBVIOUS
<1>1. drv \in DrvType BY Ranges DEF Init, DrvType, DrvPCs
<1>2. air \in AirType /\ num \in 0 .. Polls
  BY RadioAssumption DEF Init, AirType, Silence
<1>3. TypeOK
  <2>1. chip \in {"idle", "cal", "rx", "sync"} BY DEF Init
  <2>2. drops \in 0 .. 2 BY DEF Init
  <2>3. tuned \in BOOLEAN /\ torn \in BOOLEAN BY Zenon DEF Init
  <2>4. fifo \in Seq(Item) BY EmptySeq DEF Init
  <2> QED BY <1>1, <1>2, <2>1, <2>2, <2>3, <2>4, Zenon DEF TypeOK, DrvType, AirType
<1>4. ChipInv BY DEF Init, ChipInv, Silence
<1> QED BY <1>3, <1>4

(* The chip's own steps, which leave the driver alone. *)
LEMMA AirKeepsTypes == TypeOK /\ ChipInv /\ Air => TypeOK' /\ ChipInv'
<1> SUFFICES ASSUME TypeOK, ChipInv, Air PROVE TypeOK' /\ ChipInv' OBVIOUS
<1>1. air \in AirType /\ fifo \in Seq(Item) BY DEF TypeOK, AirType
<1>2. CASE Calibrated BY <1>2 DEF Calibrated, TypeOK, ChipInv
<1>3. ASSUME NEW p \in Packets, Sync(p) PROVE TypeOK' /\ ChipInv'
  <2>1. air' = [upto |-> "none", p |-> p] /\ air' \in AirType
    BY <1>3 DEF Sync, AirType
  <2>2. TypeOK' BY <1>3, <2>1 DEF Sync, TypeOK, AirType
  <2>3. ChipInv' BY <1>3, <2>1 DEF Sync, ChipInv
  <2> QED BY <2>2, <2>3
<1>4. CASE HeadArrives
  <2>1. air.p \in Packets BY <1>4 DEF HeadArrives, ChipInv
  <2>2. ItemOf("head", air.p) \in Item BY <2>1 DEF Item, ItemOf
  <2>3. fifo' = Append(fifo, ItemOf("head", air.p)) BY <1>4 DEF HeadArrives, ItemOf
  <2>4. /\ fifo' \in Seq(Item) /\ fifo' # <<>>
        /\ fifo'[Len(fifo')] = ItemOf("head", air.p)
    BY <1>1, <2>2, <2>3
  <2>5. air' \in AirType /\ air'.upto = "head" /\ air'.p = air.p
    BY <1>1, <1>4 DEF HeadArrives, AirType
  <2>6. TypeOK'
    <3>1. torn' \in BOOLEAN BY <1>4 DEF HeadArrives
    <3> QED BY <1>4, <2>4, <2>5, <3>1 DEF HeadArrives, TypeOK, AirType
  <2>7. ChipInv'
    <3>1. drv.pc # "start" /\ chip' = "sync" /\ drv' = drv
      BY <1>4 DEF HeadArrives, ChipInv
    <3> QED BY <2>1, <2>4, <2>5, <3>1 DEF ChipInv
  <2> QED BY <2>6, <2>7
<1>5. CASE PacketEnds
  <2>1. air.p \in Packets BY <1>5 DEF PacketEnds, ChipInv
  <2>2. fifo' \in Seq(Item) /\ fifo' # <<>>
    <3>1. CASE air.upto = "head"
      <4>1. fifo # <<>> /\ fifo[Len(fifo)] = ItemOf("head", air.p) BY <3>1 DEF ChipInv
      <4>2. Len(fifo) \in 1 .. Len(fifo) BY <1>1, <4>1
      <4>3. fifo' = [fifo EXCEPT ![Len(fifo)] = ItemOf("whole", air.p)]
        <5>1. fifo' = [fifo EXCEPT ![Len(fifo)].is = "whole"] BY <1>5, <3>1 DEF PacketEnds
        <5>2. [fifo[Len(fifo)] EXCEPT !.is = "whole"] = ItemOf("whole", air.p)
          BY <4>1 DEF ItemOf
        <5> QED BY <5>1, <5>2
      <4>4. ItemOf("whole", air.p) \in Item BY <2>1 DEF Item, ItemOf
      <4> QED BY <1>1, <4>2, <4>3, <4>4
    <3>2. CASE air.upto # "head"
      <4>1. ItemOf("tail", air.p) \in Item BY <2>1 DEF Item, ItemOf
      <4>2. fifo' = Append(fifo, ItemOf("tail", air.p))
        BY <1>5, <3>2 DEF PacketEnds, ItemOf
      <4> QED BY <1>1, <4>1, <4>2
    <3> QED BY <3>1, <3>2
  <2>3. air' = Silence /\ Silence \in AirType BY <1>5 DEF PacketEnds, Silence, AirType
  <2>4. TypeOK' BY <1>5, <2>2, <2>3 DEF PacketEnds, TypeOK, AirType
  <2>5. ChipInv'
    BY <1>5, <2>2, <2>3 DEF PacketEnds, ChipInv, Silence
  <2> QED BY <2>4, <2>5
<1> QED BY <1>2, <1>3, <1>4, <1>5 DEF Air

(* A reset leaves nothing of what the chip held. *)
LEMMA ResetKeepsTypes ==
  ResetChip /\ drv' \in DrvType /\ drv'.pc \in {"settings0", "settings"}
    /\ num' \in 0 .. Polls /\ drops' \in 0 .. 2
    => TypeOK' /\ ChipInv'
<1> SUFFICES ASSUME ResetChip, drv' \in DrvType, drv'.pc \in {"settings0", "settings"},
                    num' \in 0 .. Polls, drops' \in 0 .. 2
             PROVE  TypeOK' /\ ChipInv'
  OBVIOUS
<1>1. chip' \in {"idle", "cal", "rx", "sync"} BY DEF ResetChip
<1>2. tuned' \in BOOLEAN /\ torn' \in BOOLEAN BY Zenon DEF ResetChip
<1>3. air' \in AirType BY DEF ResetChip, Silence, AirType
<1>4. fifo' \in Seq(Item) BY EmptySeq DEF ResetChip
<1>5. TypeOK' BY <1>1, <1>2, <1>3, <1>4, Zenon DEF TypeOK, DrvType, AirType
<1>6. ChipInv' BY DEF ResetChip, ChipInv, Silence
<1> QED BY <1>5, <1>6

(* Emptying the FIFO, or taking its first packet, cuts off a packet that is *)
(* still coming in.                                                         *)
LEMMA CutKeepsTypes ==
  TypeOK =>
    /\ [air EXCEPT !.upto = "cut"] \in AirType
    /\ [air EXCEPT !.upto = "cut"].p = air.p
    /\ [air EXCEPT !.upto = "cut"].upto = "cut"
BY DEF TypeOK, AirType

(* The thread's steps keep the types. *)
LEMMA ThreadKeepsTypes == TypeOK /\ ChipInv /\ Thread => TypeOK' /\ ChipInv'
<1> SUFFICES ASSUME TypeOK, ChipInv, Thread PROVE TypeOK' /\ ChipInv' OBVIOUS
<1>1. /\ drv \in DrvType /\ air \in AirType /\ fifo \in Seq(Item)
      /\ num \in 0 .. Polls /\ drops \in 0 .. 2
  BY DEF TypeOK, AirType, DrvType
<1>2. ASSUME NEW pc \in DrvPCs, Goto(pc)
      PROVE  drv' \in DrvType /\ drv'.pc = pc
  BY <1>1, <1>2 DEF Goto, DrvType
(* Steps that leave the chip alone. *)
<1>3. ASSUME UNCHANGED <<chip, tuned, air, fifo, torn>>, drv' \in DrvType,
             num' \in 0 .. Polls, drops' \in 0 .. 2,
             drv'.pc \in {"length", "payload", "forget"} => fifo # <<>>,
             drv'.pc # "start"
      PROVE  TypeOK' /\ ChipInv'
  BY <1>3 DEF TypeOK, ChipInv, AirType, DrvType
<1>4. CASE CC1101_PowerUp \/ CC1101_Reset
  <2>1. drv' \in DrvType /\ drv'.pc \in {"settings0", "settings"}
    BY <1>2, <1>4 DEF CC1101_PowerUp, CC1101_Reset, DrvPCs
  <2> QED BY <1>1, <1>4, <2>1, ResetKeepsTypes DEF CC1101_PowerUp, CC1101_Reset
<1>5. CASE CC1101_SettingsReg
  <2>1. drv' \in DrvType /\ drv'.pc \in {"strobe", "sleep"}
    BY <1>2, <1>5 DEF CC1101_SettingsReg, DrvPCs
  <2>2. num' \in 0 .. Polls BY <1>5, RadioAssumption DEF CC1101_SettingsReg
  <2>3. tuned' \in BOOLEAN BY <1>5, Zenon DEF CC1101_SettingsReg
  <2>4. TypeOK' BY <1>5, <2>1, <2>2, <2>3 DEF CC1101_SettingsReg, TypeOK, DrvType
  <2>5. ChipInv' BY <1>5, <2>1 DEF CC1101_SettingsReg, ChipInv
  <2> QED BY <2>4, <2>5
<1>6. CASE StrobeRx
  <2>1. drv' \in DrvType /\ drv'.pc = "gdo0"
    <3>1. (drv.leng * 4) % UInt8 \in 0 .. (UInt8 - 1) BY <1>1, ByteArithmetic DEF DrvType
    <3> QED BY <1>1, <1>6, <3>1 DEF StrobeRx, DrvType, DrvPCs
  <2>2. chip' \in {"idle", "cal", "rx", "sync"} /\ (chip' = "sync" <=> chip = "sync")
    BY <1>6 DEF StrobeRx, TypeOK
  <2>3. UNCHANGED <<tuned, air, fifo, num, drops, torn>> BY <1>6 DEF StrobeRx
  <2>4. TypeOK' BY <2>1, <2>2, <2>3 DEF TypeOK, DrvType
  <2>5. ChipInv' BY <2>1, <2>2, <2>3 DEF ChipInv
  <2> QED BY <2>4, <2>5
<1>7. CASE WaitForGDO0
  <2>1. drv' \in DrvType /\ drv'.pc \in {"rxbytes", "periodic", "gdo0"}
    <3>1. Decremented(drv.i) \in 0 .. (UInt8 - 1) BY <1>1, ByteArithmetic DEF DrvType
    <3>2. CASE Goto("rxbytes") BY <1>2, <3>2 DEF DrvPCs
    <3>3. CASE drv' = [drv EXCEPT !.i = Decremented(drv.i),
                          !.pc = IF Decremented(drv.i) < 1 THEN "periodic" ELSE "gdo0"]
      BY <1>1, <3>1, <3>3 DEF DrvType, DrvPCs
    <3> QED BY <1>7, <3>2, <3>3 DEF WaitForGDO0
  <2> QED BY <1>1, <1>3, <1>7, <2>1 DEF WaitForGDO0
<1>8. CASE ReadRxBytes
  <2>1. drv' \in DrvType /\ drv'.pc = IF fifo = <<>> THEN "periodic" ELSE "length"
    BY <1>2, <1>8 DEF ReadRxBytes, DrvPCs
  <2> QED BY <1>1, <1>3, <1>8, <2>1 DEF ReadRxBytes
<1>9. CASE ReadLength
  <2>1. fifo # <<>> BY <1>9 DEF ReadLength, ChipInv
  <2>2. Head(fifo) \in Item BY <1>1, <2>1
  <2>3. FirstByte(Head(fifo)) \subseteq 0 .. (UInt8 - 1)
    BY <2>2, Ranges DEF FirstByte, Item
  <2>4. PICK l \in FirstByte(Head(fifo)) :
          \/ /\ drv' = [drv EXCEPT !.pc = "payload", !.packetLength = l]
             /\ UNCHANGED drops
          \/ /\ drv' = [drv EXCEPT !.pc = "forget", !.packetLength = l, !.leng = l]
             /\ drops' = DropsAfter(Head(fifo))
    BY <1>9 DEF ReadLength
  <2>5. l \in 0 .. (UInt8 - 1) BY <2>3
  <2>6. drv' \in DrvType /\ drv'.pc # "start" BY <1>1, <2>4, <2>5 DEF DrvType, DrvPCs
  <2>7. drops' \in 0 .. 2 BY <1>1, <2>4 DEF DropsAfter
  <2>8. UNCHANGED <<chip, tuned, air, fifo, num, torn>> BY <1>9 DEF ReadLength
  <2> QED BY <1>1, <1>3, <2>1, <2>6, <2>7, <2>8
<1>10. CASE ReadPayload
  <2>1. fifo # <<>> BY <1>10 DEF ReadPayload, ChipInv
  <2>2. Head(fifo) \in Item /\ Tail(fifo) \in Seq(Item) BY <1>1, <2>1
  <2>3. drv' \in DrvType /\ drv'.pc = "flush"
    <3>1. PICK ok \in (IF Head(fifo).is = "whole" THEN {Head(fifo).p.crc} ELSE BOOLEAN) :
            drv' = [drv EXCEPT !.pc = "flush", !.leng = drv.packetLength, !.ok = ok,
                       !.got = IF Head(fifo).is = "whole" THEN Head(fifo).p ELSE Mixed]
      BY <1>10 DEF ReadPayload
    <3>2. Head(fifo).p \in Packets /\ Head(fifo).p.crc \in BOOLEAN BY <2>2, Ranges DEF Item
    <3>3. ok \in BOOLEAN BY <3>1, <3>2
    <3>4. (IF Head(fifo).is = "whole" THEN Head(fifo).p ELSE Mixed)
             \in Packets \cup {NoPacket, Mixed}
      BY <3>2
    <3> QED BY <1>1, <3>1, <3>3, <3>4 DEF DrvType, DrvPCs
  <2>4. air' \in AirType /\ air'.p = air.p /\ (air = Silence => air' = Silence)
    BY <1>1, <1>10, CutKeepsTypes DEF ReadPayload, Silence
  <2>5. drops' \in 0 .. 2 BY <1>1, <1>10 DEF ReadPayload
  <2>6. fifo' \in Seq(Item) /\ UNCHANGED <<chip, tuned, num, torn>>
    BY <1>10, <2>2 DEF ReadPayload
  <2>7. TypeOK' BY <2>3, <2>4, <2>5, <2>6 DEF TypeOK, DrvType, AirType
  <2>8. air'.upto = "head" => fifo' # <<>> /\ fifo'[Len(fifo')] = ItemOf("head", air'.p)
    <3> SUFFICES ASSUME air'.upto = "head"
                 PROVE  fifo' # <<>> /\ fifo'[Len(fifo')] = ItemOf("head", air'.p)
      OBVIOUS
    <3>1. air' = air /\ fifo' = Tail(fifo) /\ fifo' # <<>>
      BY <1>10, CutKeepsTypes DEF ReadPayload
    <3>2. fifo[Len(fifo)] = ItemOf("head", air.p) BY <3>1 DEF ChipInv
    <3>3. Len(fifo') = Len(fifo) - 1 /\ Len(fifo') \in Nat \ {0}
      BY <1>1, <2>1, <2>2, <3>1
    <3>4. fifo'[Len(fifo')] = fifo[Len(fifo') + 1] BY <1>1, <2>1, <3>1, <3>3, HeadTailProperties
    <3> QED BY <1>1, <3>1, <3>2, <3>3, <3>4
  <2>9. ChipInv' BY <2>3, <2>4, <2>6, <2>8 DEF ChipInv
  <2> QED BY <2>7, <2>9
<1>11. CASE Flush
  <2>1. drv' \in DrvType /\ drv'.pc \in {"analyse", "periodic"}
    BY <1>2, <1>11 DEF Flush, DrvPCs
  <2>2. /\ air' \in AirType /\ air'.p = air.p /\ air'.upto # "head"
        /\ air = Silence => air' = Silence
    BY <1>1, <1>11, CutKeepsTypes DEF Flush, Silence
  <2>3. fifo' \in Seq(Item) BY <1>11, EmptySeq DEF Flush
  <2>4. UNCHANGED <<chip, tuned, num, drops, torn>> BY <1>11 DEF Flush
  <2>5. TypeOK' BY <2>1, <2>2, <2>3, <2>4 DEF TypeOK, DrvType, AirType
  <2>6. ChipInv' BY <2>1, <2>2, <2>4 DEF ChipInv
  <2> QED BY <2>5, <2>6
<1>12. CASE HandlePacket
  <2>1. drv' \in DrvType /\ drv'.pc = "reset"
    BY <1>1, <1>12 DEF HandlePacket, DrvType, DrvPCs
  <2> QED BY <1>1, <1>3, <1>12, <2>1 DEF HandlePacket
<1>13. CASE Periodic
  <2>1. CASE num = Polls
    <3>1. ResetChip /\ Goto("settings") /\ UNCHANGED <<num, drops>>
      BY <1>13, <2>1 DEF Periodic
    <3>2. drv' \in DrvType /\ drv'.pc = "settings" BY <1>2, <3>1 DEF DrvPCs
    <3> QED BY <1>1, <3>1, <3>2, ResetKeepsTypes
  <2>2. CASE num # Polls
    <3>1. /\ Goto("sleep") /\ num' = (num + 1) % UInt8
          /\ UNCHANGED <<chip, tuned, air, fifo, drops, torn>>
      BY <1>13, <2>2 DEF Periodic
    <3>2. drv' \in DrvType /\ drv'.pc = "sleep" BY <1>2, <3>1 DEF DrvPCs
    <3>3. num + 1 \in 0 .. Polls BY <1>1, <2>2, RadioAssumption
    <3>4. \A n \in Nat : n % UInt8 \in 0 .. n
      <4>1. UInt8 \in Nat \ {0} BY RadioAssumption
      <4> QED BY <4>1
    <3>5. num' \in 0 .. Polls BY <3>1, <3>3, <3>4, RadioAssumption
    <3> QED BY <1>1, <1>3, <3>1, <3>2, <3>5
  <2> QED BY <2>1, <2>2
<1>14. CASE Sleep
  <2>1. drv' \in DrvType /\ drv'.pc = "strobe" BY <1>2, <1>14 DEF Sleep, DrvPCs
  <2> QED BY <1>1, <1>3, <1>14, <2>1 DEF Sleep
<1>15. CASE OverrunRxBuffer
  <2>1. drv' \in DrvType /\ drv'.pc = "overrun" BY <1>2, <1>15 DEF OverrunRxBuffer, DrvPCs
  <2> QED BY <1>1, <1>3, <1>15, <2>1 DEF OverrunRxBuffer
<1> QED
  BY <1>4, <1>5, <1>6, <1>7, <1>8, <1>9, <1>10, <1>11, <1>12, <1>13, <1>14, <1>15
     DEF Thread, Receive

(* Every step keeps the types and ChipInv. *)
LEMMA RadioNext == TypeOK /\ ChipInv /\ [Next]_vars => TypeOK' /\ ChipInv'
<1> SUFFICES ASSUME TypeOK, ChipInv, [Next]_vars PROVE TypeOK' /\ ChipInv' OBVIOUS
<1>1. CASE UNCHANGED vars BY <1>1 DEF vars, TypeOK, ChipInv
<1> QED BY <1>1, AirKeepsTypes, ThreadKeepsTypes DEF Next, Overrun

(* The driver's uint8_t variables and its poll counter keep their ranges,   *)
(* and the poll counter never passes the value it is compared with, so the  *)
(* chip is reset in time.                                                   *)
THEOREM RadioTypeCorrect == Spec => []TypeOK
BY RadioInit, RadioNext, PTL DEF Spec

(* The chip and its FIFO stay consistent. *)
LEMMA ChipInvariant == Spec => []ChipInv
BY RadioInit, RadioNext, PTL DEF Spec

-----------------------------------------------------------------------------
(* The length the driver works with: after a refused frame it is the        *)
(* frame's, and the packet being read has the length that was read.         *)
LengthInv ==
  /\ drops <= 1
  /\ drops = 1 => drv.leng = FrameLen
  /\ drv.pc = "payload" =>
       Head(fifo).is = "tail" \/ drv.packetLength = Head(fifo).p.len

(* What the chip does never changes which packet the FIFO begins with. *)
LEMMA FirstPacketStays ==
  TypeOK /\ ChipInv /\ Air /\ fifo # <<>> =>
    /\ Head(fifo').p = Head(fifo).p
    /\ Head(fifo').is = "tail" <=> Head(fifo).is = "tail"
<1> SUFFICES ASSUME TypeOK, ChipInv, Air, fifo # <<>>
             PROVE  /\ Head(fifo').p = Head(fifo).p
                    /\ Head(fifo').is = "tail" <=> Head(fifo).is = "tail"
  OBVIOUS
<1>1. fifo \in Seq(Item) BY DEF TypeOK
<1>2. Len(fifo) \in Nat \ {0} BY <1>1
<1>3. CASE Calibrated \/ \E p \in Packets : Sync(p) BY <1>3 DEF Calibrated, Sync
<1>4. \A x : Head(Append(fifo, x)) = Head(fifo) BY <1>1, <1>2
<1>5. CASE HeadArrives BY <1>4, <1>5 DEF HeadArrives
<1>6. CASE PacketEnds
  <2>1. CASE air.upto # "head" BY <1>4, <1>6, <2>1 DEF PacketEnds
  <2>2. CASE air.upto = "head"
    <3>1. fifo[Len(fifo)] = ItemOf("head", air.p) BY <2>2 DEF ChipInv
    <3>2. fifo' = [fifo EXCEPT ![Len(fifo)].is = "whole"] BY <1>6, <2>2 DEF PacketEnds
    <3>3. [fifo[Len(fifo)] EXCEPT !.is = "whole"] = ItemOf("whole", air.p)
      BY <3>1 DEF ItemOf
    <3>4. fifo' = [fifo EXCEPT ![Len(fifo)] = ItemOf("whole", air.p)] BY <3>2, <3>3
    <3>5. fifo'[1] = IF Len(fifo) = 1 THEN ItemOf("whole", air.p) ELSE fifo[1]
      BY <1>1, <1>2, <3>4
    <3>6. fifo' \in Seq(Item) /\ fifo' # <<>>
      <4>1. air.p \in Packets BY <1>6 DEF PacketEnds, ChipInv
      <4>2. ItemOf("whole", air.p) \in Item BY <4>1 DEF Item, ItemOf
      <4> QED BY <1>1, <1>2, <3>4, <4>2
    <3>7. Head(fifo) = fifo[1] /\ Head(fifo') = fifo'[1] BY <1>1, <3>6
    <3> QED BY <3>1, <3>5, <3>7 DEF ItemOf
  <2> QED BY <2>1, <2>2
<1> QED BY <1>3, <1>5, <1>6 DEF Air

(* LengthInv is inductive. *)
LEMMA NextLengthInv ==
  TypeOK /\ ChipInv /\ LengthInv /\ [Next]_vars => LengthInv'
<1> SUFFICES ASSUME TypeOK, ChipInv, LengthInv, [Next]_vars PROVE LengthInv' OBVIOUS
<1>1. drv \in DrvType /\ fifo \in Seq(Item) /\ drops \in 0 .. 2 BY DEF TypeOK, DrvType
(* Steps that leave the length and the count of refused frames alone. *)
<1>2. ASSUME drops' = drops, drv'.leng = drv.leng, drv'.pc # "payload" PROVE LengthInv'
  BY <1>2 DEF LengthInv
<1>3. CASE Air
  <2>1. UNCHANGED <<drv, drops>> BY <1>3 DEF Air, Calibrated, Sync, HeadArrives, PacketEnds
  <2>2. CASE drv.pc = "payload"
    <3>1. fifo # <<>> BY <2>2 DEF ChipInv
    <3> QED BY <1>3, <2>1, <2>2, <3>1, FirstPacketStays DEF LengthInv
  <2> QED BY <1>2, <2>1, <2>2
<1>4. CASE CC1101_PowerUp \/ CC1101_Reset \/ CC1101_SettingsReg
  BY <1>1, <1>2, <1>4 DEF CC1101_PowerUp, CC1101_Reset, CC1101_SettingsReg, Goto, DrvType
<1>5. CASE StrobeRx BY <1>1, <1>2, <1>5 DEF StrobeRx, DrvType
<1>6. CASE WaitForGDO0 BY <1>1, <1>2, <1>6 DEF WaitForGDO0, Goto, DrvType
<1>7. CASE ReadRxBytes BY <1>1, <1>2, <1>7 DEF ReadRxBytes, Goto, DrvType
<1>8. CASE ReadLength
  <2>1. fifo # <<>> /\ fifo' = fifo BY <1>8 DEF ReadLength, ChipInv
  <2>2. Head(fifo) \in Item BY <1>1, <2>1
  <2>3. PICK l \in FirstByte(Head(fifo)) :
          \/ /\ l <= drv.leng
             /\ drv' = [drv EXCEPT !.pc = "payload", !.packetLength = l]
             /\ UNCHANGED drops
          \/ /\ l > drv.leng
             /\ drv' = [drv EXCEPT !.pc = "forget", !.packetLength = l, !.leng = l]
             /\ drops' = DropsAfter(Head(fifo))
    BY <1>8 DEF ReadLength
  <2>4. Head(fifo).is = "tail" \/ l = Head(fifo).p.len BY <2>3 DEF FirstByte
  <2>5. CASE drv' = [drv EXCEPT !.pc = "payload", !.packetLength = l] /\ UNCHANGED drops
    <3>1. drv'.pc = "payload" /\ drv'.packetLength = l /\ drv'.leng = drv.leng
      BY <1>1, <2>5 DEF DrvType
    <3> QED BY <2>1, <2>4, <2>5, <3>1 DEF LengthInv
  <2>6. CASE /\ l > drv.leng
             /\ drv' = [drv EXCEPT !.pc = "forget", !.packetLength = l, !.leng = l]
             /\ drops' = DropsAfter(Head(fifo))
    <3>1. drv'.pc = "forget" /\ drv'.leng = l BY <1>1, <2>6 DEF DrvType
    <3>2. CASE Head(fifo).is = "whole" /\ Head(fifo).p = Frame
      <4>1. l = FrameLen BY <2>4, <3>2 DEF Frame
      <4>2. drv.leng # FrameLen BY <1>1, <2>6, <4>1, Ranges DEF DrvType
      <4>3. drops = 0 BY <1>1, <4>2 DEF LengthInv
      <4>4. drops' = 1 BY <2>6, <3>2, <4>3 DEF DropsAfter
      <4> QED BY <3>1, <4>1, <4>4 DEF LengthInv
    <3>3. CASE ~ (Head(fifo).is = "whole" /\ Head(fifo).p = Frame)
      <4>1. drops' = 0 BY <2>6, <3>3 DEF DropsAfter
      <4> QED BY <3>1, <4>1 DEF LengthInv
    <3> QED BY <3>2, <3>3
  <2> QED BY <2>3, <2>5, <2>6
<1>9. CASE ReadPayload
  <2>1. drv'.pc = "flush" /\ drv'.leng = drv.packetLength
    BY <1>1, <1>9 DEF ReadPayload, DrvType
  <2>2. CASE Head(fifo) = [is |-> "whole", p |-> Frame]
    <3>1. drv.packetLength = FrameLen BY <1>9, <2>2 DEF ReadPayload, LengthInv, Frame
    <3>2. drops' = drops BY <1>9, <2>2 DEF ReadPayload
    <3> QED BY <2>1, <3>1, <3>2 DEF LengthInv
  <2>3. CASE Head(fifo) # [is |-> "whole", p |-> Frame]
    <3>1. drops' = 0 BY <1>9, <2>3 DEF ReadPayload
    <3> QED BY <2>1, <3>1 DEF LengthInv
  <2> QED BY <2>2, <2>3
<1>10. CASE Flush BY <1>1, <1>2, <1>10 DEF Flush, Goto, DrvType
<1>11. CASE HandlePacket BY <1>1, <1>2, <1>11 DEF HandlePacket, DrvType
<1>12. CASE Periodic BY <1>1, <1>2, <1>12 DEF Periodic, Goto, DrvType
<1>13. CASE Sleep BY <1>1, <1>2, <1>13 DEF Sleep, Goto, DrvType
<1>14. CASE UNCHANGED vars BY <1>14 DEF vars, LengthInv
<1>15. CASE OverrunRxBuffer BY <1>1, <1>2, <1>15 DEF OverrunRxBuffer, Goto, DrvType
<1> QED
  BY <1>3, <1>4, <1>5, <1>6, <1>7, <1>8, <1>9, <1>10, <1>11, <1>12, <1>13, <1>14, <1>15
     DEF Next, Thread, Receive, Overrun

(* However packets of other lengths, resets and torn receptions are mixed   *)
(* in, CC1101_ReceivePacket refuses at most one frame of the system's       *)
(* length between two other packets.                                        *)
THEOREM DriverLearnsTheLength == Spec => []OneFrameLostPerPacket
<1>1. Init => LengthInv BY DEF Init, LengthInv
<1>2. LengthInv => OneFrameLostPerPacket BY DEF LengthInv, OneFrameLostPerPacket
<1> QED BY <1>1, <1>2, NextLengthInv, RadioTypeCorrect, ChipInvariant, PTL DEF Spec

-----------------------------------------------------------------------------
(* As long as nothing was torn there is at most one packet in the FIFO, it  *)
(* is whole when the driver reads it, and nothing comes between.            *)
WholeInv ==
  ~ torn =>
    /\ Len(fifo) <= 1
    /\ air.upto # "cut"
    /\ fifo # <<>> => \/ Head(fifo).is = "whole" /\ air.upto # "head"
                      \/ Head(fifo).is = "head" /\ air.upto = "head"
    /\ drv.pc \in Window => air.upto = "none"
    /\ drv.pc = "flush" =>
         /\ fifo = <<>>
         /\ drv.got \in Packets /\ drv.ok = drv.got.crc /\ drv.leng = drv.got.len
    /\ HandsOverWholePackets

(* WholeInv speaks of the FIFO's first packet by what was read of it; this  *)
(* is the part of LengthInv it needs, at the moment of the burst read.      *)
LEMMA ReadsTheWholePacket ==
  TypeOK /\ ChipInv /\ LengthInv /\ WholeInv /\ ~ torn /\ ReadPayload =>
    /\ Head(fifo).is = "whole" /\ fifo' = <<>>
    /\ drv'.got = Head(fifo).p /\ Head(fifo).p \in Packets
    /\ drv'.ok = drv'.got.crc /\ drv'.leng = drv'.got.len /\ drv'.pc = "flush"
    /\ air' = air
<1> SUFFICES ASSUME TypeOK, ChipInv, LengthInv, WholeInv, ~ torn, ReadPayload
             PROVE  /\ Head(fifo).is = "whole" /\ fifo' = <<>>
                    /\ drv'.got = Head(fifo).p /\ Head(fifo).p \in Packets
                    /\ drv'.ok = drv'.got.crc /\ drv'.leng = drv'.got.len
                    /\ drv'.pc = "flush" /\ air' = air
  OBVIOUS
<1>1. drv \in DrvType /\ fifo \in Seq(Item) BY DEF TypeOK, DrvType
<1>2. drv.pc = "payload" /\ fifo # <<>> BY DEF ReadPayload, ChipInv
<1>3. air.upto = "none" BY <1>2 DEF WholeInv, Window
<1>4. Head(fifo).is = "whole" BY <1>2, <1>3 DEF WholeInv
<1>5. Head(fifo) \in Item BY <1>1, <1>2
<1>6. Len(fifo) = 1
  <2>1. Len(fifo) \in Nat \ {0} BY <1>1, <1>2
  <2>2. Len(fifo) <= 1 BY DEF WholeInv
  <2>3. \A n \in Nat \ {0} : n <= 1 => n = 1 OBVIOUS
  <2> QED BY <2>1, <2>2, <2>3, Zenon
<1>7. Tail(fifo) = <<>>
  <2>1. Tail(fifo) \in Seq(Item) /\ Len(Tail(fifo)) = 0
    BY <1>1, <1>2, <1>6, HeadTailProperties
  <2> QED BY <2>1, EmptySeq
<1>8. drv' = [drv EXCEPT !.pc = "flush", !.leng = drv.packetLength,
                         !.ok = Head(fifo).p.crc, !.got = Head(fifo).p]
  BY <1>4 DEF ReadPayload
<1>9. drv.packetLength = Head(fifo).p.len BY <1>2, <1>4 DEF LengthInv
<1>10. /\ drv'.got = Head(fifo).p /\ drv'.ok = Head(fifo).p.crc
       /\ drv'.leng = drv.packetLength /\ drv'.pc = "flush"
  BY <1>1, <1>8 DEF DrvType
<1>11. fifo' = <<>> /\ air' = air BY <1>3, <1>7 DEF ReadPayload
<1> QED BY <1>4, <1>5, <1>9, <1>10, <1>11 DEF Item

(* WholeInv is inductive. *)
LEMMA NextWholeInv ==
  TypeOK /\ ChipInv /\ LengthInv /\ WholeInv /\ [Next]_vars => WholeInv'
<1> SUFFICES ASSUME TypeOK, ChipInv, LengthInv, WholeInv, [Next]_vars, ~ torn'
             PROVE  WholeInv'
  BY DEF WholeInv
<1>1. drv \in DrvType /\ fifo \in Seq(Item) /\ air \in AirType BY DEF TypeOK, DrvType, AirType
<1>2. Len(fifo) \in Nat /\ (fifo # <<>> => Len(fifo) \in Nat \ {0}) BY <1>1
(* A reset leaves nothing in the FIFO and on the air. *)
<1>3. ASSUME ResetChip, drv'.pc \in {"settings0", "settings"} PROVE WholeInv'
  BY <1>3 DEF ResetChip, WholeInv, Silence, Window, HandsOverWholePackets
(* Steps of the driver that touch neither the chip nor the packet read. *)
<1>4. ASSUME ~ torn, UNCHANGED <<air, fifo>>,
             drv'.pc \notin {"flush", "analyse"},
             drv'.pc \in Window => drv.pc \in Window
      PROVE  WholeInv'
  BY <1>4 DEF WholeInv, HandsOverWholePackets
<1>5. CASE Calibrated
  BY <1>5 DEF Calibrated, WholeInv, HandsOverWholePackets
<1>6. ASSUME NEW p \in Packets, Sync(p) PROVE WholeInv'
  <2>1. air = Silence BY <1>6 DEF Sync, ChipInv
  <2>2. air'.upto = "none" /\ UNCHANGED <<fifo, drv, torn>> BY <1>6 DEF Sync
  <2> QED BY <2>1, <2>2 DEF WholeInv, Silence, HandsOverWholePackets
(* A head that tears nothing comes into an empty FIFO, outside the window. *)
<1>7. CASE HeadArrives
  <2>1. fifo = <<>> /\ drv.pc \notin Window /\ ~ torn BY <1>7 DEF HeadArrives
  <2>2. fifo' = <<ItemOf("head", air.p)>> BY <1>7, <2>1 DEF HeadArrives, ItemOf
  <2>3. air'.upto = "head" /\ drv' = drv BY <1>1, <1>7 DEF HeadArrives, AirType
  <2>4. Len(fifo') = 1 /\ Head(fifo').is = "head" BY <2>2 DEF ItemOf
  <2> QED BY <2>1, <2>3, <2>4 DEF WholeInv, Window, HandsOverWholePackets
<1>8. CASE PacketEnds
  <2>1. ~ torn /\ air.upto = "head" BY <1>1, <1>8 DEF PacketEnds, WholeInv, AirType
  <2>2. drv.pc \notin Window /\ Len(fifo) <= 1 BY <2>1 DEF WholeInv
  <2>3. fifo # <<>> /\ fifo[Len(fifo)] = ItemOf("head", air.p) BY <2>1 DEF ChipInv
  <2>4. Len(fifo) = 1 BY <1>2, <2>2, <2>3
  <2>5. fifo' = [fifo EXCEPT ![Len(fifo)].is = "whole"] BY <1>8, <2>1 DEF PacketEnds
  <2>6. [fifo[Len(fifo)] EXCEPT !.is = "whole"] = ItemOf("whole", air.p)
    BY <2>3 DEF ItemOf
  <2>7. fifo' = [fifo EXCEPT ![1] = ItemOf("whole", air.p)] BY <2>4, <2>5, <2>6
  <2>8. Len(fifo') = 1 /\ Head(fifo').is = "whole"
    <3>1. air.p \in Packets BY <1>8 DEF PacketEnds, ChipInv
    <3>2. ItemOf("whole", air.p) \in Item BY <3>1 DEF Item, ItemOf
    <3>3. Len(fifo') = 1 /\ fifo'[1] = ItemOf("whole", air.p) /\ fifo' \in Seq(Item)
      BY <1>1, <2>4, <2>7, <3>2, ExceptSeq
    <3> QED BY <3>3 DEF ItemOf
  <2>9. air'.upto = "none" /\ drv' = drv BY <1>8 DEF PacketEnds, Silence
  <2> QED BY <2>1, <2>2, <2>8, <2>9 DEF WholeInv, Window, HandsOverWholePackets
<1>9. CASE CC1101_PowerUp \/ CC1101_Reset
  BY <1>1, <1>3, <1>9 DEF CC1101_PowerUp, CC1101_Reset, Goto, DrvType
<1>10. CASE CC1101_SettingsReg
  BY <1>1, <1>4, <1>10 DEF CC1101_SettingsReg, Goto, DrvType, Window
<1>11. CASE StrobeRx BY <1>1, <1>4, <1>11 DEF StrobeRx, DrvType, Window
(* The driver enters the window only when GDO0 is low. *)
<1>12. CASE WaitForGDO0
  <2>1. CASE chip # "sync" /\ Goto("rxbytes")
    <3>1. air.upto = "none" BY <2>1 DEF ChipInv, Silence
    <3>2. drv'.pc = "rxbytes" BY <1>1, <2>1 DEF Goto, DrvType
    <3> QED BY <1>12, <3>1, <3>2 DEF WaitForGDO0, WholeInv, HandsOverWholePackets
  <2>2. CASE drv' = [drv EXCEPT !.i = Decremented(drv.i),
                        !.pc = IF Decremented(drv.i) < 1 THEN "periodic" ELSE "gdo0"]
    <3>1. drv'.pc \in {"periodic", "gdo0"} BY <1>1, <2>2 DEF DrvType
    <3> QED BY <1>4, <1>12, <3>1 DEF WaitForGDO0, Window
  <2> QED BY <1>12, <2>1, <2>2 DEF WaitForGDO0
<1>13. CASE ReadRxBytes BY <1>1, <1>4, <1>13 DEF ReadRxBytes, Goto, DrvType, Window
<1>14. CASE ReadLength
  <2>1. drv'.pc \in {"payload", "forget"} BY <1>1, <1>14 DEF ReadLength, DrvType
  <2> QED BY <1>4, <1>14, <2>1 DEF ReadLength, Window
<1>15. CASE ReadPayload
  <2>1. ~ torn BY <1>15 DEF ReadPayload
  <2>2. /\ fifo' = <<>> /\ drv'.got \in Packets /\ drv'.pc = "flush" /\ air' = air
        /\ drv'.ok = drv'.got.crc /\ drv'.leng = drv'.got.len
    BY <1>15, <2>1, ReadsTheWholePacket
  <2>3. air.upto = "none" BY <1>15, <2>1 DEF ReadPayload, WholeInv, Window
  <2>4. Len(fifo') <= 1 BY <2>2
  <2> QED BY <2>2, <2>3, <2>4 DEF WholeInv, HandsOverWholePackets
<1>16. CASE Flush
  <2>1. ~ torn /\ drv.pc \in Window BY <1>16 DEF Flush, Window
  <2>2. air.upto = "none" /\ air' = air /\ fifo' = <<>>
    BY <1>16, <2>1 DEF Flush, WholeInv
  <2>3. /\ drv'.pc \in {"analyse", "periodic"} /\ drv'.got = drv.got /\ drv'.leng = drv.leng
        /\ drv'.pc = "analyse" => drv.pc = "flush" /\ drv.ok
    BY <1>1, <1>16 DEF Flush, Goto, DrvType
  <2>4. drv'.pc = "analyse" =>
          drv'.got \in Packets /\ drv'.got.crc /\ drv'.got.len = drv'.leng
    <3> SUFFICES ASSUME drv'.pc = "analyse"
                 PROVE  drv'.got \in Packets /\ drv'.got.crc /\ drv'.got.len = drv'.leng
      OBVIOUS
    <3>1. drv.got \in Packets /\ drv.ok = drv.got.crc /\ drv.leng = drv.got.len /\ drv.ok
      BY <2>1, <2>3 DEF WholeInv
    <3> QED BY <2>3, <3>1
  <2>5. Len(fifo') <= 1 BY <2>2
  <2> QED BY <2>2, <2>3, <2>4, <2>5 DEF WholeInv, Window, HandsOverWholePackets
<1>17. CASE HandlePacket BY <1>1, <1>4, <1>17 DEF HandlePacket, DrvType, Window
<1>18. CASE Periodic
  <2>1. CASE num = Polls BY <1>1, <1>3, <1>18, <2>1 DEF Periodic, Goto, DrvType
  <2>2. CASE num # Polls BY <1>1, <1>4, <1>18, <2>2 DEF Periodic, Goto, DrvType, Window
  <2> QED BY <2>1, <2>2
<1>19. CASE Sleep BY <1>1, <1>4, <1>19 DEF Sleep, Goto, DrvType, Window
<1>20. CASE UNCHANGED vars
  BY <1>20 DEF vars, WholeInv, HandsOverWholePackets
<1>21. CASE OverrunRxBuffer
  BY <1>1, <1>4, <1>21 DEF OverrunRxBuffer, Goto, DrvType, Window
<1> QED
  BY <1>5, <1>6, <1>7, <1>8, <1>9, <1>10, <1>11, <1>12, <1>13, <1>14, <1>15, <1>16,
     <1>17, <1>18, <1>19, <1>20, <1>21 DEF Next, Air, Thread, Receive, Overrun

(* The three invariants together hold of every behaviour. *)
LEMMA RadioInvariant == Spec => [](LengthInv /\ WholeInv)
<1>1. Init => LengthInv BY DEF Init, LengthInv
<1>2. Init => WholeInv
  BY DEF Init, WholeInv, Silence, Window, HandsOverWholePackets
<1> QED
  BY <1>1, <1>2, NextLengthInv, NextWholeInv, RadioTypeCorrect, ChipInvariant, PTL
     DEF Spec

(* What the receive thread analyses is one complete packet, of the length   *)
(* reported and with a good CRC, for any lengths of packets on the channel  *)
(* and any interleaving of the chip with the driver's SPI accesses in which *)
(* no packet came in while the driver was about to read or to empty the     *)
(* FIFO.                                                                    *)
THEOREM OnlyWholePackets == Spec => []HandsOverWholePackets
<1>1. WholeInv => HandsOverWholePackets BY DEF WholeInv, HandsOverWholePackets
<1> QED BY <1>1, RadioInvariant, PTL

(* One step: what takes an accepted frame out of the FIFO. *)
LEMMA StepLosesNoFrame ==
  TypeOK /\ ChipInv /\ LengthInv /\ WholeInv /\ [Next]_vars =>
    [~ torn /\ Acceptable /\ fifo' = <<>>
       => drv.pc \in {"reset", "periodic"} \/ (drv'.got = Frame /\ drv'.ok)]_vars
<1> SUFFICES ASSUME TypeOK, ChipInv, LengthInv, WholeInv, Next,
                    ~ torn, Acceptable, fifo' = <<>>
             PROVE  drv.pc \in {"reset", "periodic"} \/ (drv'.got = Frame /\ drv'.ok)
  OBVIOUS
<1>1. /\ fifo # <<>> /\ Head(fifo) = [is |-> "whole", p |-> Frame]
      /\ drv.pc # "forget" /\ fifo \in Seq(Item)
  BY DEF Acceptable, TypeOK
<1>2. CASE Air
  <2>1. ~ HeadArrives BY <1>1 DEF HeadArrives
  <2>2. ~ PacketEnds
    <3>1. CASE air.upto = "head"
      <4>1. Head(fifo).is # "whole" BY <1>1, <3>1 DEF WholeInv
      <4> QED BY <1>1, <4>1
    <3>2. CASE air.upto # "head" BY <1>1, <3>2 DEF PacketEnds
    <3> QED BY <3>1, <3>2
  <2>3. fifo' = fifo BY <1>2, <2>1, <2>2 DEF Air, Calibrated, Sync
  <2> QED BY <1>1, <2>3
<1>3. CASE CC1101_PowerUp BY <1>1, <1>3 DEF CC1101_PowerUp, ChipInv
<1>4. CASE CC1101_Reset \/ Periodic BY <1>4 DEF CC1101_Reset, Periodic
<1>5. CASE \/ CC1101_SettingsReg \/ StrobeRx \/ WaitForGDO0 \/ ReadRxBytes
           \/ ReadLength \/ OverrunRxBuffer \/ HandlePacket \/ Sleep \/ Overrun
  BY <1>1, <1>5 DEF CC1101_SettingsReg, StrobeRx, WaitForGDO0, ReadRxBytes, ReadLength,
                    OverrunRxBuffer, HandlePacket, Sleep, Overrun, vars
<1>6. CASE ReadPayload
  <2>1. drv'.got = Head(fifo).p /\ drv'.ok = drv'.got.crc
    BY <1>6, ReadsTheWholePacket
  <2>2. drv'.got = Frame BY <1>1, <2>1
  <2>3. Frame.crc = TRUE BY DEF Frame
  <2> QED BY <2>1, <2>2, <2>3
<1>7. CASE Flush BY <1>1, <1>7 DEF Flush, WholeInv
<1> QED
  BY <1>2, <1>3, <1>4, <1>5, <1>6, <1>7 DEF Next, Thread, Receive

(* A frame that the driver accepts leaves the FIFO by being handed over, or *)
(* in one of the two resets the receive thread itself makes; no other step  *)
(* of thread, driver or chip loses it.                                      *)
THEOREM OnlyResetsLoseFrames == Spec => FramesAreLostOnlyToResets
BY StepLosesNoFrame, RadioInvariant, RadioTypeCorrect, ChipInvariant, PTL
   DEF Spec, FramesAreLostOnlyToResets
=============================================================================
