-------------------------------- MODULE Radio --------------------------------
(***************************************************************************)
(* The receive thread's polling loop (TaskDataReceiveThreadEntry), the     *)
(* CC1101 driver it calls and the radio chip.                              *)
(*                                                                         *)
(* The chip is known from how the driver sets it up and uses it: GDO0 is   *)
(* high from the sync word to the end of a packet (IOCFG0 = 6), the FIFO   *)
(* then holds the length byte, the payload and two status bytes (PKTCTRL1  *)
(* = 4, PKTCTRL0 = 5), the receiver is off after a packet until the next   *)
(* SRX strobe, SFRX empties the FIFO and SRES restores the power-up state. *)
(* The driver strobes SFRX whatever the chip is doing and goes by the FIFO *)
(* being empty then; so does the model.                                    *)
(*                                                                         *)
(* The chip hears packets while the driver works.  Every SPI access is an  *)
(* action, so a packet may begin or end between any two of them.           *)
(***************************************************************************)
EXTENDS Integers, Sequences

CONSTANTS
  FrameLen,   \* length of a transmitter's frame, and of rxBuffer (12)
  Lengths,    \* lengths of the packets that PKTLEN lets in, 80 and less
  Bytes,      \* values a byte inside a packet may have
  UInt8,      \* number of values of a uint8_t (256)
  Polls       \* polls without a packet after which the chip is reset (20)

ASSUME RadioAssumption ==
  /\ UInt8 \in Nat \ {0, 1}
  /\ Bytes \subseteq 0 .. (UInt8 - 1)
  /\ FrameLen \in Lengths
  /\ Lengths \subseteq 1 .. (UInt8 - 1)
  /\ Polls \in Nat \ {0}

VARIABLES
  chip,    \* "idle", "cal", "rx", or "sync" while GDO0 is high
  tuned,   \* the settings are in the chip's registers
  air,     \* the packet being received, and how much of it is in the FIFO
  fifo,    \* the RX FIFO: whole packets, a packet's head, or a packet's tail
  drv,     \* program counter and locals of the thread and of the driver
  num,     \* the thread's poll counter
  drops,   \* history: frames not handed over since the last other packet
  torn     \* history: since the last reset a packet came into the FIFO while
           \* the driver was about to read or to empty it

vars == <<chip, tuned, air, fifo, drv, num, drops, torn>>

Packets == [len : Lengths, crc : BOOLEAN]

(* What a transmitter of this system sends, undamaged. *)
Frame == [len |-> FrameLen, crc |-> TRUE]

NoPacket == [len |-> 0, crc |-> FALSE]
Mixed    == [len |-> 0, crc |-> TRUE]      \* bytes that are not one packet

(* upto: nothing in the FIFO yet, the head of the packet, or, when the FIFO *)
(* was emptied under it, only what follows.                                  *)
Silence == [upto |-> "none", p |-> NoPacket]

DrvPCs == {"start", "settings0", "strobe", "gdo0", "rxbytes", "length",
           "payload", "flush", "forget", "analyse", "reset", "settings",
           "periodic", "sleep", "overrun"}

(* From the test of GDO0 to the last access to the FIFO: some 0.1 ms when   *)
(* the FIFO is empty and 1 ms when it is not, against 0.08 ms for a byte on *)
(* the air.                                                                 *)
Window == {"rxbytes", "length", "payload", "flush", "forget"}

Init ==
  /\ chip = "idle" /\ tuned = FALSE /\ air = Silence /\ fifo = <<>>
  /\ drv = [pc |-> "start", leng |-> 0, i |-> 0, packetLength |-> 0,
            got |-> NoPacket, ok |-> FALSE]
  /\ num = 0 /\ drops = 0 /\ torn = FALSE

Goto(pc) == drv' = [drv EXCEPT !.pc = pc]

-----------------------------------------------------------------------------
(* The chip *)

(* The calibration between IDLE and RX (MCSM0 = 0x18) is over. *)
Calibrated ==
  /\ chip = "cal"
  /\ chip' = "rx"
  /\ UNCHANGED <<tuned, air, fifo, drv, num, drops, torn>>

(* The sync word of a packet: GDO0 goes high. *)
Sync(p) ==
  /\ chip = "rx" /\ tuned
  /\ chip' = "sync" /\ air' = [upto |-> "none", p |-> p]
  /\ UNCHANGED <<tuned, fifo, drv, num, drops, torn>>

(* The length byte enters the FIFO, a byte time after GDO0 went high. *)
HeadArrives ==
  /\ chip = "sync" /\ air.upto = "none"
  /\ fifo' = Append(fifo, [is |-> "head", p |-> air.p])
  /\ air' = [air EXCEPT !.upto = "head"]
  /\ torn' = (torn \/ drv.pc \in Window \/ fifo # <<>>)
  /\ UNCHANGED <<chip, tuned, drv, num, drops>>

(* The last byte: GDO0 goes low, and the receiver is off. *)
PacketEnds ==
  /\ chip = "sync" /\ air.upto # "none"
  /\ fifo' = IF air.upto = "head"
               THEN [fifo EXCEPT ![Len(fifo)].is = "whole"]
               ELSE Append(fifo, [is |-> "tail", p |-> air.p])
  /\ chip' = "idle" /\ air' = Silence
  /\ UNCHANGED <<tuned, drv, num, drops, torn>>

Air == Calibrated \/ (\E p \in Packets : Sync(p)) \/ HeadArrives \/ PacketEnds

-----------------------------------------------------------------------------
(* Start-up and reset *)

(* CC1101_Reset: the SRES strobe. *)
ResetChip ==
  chip' = "idle" /\ tuned' = FALSE /\ air' = Silence /\ fifo' = <<>> /\ torn' = FALSE

CC1101_PowerUp ==
  /\ drv.pc = "start"
  /\ ResetChip
  /\ Goto("settings0")
  /\ UNCHANGED <<num, drops>>

(* After a packet was handled. *)
CC1101_Reset ==
  /\ drv.pc = "reset"
  /\ ResetChip
  /\ Goto("settings")
  /\ UNCHANGED <<num, drops>>

(* CC1101_SettingsReg; in the loop num = 0 and num++ follow it. *)
CC1101_SettingsReg ==
  /\ tuned' = TRUE
  /\ \/ drv.pc = "settings0" /\ Goto("strobe") /\ num' = 0
     \/ drv.pc = "settings" /\ Goto("sleep") /\ num' = 1
  /\ UNCHANGED <<chip, air, fifo, drops, torn>>

-----------------------------------------------------------------------------
(* CC1101_ReceivePacket *)

(* A plausible slip: the FIFO is emptied on entry. *)
StrobeRxFlushing ==
  /\ drv.pc = "strobe"
  /\ chip' = IF chip = "idle" THEN "cal" ELSE chip
  /\ fifo' = <<>>
  /\ air' = IF air.upto = "head" THEN [air EXCEPT !.upto = "cut"] ELSE air
  /\ drv' = [drv EXCEPT !.pc = "gdo0", !.i = (drv.leng * 4) % UInt8]
  /\ UNCHANGED <<tuned, num, drops, torn>>

(* The SRX strobe, and the limit of the loop that follows. *)
StrobeRx ==
  /\ drv.pc = "strobe"
  /\ chip' = IF chip = "idle" THEN "cal" ELSE chip
  /\ drv' = [drv EXCEPT !.pc = "gdo0", !.i = (drv.leng * 4) % UInt8]
  /\ UNCHANGED <<tuned, air, fifo, num, drops, torn>>

(* A plausible slip: the counter is taken for a signed int. *)
DecrementedSigned(i) == i - 1

(* --i in a uint8_t. *)
Decremented(i) == (i + UInt8 - 1) % UInt8

(* A plausible slip: the loop has no limit. *)
WaitForGDO0Unlimited ==
  /\ drv.pc = "gdo0"
  /\ IF chip = "sync" THEN UNCHANGED drv ELSE Goto("rxbytes")
  /\ UNCHANGED <<chip, tuned, air, fifo, num, drops, torn>>

(* A plausible slip: after the limit the FIFO is read all the same. *)
WaitForGDO0ThenRead ==
  /\ drv.pc = "gdo0"
  /\ IF chip # "sync" \/ Decremented(drv.i) < 1
       THEN Goto("rxbytes")
       ELSE drv' = [drv EXCEPT !.i = Decremented(drv.i)]
  /\ UNCHANGED <<chip, tuned, air, fifo, num, drops, torn>>

(* while(GDO0): wait for the end of a packet, but not for ever. *)
WaitForGDO0 ==
  /\ drv.pc = "gdo0"
  /\ \/ chip # "sync" /\ Goto("rxbytes")
     \/ /\ chip = "sync"
        /\ drv' = [drv EXCEPT !.i = Decremented(drv.i),
                              !.pc = IF Decremented(drv.i) < 1 THEN "periodic" ELSE "gdo0"]
  /\ UNCHANGED <<chip, tuned, air, fifo, num, drops, torn>>

(* SPI_ReadStatus(RXBYTES). *)
ReadRxBytes ==
  /\ drv.pc = "rxbytes"
  /\ Goto(IF fifo = <<>> THEN "periodic" ELSE "length")
  /\ UNCHANGED <<chip, tuned, air, fifo, num, drops, torn>>

(* What the first byte of the FIFO may be. *)
FirstByte(item) == IF item.is = "tail" THEN Bytes ELSE {item.p.len}

(* History: a frame that is not handed over, and what other packet comes. *)
DropsAfter(item) ==
  IF item.is = "whole" /\ item.p = Frame
    THEN IF drops < 2 THEN drops + 1 ELSE drops
    ELSE 0

(* A plausible slip: a packet of the wrong length does not teach its length. *)
ReadLengthUnlearnt ==
  /\ drv.pc = "length"
  /\ \E l \in FirstByte(Head(fifo)) :
       \/ /\ l <= drv.leng
          /\ drv' = [drv EXCEPT !.pc = "payload", !.packetLength = l]
          /\ UNCHANGED drops
       \/ /\ l > drv.leng
          /\ drv' = [drv EXCEPT !.pc = "forget", !.packetLength = l,
                       !.leng = IF drv.leng = 0 THEN l ELSE drv.leng]
          /\ drops' = DropsAfter(Head(fifo))
  /\ UNCHANGED <<chip, tuned, air, fifo, num, torn>>

(* The length byte: a packet longer than the last one is not read, but its  *)
(* length is kept.                                                          *)
ReadLength ==
  /\ drv.pc = "length"
  /\ \E l \in FirstByte(Head(fifo)) :
       \/ /\ l <= drv.leng
          /\ drv' = [drv EXCEPT !.pc = "payload", !.packetLength = l]
          /\ UNCHANGED drops
       \/ /\ l > drv.leng
          /\ drv' = [drv EXCEPT !.pc = "forget", !.packetLength = l, !.leng = l]
          /\ drops' = DropsAfter(Head(fifo))
  /\ UNCHANGED <<chip, tuned, air, fifo, num, torn>>

(* The burst read of a packet that is longer than rxBuffer: it is not held  *)
(* back, and writes over the stack of the receive thread.                   *)
OverrunRxBuffer ==
  /\ drv.pc = "payload" /\ drv.packetLength > FrameLen
  /\ Goto("overrun")
  /\ UNCHANGED <<chip, tuned, air, fifo, num, drops, torn>>

(* The two burst reads: the payload, then RSSI and LQI with the CRC bit.  A *)
(* FIFO that does not hold the whole packet yields whatever bytes it yields. *)
ReadPayload ==
  /\ drv.pc = "payload" /\ drv.packetLength <= FrameLen
  /\ LET item == Head(fifo) IN
       \E ok \in (IF item.is = "whole" THEN {item.p.crc} ELSE BOOLEAN) :
         drv' = [drv EXCEPT !.pc = "flush", !.leng = drv.packetLength, !.ok = ok,
                            !.got = IF item.is = "whole" THEN item.p ELSE Mixed]
  /\ drops' = IF Head(fifo) = [is |-> "whole", p |-> Frame] THEN drops ELSE 0
  /\ fifo' = Tail(fifo)
  /\ air' = IF fifo' = <<>> /\ air.upto = "head"
              THEN [air EXCEPT !.upto = "cut"] ELSE air
  /\ UNCHANGED <<chip, tuned, num, torn>>

(* SFRX, and the value returned: the CRC bit, or 0 for a packet not read. *)
Flush ==
  /\ drv.pc \in {"flush", "forget"}
  /\ fifo' = <<>>
  /\ air' = IF air.upto = "head" THEN [air EXCEPT !.upto = "cut"] ELSE air
  /\ Goto(IF drv.pc = "flush" /\ drv.ok THEN "analyse" ELSE "periodic")
  /\ UNCHANGED <<chip, tuned, num, drops, torn>>

-----------------------------------------------------------------------------
(* The rest of the thread's loop *)

(* mdelay(10), DataFrameAnalysis and the stores, memset: see NodeTable. *)
HandlePacket ==
  /\ drv.pc = "analyse"
  /\ drv' = [drv EXCEPT !.pc = "reset", !.got = NoPacket, !.ok = FALSE]
  /\ UNCHANGED <<chip, tuned, air, fifo, num, drops, torn>>

(* A plausible slip: the counter starts anew at every poll. *)
PeriodicNeverDue ==
  /\ drv.pc = "periodic"
  /\ num' = 1
  /\ Goto("sleep")
  /\ UNCHANGED <<chip, tuned, air, fifo, drops, torn>>

(* Nothing received: every Polls-th time the chip is reset. *)
Periodic ==
  /\ drv.pc = "periodic"
  /\ \/ /\ num = Polls
        /\ ResetChip
        /\ Goto("settings") /\ UNCHANGED num
     \/ /\ num # Polls
        /\ num' = (num + 1) % UInt8
        /\ Goto("sleep")
        /\ UNCHANGED <<chip, tuned, air, fifo, torn>>
  /\ UNCHANGED drops

(* rt_thread_mdelay(50). *)
Sleep ==
  /\ drv.pc = "sleep"
  /\ Goto("strobe")
  /\ UNCHANGED <<chip, tuned, air, fifo, num, drops, torn>>

(* What the thread does with an overwritten stack is not said. *)
Overrun ==
  /\ drv.pc = "overrun"
  /\ UNCHANGED vars

Receive ==
  \/ StrobeRx \/ WaitForGDO0 \/ ReadRxBytes \/ ReadLength
  \/ OverrunRxBuffer \/ ReadPayload \/ Flush

Thread ==
  \/ CC1101_PowerUp \/ CC1101_Reset \/ CC1101_SettingsReg
  \/ Receive
  \/ HandlePacket \/ Periodic \/ Sleep

Next == Air \/ Thread \/ Overrun

Spec == Init /\ [][Next]_vars

(* The thread gets the processor and the chip answers on MISO.  Nothing is  *)
(* assumed of the packets: GDO0 may even stay high for ever.                *)
FairSpec == Spec /\ WF_vars(Thread)

-----------------------------------------------------------------------------
(* Properties *)

Item == [is : {"whole", "head", "tail"}, p : Packets]

(* Types; num never passes the value it is compared with. *)
TypeOK ==
  /\ chip \in {"idle", "cal", "rx", "sync"} /\ tuned \in BOOLEAN
  /\ air \in [upto : {"none", "head", "cut"}, p : Packets \cup {NoPacket}]
  /\ fifo \in Seq(Item)
  /\ drv \in [pc : DrvPCs, leng : 0 .. (UInt8 - 1), i : 0 .. (UInt8 - 1),
              packetLength : 0 .. (UInt8 - 1),
              got : Packets \cup {NoPacket, Mixed}, ok : BOOLEAN]
  /\ num \in 0 .. Polls
  /\ drops \in 0 .. 2 /\ torn \in BOOLEAN

(* What CC1101_ReceivePacket reports as received is one packet, complete,   *)
(* of the length reported and with a good CRC, although the chip may begin  *)
(* or end a packet at any moment and the driver looks at GDO0 once; unless  *)
(* one came into the FIFO between that look and SFRX, or behind an unread   *)
(* packet, since the last reset.  That it fits rxBuffer is not among what   *)
(* the driver ensures: OverrunRxBuffer is the read of one that does not.    *)
HandsOverWholePackets ==
  ~ torn /\ drv.pc = "analyse" =>
    /\ drv.got \in Packets
    /\ drv.got.crc
    /\ drv.got.len = drv.leng

(* A frame is refused because of its length at most once, at the start and  *)
(* after every other packet: the driver has then learnt the length.         *)
OneFrameLostPerPacket == drops <= 1

(* The FIFO begins with a frame that the driver accepts, or will accept. *)
Acceptable ==
  /\ fifo # <<>> /\ Head(fifo) = [is |-> "whole", p |-> Frame]
  /\ drv.leng >= FrameLen /\ drv.pc # "forget"

(* An acceptable frame leaves the FIFO by being handed over, unless one of  *)
(* the two resets of the chip comes before the next poll, or packets were   *)
(* torn since the last reset.                                               *)
FramesAreLostOnlyToResets ==
  [][~ torn /\ Acceptable /\ fifo' = <<>>
       => drv.pc \in {"reset", "periodic"} \/ (drv'.got = Frame /\ drv'.ok)]_vars

(* The thread polls for ever, even if GDO0 stays high and with a limit that *)
(* starts at 0, and it polls a chip that has its settings; until a packet   *)
(* overruns rxBuffer.                                                       *)
KeepsPolling == []<>(drv.pc = "overrun" \/ (drv.pc = "strobe" /\ tuned))

(* A reception that has not ended, or packets torn since the last reset. *)
Stuck == chip = "sync" \/ torn \/ \E k \in DOMAIN fifo : fifo[k].is = "tail"

(* Whatever the FIFO or the receiver is stuck with, a reception that never  *)
(* ends or the tail of a packet that was read too early, is got rid of, and *)
(* packets are handed over whole again, unless one overruns rxBuffer first. *)
Recovers == Stuck ~> (~ Stuck \/ drv.pc = "overrun")

=============================================================================
