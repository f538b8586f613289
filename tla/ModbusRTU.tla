------------------------------ MODULE ModbusRTU ------------------------------
(***************************************************************************)
(* The Modbus RTU slave: the receive and transmit state machines of        *)
(* mbrtu.c, the 3.5-character timer, the event set of portevent.c, the     *)
(* transmit thread of portserial.c and the poll thread that runs eMBPoll.  *)
(*                                                                         *)
(* Contexts, from the most to the least urgent: the serial interrupt       *)
(* (ReceiveFSM), the tick interrupt (T35Expired), the transmit thread      *)
(* "slave trans" (priority 10), the poll thread (priority 22).  What a     *)
(* context does inside a critical section, or without touching what a more *)
(* urgent one writes, is one action.                                       *)
(*                                                                         *)
(* A byte on the line is known by the frame it belongs to and its place in *)
(* it.  The CRC tells whole undamaged frames from everything else.         *)
(***************************************************************************)
EXTENDS Naturals, Sequences

CONSTANTS
    Frames,        \* frames a master may send: [to, len, good]
    MaxRequests,   \* bound: frames the master sends
    CrcSize,       \* MB_SER_PDU_SIZE_CRC (2)
    PduSizeMax     \* MB_SER_PDU_SIZE_MAX (256)

\* MB_SER_PDU_SIZE_MIN: the address, a function code and the CRC.
PduSizeMin == CrcSize + 2

Addresses == {"us", "broadcast", "other"}

ASSUME ModbusAssumption ==
    /\ CrcSize \in Nat \ {0}
    /\ PduSizeMax \in Nat
    /\ PduSizeMax >= PduSizeMin
    /\ MaxRequests \in Nat
    /\ Frames \subseteq [to : Addresses, len : Nat \ {0}, good : BOOLEAN]

VARIABLES
    mode,      \* what is assumed of the master and of the load: see Init
    sent,      \* the frames the master has begun to send
    at,        \* next byte of the frame being sent, 0 when the line is silent
    pend,      \* byte waiting in the UART's data register, or NoByte
    rxOn,      \* the receive interrupt is enabled
    rcv,       \* eRcvState
    timer,     \* the 3.5-character timer runs
    buf,       \* ucRTUBuf
    pos,       \* usRcvBufferPos
    events,    \* xSlaveOsEvent
    poll,      \* eMBPoll: pc, event, static ucRcvAddress and usLength, request
    snd,       \* eSndState
    txOn,      \* EVENT_SERIAL_TRANS_START is set
    count,     \* usSndBufferCount
    trans,     \* transmit thread: "fsm", or "idle" before eSndState = IDLE
    executed,  \* history: executions of each request
    answered,  \* history: complete answers to each request
    wrong,     \* history: what was executed or answered without being a request
    failed     \* assertions that failed

line == <<sent, at>>
receiver == <<rcv, timer, buf, pos>>
history == <<executed, answered, wrong>>
vars == <<mode, line, pend, rxOn, receiver, events, poll, snd, txOn, count,
          trans, history, failed>>

Requests == 1..MaxRequests
Places == 0..PduSizeMax
NoByte == [src |-> "none", n |-> 0, at |-> 0]
RequestByte(n, i) == [src |-> "req", n |-> n, at |-> i]
AnswerByte(n, i) == [src |-> "ans", n |-> n, at |-> i]
CrcByte(i) == [src |-> "crc", n |-> 0, at |-> i]

Events == {"EV_READY", "EV_FRAME_RECEIVED", "EV_EXECUTE", "EV_FRAME_SENT"}

\* The value of eEvent when no case of xMBPortEventGet assigned it.
Unassigned == Events \cup {"other"}

-----------------------------------------------------------------------------
(***************************************************************************)
(* Before ModbusSlavePollThreadEntry runs.  mode.patient: the master waits *)
(* for the answer, or until none can come any more, before it speaks       *)
(* again.  mode.prompt: the poll thread gets the processor before the next *)
(* frame is complete.                                                      *)
(***************************************************************************)
Init ==
    /\ mode \in [patient : BOOLEAN, prompt : BOOLEAN]
    /\ sent = << >> /\ at = 0
    /\ pend = NoByte /\ rxOn = FALSE
    /\ rcv = "STATE_RX_INIT" /\ timer = FALSE
    /\ buf = [i \in 1..PduSizeMax |-> NoByte] /\ pos = 0
    /\ events = {}
    /\ poll = [pc |-> "start", ev |-> "other", taken |-> {},
               to |-> "broadcast", len |-> 0, n |-> 0]
    /\ snd = "STATE_TX_IDLE" /\ txOn = FALSE /\ count = 0 /\ trans = "fsm"
    /\ executed = [n \in Requests |-> 0]
    /\ answered = [n \in Requests |-> 0]
    /\ wrong = {} /\ failed = {}

Running == failed = {}

\* The serial interrupt is served before anything else proceeds.
NoInterrupt == ~ (rxOn /\ pend # NoByte)

\* The poll thread runs only when the transmit thread waits.
PollMayRun == Running /\ NoInterrupt /\ ~ txOn /\ trans = "fsm"

(***************************************************************************)
(* rt_event_send: a poll thread that waits gets the event at once,         *)
(* otherwise the event joins the set.                                      *)
(***************************************************************************)
Post(e) ==
    IF poll.pc = "wait"
    THEN /\ poll' = [poll EXCEPT !.pc = "handle", !.ev = e, !.taken = {e}]
         /\ UNCHANGED events
    ELSE /\ events' = events \cup {e}
         /\ UNCHANGED poll

\* The one-shot timer of 3.5 characters, started or started anew, and stopped.
vMBPortTimersEnable == timer' = TRUE
vMBPortTimersDisable == timer' = FALSE

\* The receive interrupt, and the event the transmit thread waits for.
vMBPortSerialEnable(rx, tx) == rxOn' = rx /\ txOn' = tx

\* eMBInit and eMBEnable: the receiver waits in INIT for a silent line.
Start ==
    /\ PollMayRun /\ poll.pc = "start"
    /\ rcv' = "STATE_RX_INIT"
    /\ vMBPortSerialEnable(TRUE, FALSE) /\ vMBPortTimersEnable
    /\ poll' = [poll EXCEPT !.pc = "get"]
    /\ UNCHANGED <<mode, line, pend, buf, pos, events, snd, count, trans,
                   history, failed>>

-----------------------------------------------------------------------------
\* RT_ASSERT of mbrtu.c:229, in xMBRTUReceiveFSM.
CollisionAssert == "eSndState == STATE_TX_IDLE"

\* Room for one more byte, and the check with an off-by-one.
RoomLeftOnePast == pos <= PduSizeMax
RoomLeft == pos < PduSizeMax

\* xMBRTUReceiveFSM for byte b.
ReceiveFSM(b) ==
    \/ /\ snd # "STATE_TX_IDLE"
       /\ failed' = failed \cup {CollisionAssert}
       /\ UNCHANGED receiver
    \/ /\ snd = "STATE_TX_IDLE"
       /\ \/ /\ rcv \in {"STATE_RX_INIT", "STATE_RX_ERROR"}
             /\ UNCHANGED <<rcv, buf, pos>>
          \/ /\ rcv = "STATE_RX_IDLE"
             /\ rcv' = "STATE_RX_RCV"
             /\ buf' = [buf EXCEPT ![1] = b] /\ pos' = 1
          \/ /\ rcv = "STATE_RX_RCV" /\ RoomLeft
             /\ buf' = [buf EXCEPT ![pos + 1] = b] /\ pos' = pos + 1
             /\ UNCHANGED rcv
          \/ /\ rcv = "STATE_RX_RCV" /\ ~ RoomLeft
             /\ rcv' = "STATE_RX_ERROR"
             /\ UNCHANGED <<buf, pos>>
       /\ vMBPortTimersEnable
       /\ UNCHANGED failed

\* The slave has nothing left to do for the frames sent so far.
Settled ==
    /\ poll.pc = "wait" /\ events = {} /\ rcv = "STATE_RX_IDLE"
    /\ ~ txOn /\ trans = "fsm"

\* The transmission of the answer to the last frame is over.
LastAnswered ==
    /\ sent # << >> /\ answered[Len(sent)] > 0
    /\ ~ txOn /\ trans = "fsm"

(***************************************************************************)
(* The master begins a frame.  A patient one does so when the last frame   *)
(* was answered, or, after its timeout, when the slave has settled.        *)
(***************************************************************************)
MasterStart(f) ==
    /\ Running /\ at = 0 /\ Len(sent) < MaxRequests
    /\ mode.patient => Settled \/ LastAnswered
    /\ sent' = Append(sent, f) /\ at' = 1
    /\ UNCHANGED <<mode, pend, rxOn, receiver, events, poll, snd, txOn, count,
                   trans, history, failed>>

(***************************************************************************)
(* A byte of the frame arrives.  It interrupts the processor if the        *)
(* receive interrupt is enabled; otherwise the UART keeps it, and loses    *)
(* the bytes that follow.  Before the UART is set up nothing arrives.      *)
(***************************************************************************)
MasterByte ==
    /\ Running /\ at > 0 /\ NoInterrupt
    /\ at' = IF at = sent[Len(sent)].len THEN 0 ELSE at + 1
    /\ LET b == RequestByte(Len(sent), at) IN
       IF rxOn
       THEN ReceiveFSM(b) /\ UNCHANGED pend
       ELSE /\ pend' = IF poll.pc = "start" \/ pend # NoByte THEN pend ELSE b
            /\ UNCHANGED <<receiver, failed>>
    /\ UNCHANGED <<mode, sent, rxOn, events, poll, snd, txOn, count, trans,
                   history>>

\* The byte kept by the UART interrupts once the interrupt is enabled again.
RxPending ==
    /\ Running /\ rxOn /\ pend # NoByte
    /\ ReceiveFSM(pend)
    /\ pend' = NoByte
    /\ UNCHANGED <<mode, line, rxOn, events, poll, snd, txOn, count, trans,
                   history>>

\* After the timer the receiver is idle; and without the way out of ERROR.
StateAfterT35StuckInError ==
    IF rcv = "STATE_RX_ERROR" THEN rcv ELSE "STATE_RX_IDLE"
StateAfterT35 == "STATE_RX_IDLE"

(***************************************************************************)
(* xMBRTUTimerT35Expired.  The bytes of a frame follow each other faster   *)
(* than the timer.                                                         *)
(***************************************************************************)
T35Expired ==
    /\ Running /\ timer /\ at = 0 /\ NoInterrupt
    /\ mode.prompt => events = {}
    /\ \/ rcv = "STATE_RX_INIT" /\ Post("EV_READY")
       \/ rcv = "STATE_RX_RCV" /\ Post("EV_FRAME_RECEIVED")
       \/ /\ rcv \in {"STATE_RX_ERROR", "STATE_RX_IDLE"}
          /\ UNCHANGED <<events, poll>>
    /\ failed' = IF rcv # "STATE_RX_IDLE" THEN failed
                 ELSE failed \cup {"eRcvState is not IDLE"}
    /\ vMBPortTimersDisable
    /\ rcv' = StateAfterT35
    /\ UNCHANGED <<mode, line, pend, rxOn, buf, pos, snd, txOn, count, trans,
                   history>>

-----------------------------------------------------------------------------
(***************************************************************************)
(* xMBPortEventGet: take every pending event at once, or wait.  The switch *)
(* knows single events only; for several eEvent keeps whatever it held.    *)
(***************************************************************************)
PollGet ==
    /\ PollMayRun /\ poll.pc = "get"
    /\ \/ /\ events = {}
          /\ poll' = [poll EXCEPT !.pc = "wait"]
       \/ /\ events # {}
          /\ \E e \in Unassigned :
                /\ \A x \in Events : events = {x} => e = x
                /\ poll' = [poll EXCEPT !.pc = "handle", !.ev = e,
                                        !.taken = events]
    /\ events' = {}
    /\ UNCHANGED <<mode, line, pend, rxOn, receiver, snd, txOn, count, trans,
                   history, failed>>

\* eMBPoll for events that need no work, and for a value that is no event.
HandleOther ==
    /\ PollMayRun /\ poll.pc = "handle"
    /\ poll.ev \in {"EV_READY", "EV_FRAME_SENT", "other"}
    /\ poll' = [poll EXCEPT !.pc = "get"]
    /\ UNCHANGED <<mode, line, pend, rxOn, receiver, events, snd, txOn, count,
                   trans, history, failed>>

\* usMBCRC16 is 0 over the first pos bytes: a whole frame, or a whole answer.
CrcOfRequest(n) ==
    /\ sent[n].good /\ sent[n].len = pos
    /\ \A i \in 1..pos : buf[i] = RequestByte(n, i)
CrcOfAnswer == pos \in DOMAIN buf /\ buf[pos] = CrcByte(pos)

\* The address byte of the frame in the buffer; an answer carries our own.
AddressOf(b) == IF b.src = "req" THEN sent[b.n].to ELSE "us"

\* Length and CRC check of eMBRTUReceive; and with an off-by-one.
FrameAcceptedFromFive ==
    /\ pos > PduSizeMin
    /\ (\E n \in 1..Len(sent) : CrcOfRequest(n)) \/ CrcOfAnswer
FrameAccepted ==
    /\ pos >= PduSizeMin
    /\ (\E n \in 1..Len(sent) : CrcOfRequest(n)) \/ CrcOfAnswer

\* Frames that eMBPoll executes; without the check; and without broadcasts.
ForThisSlaveUnchecked(to) == to \in Addresses
ForThisSlaveAlone(to) == to = "us"
ForThisSlave(to) == to \in {"us", "broadcast"}

\* eMBRTUReceive, and what eMBPoll does with its result.
Receive ==
    /\ PollMayRun /\ poll.pc = "handle" /\ poll.ev = "EV_FRAME_RECEIVED"
    /\ failed' = IF pos <= PduSizeMax THEN failed
                 ELSE failed \cup {"usRcvBufferPos <= MB_SER_PDU_SIZE_MAX"}
    /\ \/ /\ FrameAccepted
          /\ poll' = [poll EXCEPT !.pc = "get", !.to = AddressOf(buf[1]),
                                  !.len = pos - 1 - CrcSize]
          /\ events' = IF ForThisSlave(AddressOf(buf[1]))
                       THEN events \cup {"EV_EXECUTE"} ELSE events
       \/ /\ ~ FrameAccepted
          /\ poll' = [poll EXCEPT !.pc = "get"]
          /\ UNCHANGED events
    /\ UNCHANGED <<mode, line, pend, rxOn, receiver, snd, txOn, count, trans,
                   history>>

\* The bytes from ucMBFrame on are the PDU of request n.
PduOf(n) ==
    /\ sent[n].len = poll.len + 1 + CrcSize
    /\ \A i \in 1..poll.len : buf[i + 1] = RequestByte(n, i + 1)

(***************************************************************************)
(* EV_EXECUTE: a function handler reads the request in the buffer and      *)
(* writes the answer, or an exception, of l bytes over it.  Nothing is     *)
(* written for an exception to a broadcast (l = 0).                        *)
(***************************************************************************)
Execute ==
    /\ PollMayRun /\ poll.pc = "handle" /\ poll.ev = "EV_EXECUTE"
    /\ \E n \in 0..Len(sent), l \in 0..(PduSizeMax - 1 - CrcSize) :
          /\ IF n > 0 THEN poll.len > 0 /\ PduOf(n)
             ELSE poll.len = 0 \/ \A k \in 1..Len(sent) : ~ PduOf(k)
          /\ l = 0 => poll.to = "broadcast"
          /\ IF n > 0
             THEN executed' = [executed EXCEPT ![n] = @ + 1] /\ UNCHANGED wrong
             ELSE wrong' = wrong \cup {"executed"} /\ UNCHANGED executed
          /\ buf' = [i \in DOMAIN buf |-> IF i \in 2..(l + 1)
                                          THEN AnswerByte(n, i) ELSE buf[i]]
          /\ poll' = [poll EXCEPT
                !.pc = IF poll.to = "broadcast" THEN "get" ELSE "send",
                !.n = n, !.len = IF l = 0 THEN @ ELSE l]
    /\ UNCHANGED <<mode, line, pend, rxOn, rcv, timer, pos, events, snd, txOn,
                   count, trans, answered, failed>>

\* No answer while a new frame is being received; and without the check.
MaySendAlways == TRUE
MaySend == rcv = "STATE_RX_IDLE"

\* eMBRTUSend.
Send ==
    /\ PollMayRun /\ poll.pc = "send"
    /\ poll' = [poll EXCEPT !.pc = "get"]
    /\ IF MaySend
       THEN /\ count' = poll.len + 1 + CrcSize
            /\ buf' = [i \in DOMAIN buf |->
                         IF i = 1 THEN AnswerByte(poll.n, 1)
                         ELSE IF i \in (poll.len + 2)..count' THEN CrcByte(i)
                         ELSE buf[i]]
            /\ snd' = "STATE_TX_XMIT"
            /\ vMBPortSerialEnable(FALSE, TRUE)
       ELSE UNCHANGED <<count, buf, snd, rxOn, txOn>>
    /\ UNCHANGED <<mode, line, pend, rcv, timer, pos, events, trans, history,
                   failed>>

-----------------------------------------------------------------------------
\* What the transmitter sent is an answer, not a mixture of frames.
SentWhole == \A i \in 1..(poll.len + 1) : buf[i] = AnswerByte(poll.n, i)

(***************************************************************************)
(* xMBRTUTransmitFSM, called by the transmit thread while its event is     *)
(* set.  The interrupt is enabled again before eSndState becomes IDLE.     *)
(***************************************************************************)
TransmitFSM ==
    /\ Running /\ NoInterrupt /\ txOn /\ trans = "fsm"
    /\ IF rcv # "STATE_RX_IDLE"
       THEN /\ failed' = failed \cup {"eRcvState == STATE_RX_IDLE"}
            /\ UNCHANGED <<rxOn, txOn, count, trans, events, poll, history>>
       ELSE /\ UNCHANGED failed
            /\ IF snd = "STATE_TX_XMIT" /\ count # 0
               THEN /\ count' = count - 1
                    /\ UNCHANGED <<rxOn, txOn, trans, events, poll, history>>
               ELSE /\ vMBPortSerialEnable(TRUE, FALSE)
                    /\ UNCHANGED count
                    /\ IF snd = "STATE_TX_IDLE"
                       THEN UNCHANGED <<trans, events, poll, history>>
                       ELSE /\ trans' = "idle"
                            /\ Post("EV_FRAME_SENT")
                            /\ IF SentWhole /\ poll.n > 0
                               THEN /\ answered' = [answered EXCEPT ![poll.n] = @ + 1]
                                    /\ UNCHANGED wrong
                               ELSE /\ wrong' = wrong \cup {"answered"}
                                    /\ UNCHANGED answered
                            /\ UNCHANGED executed
    /\ UNCHANGED <<mode, line, pend, receiver, snd>>

\* As below, without the reset of eSndState.
TransmitterIdleForgotten ==
    /\ Running /\ NoInterrupt /\ trans = "idle"
    /\ trans' = "fsm"
    /\ UNCHANGED <<mode, line, pend, rxOn, receiver, events, poll, snd, txOn,
                   count, history, failed>>

\* The rest of it: eSndState = STATE_TX_IDLE, after which the thread waits.
TransmitterIdle ==
    /\ Running /\ NoInterrupt /\ trans = "idle"
    /\ snd' = "STATE_TX_IDLE" /\ trans' = "fsm"
    /\ UNCHANGED <<mode, line, pend, rxOn, receiver, events, poll, txOn, count,
                   history, failed>>

\* Nothing more to do; or a failed assertion loops for ever.
Quiet ==
    /\ ~ Running \/ (Settled /\ at = 0 /\ Len(sent) = MaxRequests)
    /\ UNCHANGED vars

Poll == Start \/ PollGet \/ HandleOther \/ Receive \/ Execute \/ Send

Transmitter == TransmitFSM \/ TransmitterIdle

Next ==
    \/ Poll \/ Transmitter
    \/ \E f \in Frames : MasterStart(f)
    \/ MasterByte \/ RxPending \/ T35Expired \/ Quiet

Spec == Init /\ [][Next]_vars

(***************************************************************************)
(* The threads get the processor, the tick interrupt comes, and a master   *)
(* finishes the frame it has begun.                                        *)
(***************************************************************************)
FairSpec ==
    /\ Spec
    /\ WF_vars(Poll) /\ WF_vars(Transmitter) /\ WF_vars(RxPending)
    /\ WF_vars(T35Expired) /\ WF_vars(MasterByte)

-----------------------------------------------------------------------------
Bytes == [src : {"none", "req", "ans", "crc"}, n : 0..MaxRequests, at : Nat]

\* Types; in particular the receive position stays inside ucRTUBuf.
TypeOK ==
    /\ mode \in [patient : BOOLEAN, prompt : BOOLEAN]
    /\ sent \in Seq(Frames) /\ Len(sent) <= MaxRequests
    /\ at \in Nat
    /\ pend \in Bytes /\ rxOn \in BOOLEAN
    /\ rcv \in {"STATE_RX_INIT", "STATE_RX_IDLE", "STATE_RX_RCV", "STATE_RX_ERROR"}
    /\ timer \in BOOLEAN
    /\ buf \in [1..PduSizeMax -> Bytes] /\ pos \in Places
    /\ events \subseteq Events
    /\ poll \in [pc : {"start", "get", "wait", "handle", "send"},
                 ev : Unassigned, taken : SUBSET Events, to : Addresses,
                 len : 0..(PduSizeMax - 1 - CrcSize), n : 0..MaxRequests]
    /\ snd \in {"STATE_TX_IDLE", "STATE_TX_XMIT"}
    /\ txOn \in BOOLEAN /\ count \in Places /\ trans \in {"fsm", "idle"}
    /\ executed \in [Requests -> Nat] /\ answered \in [Requests -> Nat]
    /\ wrong \subseteq {"executed", "answered"}

(***************************************************************************)
(* The three machines never contradict each other, whatever the master and *)
(* the load do: the RT_ASSERTs that the receive position is in the buffer  *)
(* (mbrtu.c:156), that the transmitter works only while the receiver is    *)
(* idle (288), and that the timer expires only while it is not (345).      *)
(***************************************************************************)
MachinesAgree == failed \subseteq {CollisionAssert}

(***************************************************************************)
(* A patient master never makes the remaining assertion fail, that no byte *)
(* is received while the slave sends (mbrtu.c:229), even if events are     *)
(* merged and an arbitrary one is handled in their place.                  *)
(***************************************************************************)
PatientMasterIsSafe == mode.patient => failed = {}

(***************************************************************************)
(* With a patient master and a poll thread that is not starved, eMBPoll    *)
(* executes only what the master asked, each request at most once, and     *)
(* only when it is undamaged and for this slave or for all; and it answers *)
(* only what was addressed to it, once, with an unmixed frame.  The one    *)
(* buffer ucRTUBuf is shared by requests, handlers and answers.            *)
(***************************************************************************)
ExecutesWhatWasAsked ==
    mode.patient /\ mode.prompt =>
        /\ wrong = {}
        /\ \A n \in Requests :
              /\ executed[n] > 0 => /\ executed[n] = 1 /\ n <= Len(sent)
                                    /\ sent[n].good /\ sent[n].to # "other"
              /\ answered[n] > 0 => /\ answered[n] = 1 /\ executed[n] = 1
                                    /\ sent[n].to = "us"

\* A frame that the slave should answer.
Answerable(f) ==
    f.good /\ f.to = "us" /\ f.len \in PduSizeMin..PduSizeMax

(***************************************************************************)
(* A patient master gets an answer to every well-formed request, if the    *)
(* poll thread is not starved: no event of xSlaveOsEvent and no state of   *)
(* the two machines blocks the way from the last byte to the answer.       *)
(***************************************************************************)
RequestsAreAnswered ==
    \A n \in Requests :
        (mode.patient /\ mode.prompt /\ n <= Len(sent) /\ Answerable(sent[n]))
            ~> (answered[n] > 0)

(***************************************************************************)
(* Whatever the master sends, and after overlong, damaged or interrupted   *)
(* frames and lost events too, the receiver becomes ready for a new frame  *)
(* again (unless an assertion stopped the program).                        *)
(***************************************************************************)
ListensAgain == []<>(~ Running \/ (rxOn /\ rcv = "STATE_RX_IDLE"))

(***************************************************************************)
(* mb.c:354: "Check if there is a event available. If not return control   *)
(* to caller. Otherwise we will handle the event."  Checked with a patient *)
(* master; the poll thread may be late.                                    *)
(***************************************************************************)
EventsAreHandled ==
    mode.patient /\ poll.pc = "handle" => poll.taken = {poll.ev}

(***************************************************************************)
(* mbrtu.c:229: RT_ASSERT( eSndState == STATE_TX_IDLE ) when a byte is     *)
(* received.                                                               *)
(***************************************************************************)
ReceivesOnlyWhileNotSending == CollisionAssert \notin failed

-----------------------------------------------------------------------------
(***************************************************************************)
(* For a patient master and a poll thread that is not starved, ModbusRTU   *)
(* implements RequestAnswer; for other behaviours the mapping shows a      *)
(* slave that nobody asks.                                                 *)
(***************************************************************************)
Calm == mode.patient /\ mode.prompt
Nobody == [n \in Requests |-> 0]

Contract ==
    INSTANCE RequestAnswer WITH
        Lengths  <- PduSizeMin..PduSizeMax,
        asked    <- IF Calm THEN sent ELSE << >>,
        done     <- IF Calm THEN executed ELSE Nobody,
        replied  <- IF Calm THEN answered ELSE Nobody,
        spurious <- IF Calm THEN wrong ELSE {}

(***************************************************************************)
(* Interrupts, timer, event set, shared buffer and the two threads behave  *)
(* together like a slave that takes one request at a time, carries it out  *)
(* once and answers it once before the next one comes.                     *)
(***************************************************************************)
ImplementsRequestAnswer == Contract!Spec
=============================================================================
