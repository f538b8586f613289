-------------------------- MODULE ModbusRTUProofs --------------------------
(***************************************************************************)
(* Proofs about ModbusRTU, for every buffer size, every set of frames and  *)
(* any number of requests: the receive machine, the transmit machine and   *)
(* the timer never contradict each other; all indices stay in the buffer;  *)
(* a master that waits causes no assertion to fail; with a poll thread     *)
(* that is not starved only what was asked is executed and answered; and   *)
(* every step is one of RequestAnswer.                                     *)
(***************************************************************************)
EXTENDS ModbusRTU, TLAPS

RcvStates == {"STATE_RX_INIT", "STATE_RX_IDLE", "STATE_RX_RCV", "STATE_RX_ERROR"}

(***************************************************************************)
(* What the assertions rest on: the timer runs only while the receiver is  *)
(* not idle; while the transmitter has its event the receive interrupt is  *)
(* off, so that the receiver stays idle.                                   *)
(***************************************************************************)
MachinesInv ==
    /\ MachinesAgree
    /\ pos \in 0..PduSizeMax
    /\ rcv \in RcvStates
    /\ timer => rcv # "STATE_RX_IDLE"
    /\ txOn => rcv = "STATE_RX_IDLE" /\ ~ rxOn

\* xMBRTUReceiveFSM, called while the transmitter has no event.
LEMMA ReceiveKeepsMachinesInv ==
    ASSUME MachinesInv, ~ txOn, NEW STATE b, ReceiveFSM(b), UNCHANGED txOn
    PROVE  MachinesInv'
<1> USE ModbusAssumption DEF PduSizeMin, vMBPortTimersEnable,
        vMBPortTimersDisable, vMBPortSerialEnable
<1>1. CASE snd # "STATE_TX_IDLE"
  <2>1. failed' = failed \cup {CollisionAssert} /\ UNCHANGED <<rcv, timer, pos>>
    BY <1>1 DEF ReceiveFSM, receiver
  <2>2. MachinesAgree'
    BY <2>1 DEF MachinesInv, MachinesAgree, CollisionAssert
  <2> QED
    BY <2>1, <2>2 DEF MachinesInv
<1>2. CASE snd = "STATE_TX_IDLE"
  <2>1. failed' = failed /\ timer'
    BY <1>2 DEF ReceiveFSM
  <2>2. pos' \in 0..PduSizeMax /\ rcv' \in RcvStates /\ rcv' # "STATE_RX_IDLE"
    <3>1. CASE rcv \in {"STATE_RX_INIT", "STATE_RX_ERROR"}
      BY <1>2, <3>1 DEF ReceiveFSM, MachinesInv, RcvStates
    <3>2. CASE rcv = "STATE_RX_IDLE"
      BY <1>2, <3>2 DEF ReceiveFSM, MachinesInv, RcvStates
    <3>3. CASE rcv = "STATE_RX_RCV" /\ RoomLeft
      BY <1>2, <3>3 DEF ReceiveFSM, MachinesInv, RcvStates, RoomLeft
    <3>4. CASE rcv = "STATE_RX_RCV" /\ ~ RoomLeft
      BY <1>2, <3>4 DEF ReceiveFSM, MachinesInv, RcvStates
    <3> QED
      BY <3>1, <3>2, <3>3, <3>4 DEF MachinesInv, RcvStates
  <2> QED
    BY <2>1, <2>2 DEF MachinesInv, MachinesAgree
<1> QED
  BY <1>1, <1>2

\* Every step preserves the invariant.
LEMMA StepKeepsMachinesInv == MachinesInv /\ [Next]_vars => MachinesInv'
<1> SUFFICES ASSUME MachinesInv, [Next]_vars
             PROVE  MachinesInv'
  OBVIOUS
<1> USE ModbusAssumption DEF PduSizeMin, vMBPortTimersEnable,
        vMBPortTimersDisable, vMBPortSerialEnable
<1>1. CASE Start
  BY <1>1 DEF Start, MachinesInv, MachinesAgree, RcvStates, PollMayRun
<1>2. CASE PollGet
  BY <1>2 DEF PollGet, MachinesInv, MachinesAgree, receiver
<1>3. CASE HandleOther
  BY <1>3 DEF HandleOther, MachinesInv, MachinesAgree, receiver
<1>4. CASE Receive
  BY <1>4 DEF Receive, MachinesInv, MachinesAgree, receiver
<1>5. CASE Execute
  BY <1>5 DEF Execute, MachinesInv, MachinesAgree
<1>6. CASE Send
  BY <1>6 DEF Send, MaySend, MachinesInv, MachinesAgree
<1>7. CASE TransmitFSM
  BY <1>7 DEF TransmitFSM, MachinesInv, MachinesAgree, receiver
<1>8. CASE TransmitterIdle
  BY <1>8 DEF TransmitterIdle, MachinesInv, MachinesAgree, receiver
<1>9. ASSUME NEW f \in Frames, MasterStart(f)
      PROVE  MachinesInv'
  BY <1>9 DEF MasterStart, MachinesInv, MachinesAgree, receiver
<1>10. CASE MasterByte
  <2>1. CASE rxOn
    <3>1. ReceiveFSM(RequestByte(Len(sent), at)) /\ UNCHANGED <<txOn, rxOn>>
      BY <1>10, <2>1 DEF MasterByte
    <3> QED
      BY <2>1, <3>1, ReceiveKeepsMachinesInv DEF MachinesInv
  <2>2. CASE ~ rxOn
    BY <1>10, <2>2 DEF MasterByte, MachinesInv, MachinesAgree, receiver
  <2> QED
    BY <2>1, <2>2
<1>11. CASE RxPending
  BY <1>11, ReceiveKeepsMachinesInv DEF RxPending, MachinesInv
<1>12. CASE T35Expired
  <2>1. rcv # "STATE_RX_IDLE" /\ rcv \in RcvStates
    BY <1>12 DEF T35Expired, MachinesInv
  <2>2. failed' = failed
    BY <1>12, <2>1 DEF T35Expired, RcvStates
  <2> QED
    BY <1>12, <2>2 DEF T35Expired, StateAfterT35, MachinesInv, MachinesAgree, RcvStates
<1>13. CASE UNCHANGED vars
  BY <1>13 DEF vars, MachinesInv, MachinesAgree, receiver
<1>14. CASE Quiet
  BY <1>13, <1>14 DEF Quiet
<1> QED
  BY <1>1, <1>2, <1>3, <1>4, <1>5, <1>6, <1>7, <1>8, <1>9, <1>10, <1>11,
     <1>12, <1>13, <1>14 DEF Next, Poll, Transmitter

(***************************************************************************)
(* The assertions of mbrtu.c about the receive position, about sending     *)
(* only while the receiver is idle and about the timer never fail,         *)
(* whatever the master sends and however late the poll thread is.          *)
(***************************************************************************)
THEOREM MachinesNeverContradict == Spec => []MachinesAgree
<1>1. Init => MachinesInv
  BY ModbusAssumption DEF Init, MachinesInv, MachinesAgree, RcvStates, PduSizeMin
<1>2. MachinesInv /\ [Next]_vars => MachinesInv'
  BY StepKeepsMachinesInv
<1>3. MachinesInv => MachinesAgree
  BY DEF MachinesInv
<1> QED
  BY <1>1, <1>2, <1>3, PTL DEF Spec

-----------------------------------------------------------------------------
Last == Len(sent)

(***************************************************************************)
(* Where the bytes come from: a frame is being sent only after it was      *)
(* begun, every request byte in the buffer or in the UART is of a frame    *)
(* that was begun, and so is the request last executed.                    *)
(***************************************************************************)
SourceInv ==
    /\ at > 0 => Last > 0
    /\ pend.src = "req" => pend.n \in 1..Last
    /\ \A i \in 1..PduSizeMax : buf[i].src = "req" => buf[i].n \in 1..Last
    /\ poll.n <= Last

PollType == [pc : {"start", "get", "wait", "handle", "send"},
             ev : Unassigned, taken : SUBSET Events, to : Addresses,
             len : 0..(PduSizeMax - 1 - CrcSize), n : 0..MaxRequests]

FromBegunFrames(b) == b \in Bytes /\ (b.src = "req" => b.n \in 1..Last)

\* The sizes of the buffer and of the parts of a frame.
LEMMA Sizes ==
    /\ PduSizeMax \in Nat /\ CrcSize \in Nat /\ MaxRequests \in Nat /\ CrcSize > 0
    /\ PduSizeMax - 1 - CrcSize \in Nat \ {0}
    /\ 1 \in 1..PduSizeMax
BY ModbusAssumption DEF PduSizeMin

\* A posted event leaves the types alone, and the rest of eMBPoll's state.
LEMMA PostKeepsTypes ==
    ASSUME poll \in PollType, events \subseteq Events, NEW e \in Events, Post(e)
    PROVE  /\ poll' \in PollType /\ events' \subseteq Events
           /\ poll'.n = poll.n /\ poll'.len = poll.len /\ poll'.to = poll.to
<1>1. CASE poll.pc = "wait"
  <2>1. poll' = [poll EXCEPT !.pc = "handle", !.ev = e, !.taken = {e}] /\ events' = events
    BY <1>1 DEF Post
  <2> QED
    BY <2>1 DEF PollType, Unassigned
<1>2. CASE poll.pc # "wait"
  BY <1>2 DEF Post
<1> QED
  BY <1>1, <1>2

\* xMBRTUReceiveFSM stores a byte inside ucRTUBuf or nowhere.
LEMMA ReceiveKeepsTypes ==
    ASSUME TypeOK, SourceInv, NEW STATE b, FromBegunFrames(b), ReceiveFSM(b), UNCHANGED sent
    PROVE  /\ rcv' \in RcvStates /\ timer' \in BOOLEAN
           /\ buf' \in [1..PduSizeMax -> Bytes] /\ pos' \in Places
           /\ \A i \in 1..PduSizeMax : buf'[i].src = "req" => buf'[i].n \in 1..Last'
<1>1. /\ rcv \in RcvStates /\ timer \in BOOLEAN /\ pos \in 0..PduSizeMax
      /\ buf \in [1..PduSizeMax -> Bytes] /\ Last' = Last
  BY DEF TypeOK, RcvStates, Places, Last
<1>2. CASE snd # "STATE_TX_IDLE"
  BY <1>1, <1>2 DEF ReceiveFSM, receiver, SourceInv, Places
<1>3. CASE snd = "STATE_TX_IDLE"
  <2>1. timer' \in BOOLEAN
    BY <1>3, Zenon DEF ReceiveFSM, vMBPortTimersEnable
  <2>2. CASE UNCHANGED <<buf, pos>>
    <3>1. rcv' \in RcvStates
      BY <1>1, <1>3, <2>2 DEF ReceiveFSM, RcvStates
    <3> QED
      BY <1>1, <2>1, <2>2, <3>1 DEF SourceInv, Places
  <2>3. CASE ~ UNCHANGED <<buf, pos>>
    <3>1. PICK k \in 1..PduSizeMax :
            buf' = [buf EXCEPT ![k] = b] /\ pos' = k /\ rcv' = "STATE_RX_RCV"
      BY <1>1, <1>3, <2>3, Sizes DEF ReceiveFSM, RoomLeft
    <3>2. \A i \in 1..PduSizeMax : buf'[i] = IF i = k THEN b ELSE buf[i]
      BY <1>1, <3>1
    <3> QED
      BY <1>1, <2>1, <3>1, <3>2, Sizes DEF SourceInv, FromBegunFrames, RcvStates, Places
  <2> QED
    BY <2>2, <2>3
<1> QED
  BY <1>2, <1>3

\* Before the first step.
LEMMA InitTypes == Init => TypeOK /\ SourceInv
<1> SUFFICES ASSUME Init
             PROVE  TypeOK /\ SourceInv
  OBVIOUS
<1>1. NoByte \in Bytes /\ NoByte.src = "none"
  BY Sizes DEF NoByte, Bytes
<1>2. poll \in PollType /\ poll.n = 0
  BY Sizes DEF Init, PollType, Unassigned, Addresses
<1>3. sent \in Seq(Frames) /\ Len(sent) = 0
  BY DEF Init
<1>4. buf \in [1..PduSizeMax -> Bytes] /\ \A i \in 1..PduSizeMax : buf[i] = NoByte
  BY <1>1 DEF Init
<1>5. TypeOK
  <2>1. /\ mode \in [patient : BOOLEAN, prompt : BOOLEAN]
        /\ sent \in Seq(Frames) /\ Len(sent) <= MaxRequests /\ at \in Nat
    BY <1>3, Sizes DEF Init
  <2>2. pend \in Bytes
    BY <1>1 DEF Init
  <2>3. rxOn \in BOOLEAN /\ timer \in BOOLEAN /\ txOn \in BOOLEAN
    BY Zenon DEF Init
  <2>4. rcv \in RcvStates /\ snd \in {"STATE_TX_IDLE", "STATE_TX_XMIT"} /\ trans \in {"fsm", "idle"}
    BY DEF Init, RcvStates
  <2>5. pos \in Places /\ count \in Places /\ events \subseteq Events
    BY Sizes DEF Init, Places
  <2>6. executed \in [Requests -> Nat] /\ answered \in [Requests -> Nat]
    BY DEF Init
  <2>7. wrong \subseteq {"executed", "answered"}
    BY DEF Init
  <2> QED
    BY <1>2, <1>4, <2>1, <2>2, <2>3, <2>4, <2>5, <2>6, <2>7, Zenon DEF TypeOK, PollType, RcvStates
<1>6. SourceInv
  BY <1>1, <1>2, <1>3, <1>4 DEF SourceInv, Init, Last
<1> QED
  BY <1>5, <1>6

\* Every step keeps the types and the sources of the bytes.
LEMMA StepKeepsTypes == TypeOK /\ SourceInv /\ [Next]_vars => TypeOK' /\ SourceInv'
<1> SUFFICES ASSUME TypeOK, SourceInv, [Next]_vars
             PROVE  TypeOK' /\ SourceInv'
  OBVIOUS
<1>1. /\ poll \in PollType /\ events \subseteq Events /\ sent \in Seq(Frames)
      /\ Last \in 0..MaxRequests /\ at \in Nat /\ pos \in 0..PduSizeMax
      /\ buf \in [1..PduSizeMax -> Bytes] /\ DOMAIN buf = 1..PduSizeMax
      /\ pend \in Bytes /\ count \in 0..PduSizeMax
  BY Sizes DEF TypeOK, PollType, Last, Places
\* Steps of the poll thread and of the transmitter.
<1>2. ASSUME UNCHANGED <<mode, sent, at, pend>>,
             rxOn' \in BOOLEAN, rcv' \in RcvStates, timer' \in BOOLEAN,
             buf' \in [1..PduSizeMax -> Bytes], pos' \in Places,
             \A i \in 1..PduSizeMax : buf'[i].src = "req" => buf[i] = buf'[i],
             events' \subseteq Events, poll' \in PollType, poll'.n <= Last,
             snd' \in {"STATE_TX_IDLE", "STATE_TX_XMIT"}, txOn' \in BOOLEAN,
             count' \in Places, trans' \in {"fsm", "idle"},
             executed' \in [Requests -> Nat], answered' \in [Requests -> Nat],
             wrong' \subseteq {"executed", "answered"}
      PROVE  TypeOK' /\ SourceInv'
  <2>1. TypeOK'
    BY <1>2, Zenon DEF TypeOK, PollType, RcvStates
  <2>2. Last' = Last
    BY <1>2 DEF Last
  <2>3. SourceInv'
    BY <1>2, <2>2 DEF SourceInv
  <2> QED
    BY <2>1, <2>3
<1>3. /\ rxOn \in BOOLEAN /\ rcv \in RcvStates /\ timer \in BOOLEAN /\ pos \in Places
      /\ snd \in {"STATE_TX_IDLE", "STATE_TX_XMIT"} /\ txOn \in BOOLEAN
      /\ count \in Places /\ trans \in {"fsm", "idle"} /\ poll.n <= Last
      /\ executed \in [Requests -> Nat] /\ answered \in [Requests -> Nat]
      /\ wrong \subseteq {"executed", "answered"}
  BY DEF TypeOK, RcvStates, SourceInv
<1>4. CASE Start
  <2>1. poll' \in PollType /\ poll'.n = poll.n
    BY <1>1, <1>4 DEF Start, PollType
  <2>2. rxOn' \in BOOLEAN /\ timer' \in BOOLEAN /\ txOn' \in BOOLEAN
    BY <1>4, Zenon DEF Start, vMBPortSerialEnable, vMBPortTimersEnable
  <2>3. /\ UNCHANGED <<mode, sent, at, pend, buf, pos, events, snd, count, trans,
                       executed, answered, wrong>>
        /\ rcv' \in RcvStates
    BY <1>4 DEF Start, line, history, RcvStates
  <2> QED
    BY <1>1, <1>2, <1>3, <2>1, <2>2, <2>3
<1>5. CASE PollGet
  <2>1. poll' \in PollType /\ poll'.n = poll.n /\ events' = {}
    BY <1>1, <1>5 DEF PollGet, PollType
  <2>2. UNCHANGED <<mode, sent, at, pend, rxOn, rcv, timer, buf, pos, snd, txOn, count,
                    trans, executed, answered, wrong>>
    BY <1>5 DEF PollGet, line, history, receiver
  <2> QED
    BY <1>1, <1>2, <1>3, <2>1, <2>2
<1>6. CASE HandleOther
  <2>1. poll' \in PollType /\ poll'.n = poll.n
    BY <1>1, <1>6 DEF HandleOther, PollType
  <2>2. UNCHANGED <<mode, sent, at, pend, rxOn, rcv, timer, buf, pos, events, snd, txOn,
                    count, trans, executed, answered, wrong>>
    BY <1>6 DEF HandleOther, line, history, receiver
  <2> QED
    BY <1>1, <1>2, <1>3, <2>1, <2>2
<1>7. CASE Receive
  <2>1. AddressOf(buf[1]) \in Addresses
    <3>1. buf[1].src = "req" => buf[1].n \in 1..Len(sent)
      BY Sizes DEF SourceInv, Last
    <3>2. \A j \in 1..Len(sent) : sent[j].to \in Addresses
      BY <1>1, ModbusAssumption
    <3> QED
      BY <3>1, <3>2 DEF AddressOf, Addresses
  <2>2. FrameAccepted => pos - 1 - CrcSize \in 0..(PduSizeMax - 1 - CrcSize)
    BY <1>1, Sizes DEF FrameAccepted, PduSizeMin
  <2>3. poll' \in PollType /\ poll'.n = poll.n
    <3>1. CASE FrameAccepted
      BY <1>1, <1>7, <2>1, <2>2, <3>1 DEF Receive, PollType
    <3>2. CASE ~ FrameAccepted
      BY <1>1, <1>7, <3>2 DEF Receive, PollType
    <3> QED
      BY <3>1, <3>2
  <2>4. events' \subseteq Events
    BY <1>1, <1>7 DEF Receive, Events
  <2>5. UNCHANGED <<mode, sent, at, pend, rxOn, rcv, timer, buf, pos, snd, txOn, count,
                    trans, executed, answered, wrong>>
    BY <1>7 DEF Receive, line, history, receiver
  <2> QED
    BY <1>1, <1>2, <1>3, <2>3, <2>4, <2>5
<1>8. CASE Execute
  <2>1. PICK n \in 0..Len(sent), l \in 0..(PduSizeMax - 1 - CrcSize) :
          /\ IF n > 0
             THEN executed' = [executed EXCEPT ![n] = @ + 1] /\ UNCHANGED wrong
             ELSE wrong' = wrong \cup {"executed"} /\ UNCHANGED executed
          /\ buf' = [i \in DOMAIN buf |-> IF i \in 2..(l + 1)
                                          THEN AnswerByte(n, i) ELSE buf[i]]
          /\ poll' = [poll EXCEPT
                !.pc = IF poll.to = "broadcast" THEN "get" ELSE "send",
                !.n = n, !.len = IF l = 0 THEN @ ELSE l]
    BY <1>8 DEF Execute
  <2>2. n \in 0..MaxRequests /\ (n > 0 => n \in Requests) /\ n <= Last
    BY <1>1, Sizes DEF Requests, Last
  <2>3. poll' \in PollType /\ poll'.n = n
    BY <1>1, <2>1, <2>2 DEF PollType
  <2>4. \A i \in 1..PduSizeMax : AnswerByte(n, i) \in Bytes /\ AnswerByte(n, i).src = "ans"
    BY <2>2, Sizes DEF AnswerByte, Bytes
  <2>5. /\ buf' \in [1..PduSizeMax -> Bytes]
        /\ \A i \in 1..PduSizeMax : buf'[i].src = "req" => buf[i] = buf'[i]
    BY <1>1, <2>1, <2>4
  <2>6. executed' \in [Requests -> Nat] /\ wrong' \subseteq {"executed", "answered"}
    BY <1>3, <2>1, <2>2
  <2>7. UNCHANGED <<mode, sent, at, pend, rxOn, rcv, timer, pos, events, snd, txOn, count,
                    trans, answered>>
    BY <1>8 DEF Execute, line
  <2> QED
    BY <1>1, <1>2, <1>3, <2>2, <2>3, <2>5, <2>6, <2>7
<1>9. CASE Send
  <2>1. poll' \in PollType /\ poll'.n = poll.n
    BY <1>1, <1>9 DEF Send, PollType
  <2>2. UNCHANGED <<mode, sent, at, pend, rcv, timer, pos, events, trans, executed,
                    answered, wrong>>
    BY <1>9 DEF Send, line, history
  <2>3. CASE MaySend
    <3>1. count' = poll.len + 1 + CrcSize /\ poll.len \in 0..(PduSizeMax - 1 - CrcSize)
      BY <1>1, <1>9, <2>3 DEF Send, PollType
    <3>2. count' \in Places
      BY <3>1, Sizes DEF Places
    <3>3. \A i \in 1..PduSizeMax :
            /\ CrcByte(i) \in Bytes /\ CrcByte(i).src = "crc"
            /\ AnswerByte(poll.n, 1) \in Bytes /\ AnswerByte(poll.n, 1).src = "ans"
      BY <1>1, Sizes DEF AnswerByte, CrcByte, Bytes, PollType
    <3>4. buf' = [i \in DOMAIN buf |->
                         IF i = 1 THEN AnswerByte(poll.n, 1)
                         ELSE IF i \in (poll.len + 2)..count' THEN CrcByte(i)
                         ELSE buf[i]]
      BY <1>9, <2>3 DEF Send
    <3>5. /\ buf' \in [1..PduSizeMax -> Bytes]
          /\ \A i \in 1..PduSizeMax : buf'[i].src = "req" => buf[i] = buf'[i]
      BY <1>1, <3>3, <3>4
    <3>6. rxOn' \in BOOLEAN /\ txOn' \in BOOLEAN
      BY <1>9, <2>3, Zenon DEF Send, vMBPortSerialEnable
    <3>7. snd' = "STATE_TX_XMIT"
      BY <1>9, <2>3 DEF Send
    <3> QED
      BY <1>1, <1>2, <1>3, <2>1, <2>2, <3>2, <3>5, <3>6, <3>7
  <2>4. CASE ~ MaySend
    <3>1. UNCHANGED <<count, buf, snd, rxOn, txOn>>
      BY <1>9, <2>4 DEF Send
    <3> QED
      BY <1>1, <1>2, <1>3, <2>1, <2>2, <3>1
  <2> QED
    BY <2>3, <2>4
<1>10. CASE TransmitFSM
  <2>1. UNCHANGED <<mode, sent, at, pend, rcv, timer, buf, pos, snd, executed>>
    BY <1>10 DEF TransmitFSM, line, receiver, history
  <2>2. rxOn' \in BOOLEAN /\ txOn' \in BOOLEAN
    BY <1>3, <1>10 DEF TransmitFSM, vMBPortSerialEnable
  <2>3. count' \in Places
    <3>1. count' = count \/ (count # 0 /\ count' = count - 1)
      BY <1>10 DEF TransmitFSM
    <3> QED
      BY <1>1, <3>1, Sizes DEF Places
  <2>4. trans' \in {"fsm", "idle"}
    BY <1>3, <1>10 DEF TransmitFSM
  <2>5. poll' \in PollType /\ events' \subseteq Events /\ poll'.n = poll.n
    <3>1. \/ UNCHANGED <<poll, events>>
          \/ Post("EV_FRAME_SENT")
      BY <1>10 DEF TransmitFSM
    <3> QED
      BY <1>1, <3>1, PostKeepsTypes DEF Events
  <2>6. answered' \in [Requests -> Nat] /\ wrong' \subseteq {"executed", "answered"}
    <3>1. poll.n > 0 => poll.n \in Requests
      BY <1>1 DEF PollType, Requests
    <3>2. \/ UNCHANGED <<answered, wrong>>
          \/ /\ poll.n > 0 /\ answered' = [answered EXCEPT ![poll.n] = @ + 1]
             /\ UNCHANGED wrong
          \/ wrong' = wrong \cup {"answered"} /\ UNCHANGED answered
      BY <1>10 DEF TransmitFSM, history
    <3>3. answered' \in [Requests -> Nat]
      BY <1>3, <3>1, <3>2
    <3>4. wrong' \in {wrong, wrong \cup {"answered"}}
      BY <3>2
    <3> QED
      BY <1>3, <3>3, <3>4
  <2> QED
    BY <1>1, <1>2, <1>3, <2>1, <2>2, <2>3, <2>4, <2>5, <2>6
<1>11. CASE TransmitterIdle
  <2>1. /\ UNCHANGED <<mode, sent, at, pend, rxOn, rcv, timer, buf, pos, events, poll, txOn,
                       count, executed, answered, wrong>>
        /\ snd' = "STATE_TX_IDLE" /\ trans' = "fsm"
    BY <1>11 DEF TransmitterIdle, line, receiver, history
  <2> QED
    BY <1>1, <1>2, <1>3, <2>1
<1>12. ASSUME NEW f \in Frames, MasterStart(f)
       PROVE  TypeOK' /\ SourceInv'
  <2>1. sent' = Append(sent, f) /\ at' = 1 /\ Len(sent) < MaxRequests
    BY <1>12 DEF MasterStart
  <2>2. sent' \in Seq(Frames) /\ Len(sent') = Len(sent) + 1
    BY <1>1, <2>1
  <2>3. UNCHANGED <<mode, pend, rxOn, rcv, timer, buf, pos, events, poll, snd, txOn,
                    count, trans, executed, answered, wrong>>
    BY <1>12 DEF MasterStart, receiver, history
  <2>4. Len(sent') <= MaxRequests /\ at' \in Nat
    BY <1>1, <2>1, <2>2, Sizes DEF Last
  <2>5. TypeOK'
    BY <2>2, <2>3, <2>4, ZenonT(60) DEF TypeOK
  <2>6. Last' = Last + 1 /\ \A j \in 1..Last : j \in 1..Last'
    BY <1>1, <2>2 DEF Last
  <2>7. SourceInv'
    <3>1. poll.n <= Last' /\ Last' > 0
      BY <1>1, <1>3, <2>6 DEF PollType
    <3> QED
      BY <2>3, <2>6, <3>1 DEF SourceInv
  <2> QED
    BY <2>5, <2>7
\* Steps of the receiver.
<1>13. ASSUME UNCHANGED <<mode, sent, rxOn, events, poll, snd, txOn, count, trans,
                          executed, answered, wrong>>,
              at' \in Nat, at' > 0 => at > 0, FromBegunFrames(pend'),
              NEW STATE b, FromBegunFrames(b),
              ReceiveFSM(b) \/ UNCHANGED receiver
       PROVE  TypeOK' /\ SourceInv'
  <2>1. Last' = Last
    BY <1>13 DEF Last
  <2>2. /\ rcv' \in RcvStates /\ timer' \in BOOLEAN
        /\ buf' \in [1..PduSizeMax -> Bytes] /\ pos' \in Places
        /\ \A i \in 1..PduSizeMax : buf'[i].src = "req" => buf'[i].n \in 1..Last'
    <3>1. CASE ReceiveFSM(b)
      BY <1>13, <3>1, ReceiveKeepsTypes
    <3>2. CASE UNCHANGED receiver
      BY <1>1, <1>3, <2>1, <3>2 DEF receiver, SourceInv
    <3> QED
      BY <1>13, <3>1, <3>2
  <2>3. pend' \in Bytes
    BY <1>13 DEF FromBegunFrames
  <2>4. TypeOK'
    BY <1>13, <2>2, <2>3, Zenon DEF TypeOK, RcvStates
  <2>5. SourceInv'
    BY <1>13, <2>1, <2>2 DEF SourceInv, FromBegunFrames
  <2> QED
    BY <2>4, <2>5
<1>14. FromBegunFrames(pend) /\ FromBegunFrames(NoByte)
  BY <1>1, Sizes DEF SourceInv, FromBegunFrames, NoByte, Bytes
<1>15. CASE MasterByte
  <2>1. FromBegunFrames(RequestByte(Len(sent), at))
    BY <1>1, <1>15 DEF MasterByte, FromBegunFrames, RequestByte, Bytes, SourceInv, Last
  <2>2. at' \in Nat /\ at > 0
    BY <1>1, <1>15 DEF MasterByte
  <2>3. \/ ReceiveFSM(RequestByte(Len(sent), at)) /\ pend' = pend
        \/ UNCHANGED receiver /\ pend' \in {pend, RequestByte(Len(sent), at)}
    BY <1>15 DEF MasterByte
  <2>4. FromBegunFrames(pend')
    BY <1>14, <2>1, <2>3
  <2>5. UNCHANGED <<mode, sent, rxOn, events, poll, snd, txOn, count, trans,
                    executed, answered, wrong>>
    BY <1>15 DEF MasterByte, history
  <2> QED
    BY <1>13, <2>1, <2>2, <2>3, <2>4, <2>5
<1>16. CASE RxPending
  <2>1. /\ UNCHANGED <<mode, sent, at, rxOn, events, poll, snd, txOn, count, trans,
                       executed, answered, wrong>>
        /\ pend' = NoByte /\ ReceiveFSM(pend)
    BY <1>16 DEF RxPending, line, history
  <2> QED
    BY <1>1, <1>13, <1>14, <2>1
<1>17. CASE T35Expired
  <2>1. poll' \in PollType /\ events' \subseteq Events /\ poll'.n = poll.n
    <3>1. UNCHANGED <<poll, events>> \/ \E e \in Events : Post(e)
      BY <1>17 DEF T35Expired, Events
    <3> QED
      BY <1>1, <3>1, PostKeepsTypes
  <2>2. timer' \in BOOLEAN
    BY <1>17, Zenon DEF T35Expired, vMBPortTimersDisable
  <2>3. /\ UNCHANGED <<mode, sent, at, pend, rxOn, buf, pos, snd, txOn, count, trans,
                       executed, answered, wrong>>
        /\ rcv' \in RcvStates
    BY <1>17 DEF T35Expired, StateAfterT35, RcvStates, line, history
  <2> QED
    BY <1>1, <1>2, <1>3, <2>1, <2>2, <2>3
<1>18. CASE UNCHANGED vars
  BY <1>18 DEF vars, line, receiver, history, TypeOK, SourceInv, Last
<1>19. CASE Quiet
  BY <1>18, <1>19 DEF Quiet
<1> QED
  BY <1>4, <1>5, <1>6, <1>7, <1>8, <1>9, <1>10, <1>11, <1>12, <1>15, <1>16, <1>17,
     <1>18, <1>19 DEF Next, Poll, Transmitter

(***************************************************************************)
(* The receive position, the lengths eMBRTUReceive and the handlers report *)
(* and the number of bytes eMBRTUSend starts with stay inside ucRTUBuf for *)
(* every buffer size and whatever is received, and the states of machines, *)
(* events and threads are the declared ones.                               *)
(***************************************************************************)
THEOREM ModbusTypeCorrect == Spec => []TypeOK
BY InitTypes, StepKeepsTypes, PTL DEF Spec

-----------------------------------------------------------------------------
(***************************************************************************)
(* The phases of the slave, with a master that waits.                      *)
(***************************************************************************)
NotSending == snd = "STATE_TX_IDLE" /\ ~ txOn /\ trans = "fsm"

LineSilent == at = 0 /\ rcv = "STATE_RX_IDLE"

\* A frame is on the line or was received but for the silence after it.
Receiving == at > 0 \/ rcv \in {"STATE_RX_RCV", "STATE_RX_ERROR"}

\* Only events that eMBPoll does nothing for.
Harmless == {"EV_READY", "EV_FRAME_SENT"}
PollHarmless == poll.pc = "handle" => poll.ev \in Harmless

Resting   == /\ NotSending /\ poll.pc # "send" /\ PollHarmless
             /\ events = {} \/ \E e \in Harmless : events = {e}
Received  == /\ NotSending /\ LineSilent /\ poll.pc \in {"get", "handle"} /\ PollHarmless
             /\ "EV_FRAME_RECEIVED" \in events
Handling  == NotSending /\ LineSilent /\ poll.pc = "handle" /\ events = {}
Accepted  == NotSending /\ LineSilent /\ poll.pc = "get" /\ events = {"EV_EXECUTE"}
Answering == NotSending /\ LineSilent /\ poll.pc = "send" /\ events = {}
Sending   == /\ snd = "STATE_TX_XMIT" /\ txOn /\ trans = "fsm"
             /\ LineSilent /\ poll.pc = "get" /\ events = {}
Sent      == /\ snd = "STATE_TX_XMIT" /\ ~ txOn /\ trans = "idle"
             /\ LineSilent /\ poll.pc = "get" /\ events = {"EV_FRAME_SENT"}

(***************************************************************************)
(* With a patient master the phases follow each other, even if several     *)
(* events are taken as one: a frame begins only while the slave rests, and *)
(* from its last byte to the end of the answer the line is silent.         *)
(***************************************************************************)
PatientState ==
    /\ failed = {} /\ pend = NoByte
    /\ rxOn <=> poll.pc # "start" /\ ~ txOn
    /\ poll.pc = "start" => Last = 0 /\ at = 0 /\ rcv = "STATE_RX_INIT" /\ ~ timer
    /\ poll.pc = "wait" => events = {}
    /\ rcv = "STATE_RX_INIT" => Last = 0 /\ events = {}
    /\ \A k \in Requests : k > Last => answered[k] = 0

PatientPhases ==
    \/ Resting /\ (Receiving => Last > 0 /\ answered[Last] = 0)
    \/ /\ Received \/ Handling \/ Accepted \/ Answering \/ Sending
       /\ Last > 0 /\ answered[Last] = 0
    \/ Sent

PatientInv == mode.patient => PatientState /\ PatientPhases

\* What the phases say of the whole state, read off for the steps below.
LEMMA PhaseFacts ==
    ASSUME TypeOK, PatientPhases
    PROVE  /\ txOn => Sending
           /\ trans = "idle" => Sent
           /\ snd # "STATE_TX_IDLE" => Sending \/ Sent
           /\ at > 0 \/ rcv # "STATE_RX_IDLE" => Resting
           /\ poll.pc \in {"wait", "start"} => Resting
           /\ poll.pc = "send" => Answering
           /\ poll.pc = "handle" /\ poll.ev \notin Harmless => Handling
           /\ Receiving => Last > 0 /\ answered[Last] = 0
           /\ ~ Resting /\ ~ Sent => Last > 0 /\ answered[Last] = 0
<1> USE DEF PatientPhases, NotSending, LineSilent, PollHarmless, Resting, Received,
        Handling, Accepted, Answering, Sending, Sent
<1>1. at \in Nat
  BY DEF TypeOK
<1>2. /\ txOn => Sending
      /\ trans = "idle" => Sent
      /\ snd # "STATE_TX_IDLE" => Sending \/ Sent
  OBVIOUS
<1>3. at > 0 \/ rcv # "STATE_RX_IDLE" => Resting
  BY <1>1
<1>4. /\ poll.pc \in {"wait", "start"} => Resting
      /\ poll.pc = "send" => Answering
      /\ poll.pc = "handle" /\ poll.ev \notin Harmless => Handling
  OBVIOUS
<1>5. /\ Receiving => Last > 0 /\ answered[Last] = 0
      /\ ~ Resting /\ ~ Sent => Last > 0 /\ answered[Last] = 0
  BY <1>1 DEF Receiving
<1> QED
  BY <1>2, <1>3, <1>4, <1>5

\* Every step of a patient master and of the slave leads from phase to phase.
LEMMA StepKeepsPatience ==
    ASSUME TypeOK, SourceInv, MachinesInv, PatientState, PatientPhases, mode.patient,
           [Next]_vars
    PROVE  PatientState' /\ PatientPhases'
<1>1. /\ poll \in PollType /\ events \subseteq Events /\ sent \in Seq(Frames)
      /\ Last \in 0..MaxRequests /\ at \in Nat /\ answered \in [Requests -> Nat]
      /\ rcv \in RcvStates
  BY Sizes DEF TypeOK, PollType, Last, RcvStates
<1>2. /\ failed = {} /\ pend = NoByte
      /\ rxOn <=> poll.pc # "start" /\ ~ txOn
      /\ poll.pc = "start" => Last = 0 /\ at = 0 /\ rcv = "STATE_RX_INIT" /\ ~ timer
      /\ poll.pc = "wait" => events = {}
      /\ rcv = "STATE_RX_INIT" => Last = 0 /\ events = {}
      /\ \A k \in Requests : k > Last => answered[k] = 0
  BY DEF PatientState
<1> USE DEF PatientState, PatientPhases, NotSending, LineSilent, Receiving, Harmless,
        PollHarmless
<1>3. CASE Start
  <2>1. /\ poll.pc = "start" /\ poll'.pc = "get" /\ rxOn' /\ ~ txOn'
        /\ rcv' = "STATE_RX_INIT"
        /\ UNCHANGED <<sent, at, pend, events, snd, trans, answered, failed>>
    BY <1>1, <1>3 DEF Start, PollType, line, history, vMBPortSerialEnable
  <2>2. Resting
    BY <2>1, PhaseFacts
  <2>3. Last' = Last
    BY <2>1 DEF Last
  <2> QED
    BY <1>2, <2>1, <2>2, <2>3 DEF Resting
<1>4. CASE PollGet
  <2>1. /\ poll.pc = "get" /\ events' = {} /\ ~ txOn /\ trans = "fsm"
        /\ UNCHANGED <<sent, at, pend, rxOn, rcv, timer, snd, txOn, trans, answered, failed>>
    BY <1>4 DEF PollGet, PollMayRun, line, history, receiver
  <2>2. Last' = Last
    BY <2>1 DEF Last
  <2>3. \/ events = {} /\ poll'.pc = "wait"
        \/ /\ events # {} /\ poll'.pc = "handle"
           /\ \A x \in Events : events = {x} => poll'.ev = x
    BY <1>1, <1>4 DEF PollGet, PollType
  <2>4. PatientState'
    BY <1>2, <2>1, <2>2, <2>3
  <2>5. CASE Resting
    <3>1. Resting'
      BY <2>1, <2>3, <2>5 DEF Resting, Events
    <3> QED
      BY <2>1, <2>2, <2>4, <3>1, PhaseFacts
  <2>6. CASE Received \/ Accepted
    <3>1. Handling'
      BY <2>1, <2>3, <2>6 DEF Received, Accepted, Handling
    <3>2. Last > 0 /\ answered[Last] = 0
      BY <2>6, PhaseFacts DEF Received, Accepted, Resting, Sent
    <3> QED
      BY <2>1, <2>2, <2>4, <3>1, <3>2
  <2> QED
    BY <2>1, <2>5, <2>6 DEF Handling, Answering, Sending, Sent
<1>5. CASE HandleOther
  <2>1. /\ poll.pc = "handle" /\ poll'.pc = "get"
        /\ UNCHANGED <<sent, at, pend, rxOn, rcv, timer, events, snd, txOn, trans,
                       answered, failed>>
    BY <1>1, <1>5 DEF HandleOther, PollType, line, history, receiver
  <2>2. Last' = Last
    BY <2>1 DEF Last
  <2>3. PatientState'
    BY <1>2, <2>1, <2>2
  <2>4. CASE Resting
    BY <2>1, <2>2, <2>3, <2>4, PhaseFacts DEF Resting
  <2>5. CASE Received
    <3>1. Received' /\ Last > 0 /\ answered[Last] = 0
      BY <2>1, <2>5, PhaseFacts DEF Received, Resting, Sent
    <3> QED
      BY <2>1, <2>2, <2>3, <3>1
  <2>6. CASE Handling
    BY <2>1, <2>2, <2>3, <2>6 DEF Handling, Resting
  <2> QED
    BY <2>1, <2>4, <2>5, <2>6 DEF Accepted, Answering, Sending, Sent
<1>6. CASE Receive
  <2>1. /\ poll.pc = "handle" /\ poll.ev = "EV_FRAME_RECEIVED" /\ poll'.pc = "get"
        /\ events' = events \/ events' = events \cup {"EV_EXECUTE"}
        /\ UNCHANGED <<sent, at, pend, rxOn, rcv, timer, snd, txOn, trans, answered>>
    BY <1>1, <1>6 DEF Receive, PollType, line, history, receiver
  <2>2. failed' = failed
    BY <1>6 DEF Receive, TypeOK, Places
  <2>3. Last' = Last
    BY <2>1 DEF Last
  <2>4. Handling
    BY <2>1, PhaseFacts
  <2>5. Last > 0 /\ answered[Last] = 0
    BY <2>1, <2>4, PhaseFacts DEF Handling, Resting, Sent
  <2>6. Accepted' \/ (Resting' /\ ~ Receiving')
    BY <2>1, <2>4 DEF Handling, Accepted, Resting
  <2>7. PatientState'
    BY <1>2, <2>1, <2>2, <2>3, <2>4 DEF Handling
  <2> QED
    BY <2>1, <2>3, <2>5, <2>6, <2>7
<1>7. CASE Execute
  <2>1. /\ poll.pc = "handle" /\ poll.ev = "EV_EXECUTE" /\ poll'.pc \in {"get", "send"}
        /\ UNCHANGED <<sent, at, pend, rxOn, rcv, timer, events, snd, txOn, trans,
                       answered, failed>>
    BY <1>1, <1>7 DEF Execute, PollType, line
  <2>2. Last' = Last
    BY <2>1 DEF Last
  <2>3. Handling
    BY <2>1, PhaseFacts
  <2>4. Last > 0 /\ answered[Last] = 0
    BY <2>1, <2>3, PhaseFacts DEF Handling, Resting, Sent
  <2>5. Answering' \/ (Resting' /\ ~ Receiving')
    BY <2>1, <2>3 DEF Handling, Answering, Resting
  <2>6. PatientState'
    BY <1>2, <2>1, <2>2, <2>3 DEF Handling
  <2> QED
    BY <2>1, <2>2, <2>4, <2>5, <2>6
<1>8. CASE Send
  <2>1. Answering
    BY <1>8, PhaseFacts DEF Send
  <2>2. Last > 0 /\ answered[Last] = 0
    BY <2>1, PhaseFacts DEF Answering, Resting, Sent
  <2>3. /\ poll'.pc = "get" /\ snd' = "STATE_TX_XMIT" /\ ~ rxOn' /\ txOn'
        /\ UNCHANGED <<sent, at, pend, rcv, timer, events, trans, answered, failed>>
    BY <1>1, <1>8, <2>1 DEF Send, MaySend, Answering, PollType, line, history,
                            vMBPortSerialEnable
  <2>4. Last' = Last
    BY <2>3 DEF Last
  <2>5. Sending'
    BY <2>1, <2>3 DEF Answering, Sending
  <2> QED
    BY <1>2, <2>1, <2>2, <2>3, <2>4, <2>5 DEF Answering
<1>9. CASE TransmitFSM
  <2>1. Sending /\ UNCHANGED <<sent, at, pend, rcv, timer, snd>>
    BY <1>9, PhaseFacts DEF TransmitFSM, line, receiver
  <2>2. Last > 0 /\ answered[Last] = 0
    BY <2>1, PhaseFacts DEF Sending, Resting, Sent
  <2>3. Last' = Last
    BY <2>1 DEF Last
  <2>4. CASE count # 0
    <3>1. UNCHANGED <<rxOn, txOn, trans, events, poll, answered, failed>>
      BY <1>9, <2>1, <2>4 DEF TransmitFSM, Sending, history
    <3>2. Sending'
      BY <2>1, <3>1 DEF Sending
    <3> QED
      BY <1>2, <2>1, <2>2, <2>3, <3>1, <3>2
  <2>5. CASE count = 0
    <3>1. /\ rxOn' /\ ~ txOn' /\ trans' = "idle" /\ poll' = poll /\ failed' = failed
          /\ events' = {"EV_FRAME_SENT"}
          /\ \/ answered' = answered
             \/ poll.n > 0 /\ answered' = [answered EXCEPT ![poll.n] = @ + 1]
      BY <1>9, <2>1, <2>5 DEF TransmitFSM, Sending, Post, vMBPortSerialEnable
    <3>2. \A k \in Requests : k > Last => answered'[k] = 0
      <4>1. poll.n \in 0..MaxRequests /\ poll.n <= Last
        BY <1>1 DEF SourceInv, PollType
      <4> QED
        BY <1>1, <1>2, <3>1, <4>1, Sizes DEF Requests
    <3>3. Sent'
      BY <2>1, <3>1 DEF Sending, Sent
    <3> QED
      BY <1>2, <2>1, <2>3, <3>1, <3>2, <3>3 DEF Sending
  <2> QED
    BY <2>4, <2>5
<1>10. CASE TransmitterIdle
  <2>1. /\ Sent /\ snd' = "STATE_TX_IDLE" /\ trans' = "fsm"
        /\ UNCHANGED <<sent, at, pend, rxOn, rcv, timer, events, poll, txOn, answered, failed>>
    BY <1>10, PhaseFacts DEF TransmitterIdle, line, receiver, history
  <2>2. Last' = Last
    BY <2>1 DEF Last
  <2>3. Resting' /\ ~ Receiving'
    BY <2>1 DEF Sent, Resting
  <2> QED
    BY <1>2, <2>1, <2>2, <2>3
<1>11. ASSUME NEW f \in Frames, MasterStart(f)
       PROVE  PatientState' /\ PatientPhases'
  <2>1. /\ Settled \/ LastAnswered
        /\ sent' = Append(sent, f) /\ at' = 1 /\ Len(sent) < MaxRequests
        /\ UNCHANGED <<pend, rxOn, rcv, timer, events, poll, snd, txOn, trans, answered,
                       failed>>
    BY <1>11 DEF MasterStart, receiver, history
  <2>2. Last' = Last + 1 /\ Last' \in Requests
    <3>1. Len(sent') = Len(sent) + 1
      BY <1>1, <2>1
    <3> QED
      BY <1>1, <2>1, <3>1, Sizes DEF Last, Requests
  <2>3. Resting /\ poll.pc # "start" /\ rcv # "STATE_RX_INIT"
    <3>1. CASE Settled
      BY <3>1, PhaseFacts DEF Settled
    <3>2. CASE LastAnswered
      <4>1. Last > 0 /\ answered[Last] > 0 /\ trans = "fsm"
        BY <1>1, <3>2 DEF LastAnswered, Last
      <4> QED
        BY <1>2, <4>1, PhaseFacts DEF Sent
    <3> QED
      BY <2>1, <3>1, <3>2
  <2>4. Resting'
    BY <2>1, <2>3 DEF Resting
  <2>5. answered'[Last'] = 0 /\ Last' > 0 /\ \A k \in Requests : k > Last' => answered'[k] = 0
    BY <1>1, <1>2, <2>1, <2>2 DEF Requests
  <2> QED
    BY <1>2, <2>1, <2>3, <2>4, <2>5
<1>12. CASE MasterByte
  <2>1. Resting /\ at > 0 /\ Last > 0 /\ answered[Last] = 0
    BY <1>12, PhaseFacts DEF MasterByte
  <2>2. rxOn /\ rcv # "STATE_RX_INIT" /\ poll.pc # "start" /\ snd = "STATE_TX_IDLE"
    BY <1>1, <1>2, <2>1 DEF Resting
  <2>3. /\ ReceiveFSM(RequestByte(Len(sent), at))
        /\ UNCHANGED <<sent, pend, rxOn, events, poll, snd, txOn, trans, answered>>
    BY <1>12, <2>2 DEF MasterByte, history
  <2>4. failed' = failed /\ rcv' \in {"STATE_RX_RCV", "STATE_RX_ERROR"}
    BY <1>1, <2>2, <2>3 DEF ReceiveFSM, RcvStates
  <2>5. Last' = Last
    BY <2>3 DEF Last
  <2>6. Resting'
    BY <2>1, <2>3 DEF Resting
  <2> QED
    BY <1>2, <2>1, <2>2, <2>3, <2>4, <2>5, <2>6
<1>13. CASE RxPending
  BY <1>2, <1>13 DEF RxPending
<1>14. CASE T35Expired
  <2>1. /\ timer /\ at = 0 /\ rcv' = "STATE_RX_IDLE"
        /\ UNCHANGED <<sent, at, pend, rxOn, snd, txOn, trans, answered>>
    BY <1>14 DEF T35Expired, StateAfterT35, line, history
  <2>2. rcv # "STATE_RX_IDLE" /\ Resting /\ poll.pc # "start"
    BY <1>2, <2>1, PhaseFacts DEF MachinesInv
  <2>3. failed' = failed
    BY <1>14, <2>2 DEF T35Expired
  <2>4. Last' = Last
    BY <2>1 DEF Last
  <2>5. CASE rcv = "STATE_RX_INIT"
    <3>1. Post("EV_READY")
      BY <1>14, <2>5 DEF T35Expired
    <3>2. \/ poll.pc = "wait" /\ poll'.pc = "handle" /\ poll'.ev = "EV_READY" /\ events' = {}
          \/ poll.pc # "wait" /\ poll' = poll /\ events' = {"EV_READY"}
      BY <1>1, <1>2, <2>5, <3>1 DEF Post, PollType
    <3>3. Resting'
      BY <2>1, <2>2, <3>2 DEF Resting
    <3> QED
      BY <1>2, <2>1, <2>2, <2>3, <2>4, <3>2, <3>3
  <2>6. CASE rcv = "STATE_RX_RCV"
    <3>1. Post("EV_FRAME_RECEIVED") /\ Last > 0 /\ answered[Last] = 0
      BY <1>14, <2>6, PhaseFacts DEF T35Expired
    <3>2. \/ poll.pc = "wait" /\ poll'.pc = "handle" /\ events' = {}
          \/ /\ poll.pc # "wait" /\ poll' = poll
             /\ "EV_FRAME_RECEIVED" \in events'
      BY <1>1, <1>2, <3>1 DEF Post, PollType
    <3>3. Handling' \/ Received'
      BY <1>1, <2>1, <2>2, <3>2 DEF Resting, Handling, Received, PollType
    <3> QED
      BY <1>2, <2>1, <2>2, <2>3, <2>4, <3>1, <3>2, <3>3
  <2>7. CASE rcv = "STATE_RX_ERROR"
    <3>1. UNCHANGED <<events, poll>>
      BY <1>14, <2>7 DEF T35Expired
    <3>2. Resting'
      BY <2>1, <2>2, <3>1 DEF Resting
    <3> QED
      BY <1>2, <2>1, <2>2, <2>3, <2>4, <3>1, <3>2
  <2> QED
    BY <1>1, <2>2, <2>5, <2>6, <2>7 DEF RcvStates
<1>15. CASE UNCHANGED vars
  BY <1>15 DEF vars, line, receiver, history, Last, Resting, Received, Handling,
               Accepted, Answering, Sending, Sent
<1>16. CASE Quiet
  BY <1>15, <1>16 DEF Quiet
<1> QED
  BY <1>3, <1>4, <1>5, <1>6, <1>7, <1>8, <1>9, <1>10, <1>11, <1>12, <1>13, <1>14,
     <1>15, <1>16 DEF Next, Poll, Transmitter

\* What is assumed of the master and of the load does not change.
LEMMA ModeIsFixed == [Next]_vars => mode' = mode
BY DEF Next, Poll, Transmitter, Start, PollGet, HandleOther, Receive, Execute, Send,
       TransmitFSM, TransmitterIdle, MasterStart, MasterByte, RxPending, T35Expired,
       Quiet, vars

LEMMA PatientInvHolds == Spec => [](TypeOK /\ SourceInv /\ MachinesInv /\ PatientInv)
<1>1. Init => TypeOK /\ SourceInv /\ MachinesInv /\ PatientInv
  <2>1. Init => TypeOK /\ SourceInv
    BY InitTypes
  <2>2. Init => MachinesInv
    BY ModbusAssumption DEF Init, MachinesInv, MachinesAgree, RcvStates, PduSizeMin
  <2>3. Init => PatientInv
    <3> SUFFICES ASSUME Init
                 PROVE  PatientState /\ PatientPhases
      BY DEF PatientInv
    <3>1. Last = 0 /\ poll.pc = "start" /\ \A k \in Requests : answered[k] = 0
      BY DEF Init, Last
    <3>2. PatientState
      BY <3>1 DEF Init, PatientState
    <3>3. Resting /\ ~ Receiving
      BY <3>1 DEF Init, Resting, NotSending, PollHarmless, Receiving
    <3> QED
      BY <3>2, <3>3 DEF PatientPhases
  <2> QED
    BY <2>1, <2>2, <2>3
<1>2. mode.patient' /\ [Next]_vars => mode.patient
  BY ModeIsFixed
<1>3. TypeOK /\ SourceInv /\ MachinesInv /\ PatientInv /\ [Next]_vars => PatientInv'
  BY <1>2, StepKeepsPatience DEF PatientInv
<1> QED
  BY <1>1, <1>3, StepKeepsTypes, StepKeepsMachinesInv, PTL DEF Spec

(***************************************************************************)
(* A master that waits never makes an assertion fail: no byte reaches      *)
(* xMBRTUReceiveFSM before eSndState is IDLE again, although the receive   *)
(* interrupt is enabled earlier and although merged events may make        *)
(* eMBPoll handle one that never came, for every number of frames, every   *)
(* frame and every buffer size.                                            *)
(***************************************************************************)
THEOREM PatientMastersAreSafe == Spec => []PatientMasterIsSafe
<1>1. PatientInv => PatientMasterIsSafe
  BY DEF PatientInv, PatientState, PatientMasterIsSafe
<1> QED
  BY <1>1, PatientInvHolds, PTL

-----------------------------------------------------------------------------
(***************************************************************************)
(* What the buffer holds in each phase when, besides, no events are merged.*)
(***************************************************************************)
\* The frame being received, up to byte k.
BytesUpTo(k) == pos = k /\ \A i \in 1..k : buf[i] = RequestByte(Last, i)

Arrived == IF at > 0 THEN at - 1 ELSE sent[Last].len

ReceivingLast ==
    /\ Last > 0 /\ executed[Last] = 0 /\ answered[Last] = 0
    /\ at <= sent[Last].len
    /\ rcv = "STATE_RX_IDLE" => at = 1
    /\ rcv = "STATE_RX_RCV" => at # 1 /\ BytesUpTo(Arrived)
    /\ rcv = "STATE_RX_ERROR" => at # 1 /\ Arrived > PduSizeMax

WholeRequest ==
    /\ Last > 0 /\ executed[Last] = 0 /\ answered[Last] = 0
    /\ BytesUpTo(sent[Last].len)

AcceptedRequest ==
    /\ WholeRequest
    /\ sent[Last].good /\ sent[Last].to \in {"us", "broadcast"}
    /\ poll.to = sent[Last].to
    /\ poll.len > 0 /\ sent[Last].len = poll.len + 1 + CrcSize

ExecutedRequest ==
    /\ Last > 0 /\ executed[Last] = 1 /\ sent[Last].to = "us"
    /\ poll.n = Last

FinishedLast ==
    Last > 0 /\ Contract!Serviceable(sent[Last]) =>
        /\ executed[Last] = 1
        /\ sent[Last].to = "us" => answered[Last] = 1

CalmPhases ==
    \/ Resting /\ Receiving /\ ReceivingLast
    \/ Resting /\ ~ Receiving /\ FinishedLast
    \/ Received /\ events = {"EV_FRAME_RECEIVED"} /\ WholeRequest
    \/ Handling /\ poll.ev = "EV_FRAME_RECEIVED" /\ WholeRequest
    \/ Accepted /\ AcceptedRequest
    \/ Handling /\ poll.ev = "EV_EXECUTE" /\ AcceptedRequest
    \/ /\ Answering /\ ExecutedRequest /\ answered[Last] = 0
       /\ \A i \in 2..(poll.len + 1) : buf[i] = AnswerByte(Last, i)
    \/ Sending /\ ExecutedRequest /\ answered[Last] = 0 /\ SentWhole
    \/ Sent /\ ExecutedRequest /\ answered[Last] = 1

CalmHistory ==
    /\ ExecutesWhatWasAsked
    /\ \A k \in Requests : k > Last => executed[k] = 0

CalmInv == Calm => CalmHistory /\ CalmPhases

\* What the phases say of the buffer and of the history.
LEMMA CalmFacts ==
    ASSUME TypeOK, CalmPhases
    PROVE  /\ Resting /\ Receiving => ReceivingLast
           /\ Resting /\ ~ Receiving => FinishedLast
           /\ Received => events = {"EV_FRAME_RECEIVED"} /\ WholeRequest
           /\ Accepted => AcceptedRequest
           /\ poll.pc = "handle" /\ poll.ev \notin Harmless =>
                 /\ Handling
                 /\ \/ poll.ev = "EV_FRAME_RECEIVED" /\ WholeRequest
                    \/ poll.ev = "EV_EXECUTE" /\ AcceptedRequest
           /\ Answering => /\ ExecutedRequest /\ answered[Last] = 0
                           /\ \A i \in 2..(poll.len + 1) : buf[i] = AnswerByte(Last, i)
           /\ Sending => ExecutedRequest /\ answered[Last] = 0 /\ SentWhole
           /\ Sent => ExecutedRequest /\ answered[Last] = 1
BY DEF CalmPhases, NotSending, PollHarmless, Harmless, Resting, Received, Handling,
       Accepted, Answering, Sending, Sent

\* A frame the master begun has a length and an address.
LEMMA SentFrames ==
    ASSUME TypeOK, NEW n \in 1..Last
    PROVE  sent[n].len \in Nat /\ sent[n].len > 0 /\ sent[n].to \in Addresses
<1>1. sent[n] \in Frames
  BY DEF TypeOK, Last
<1> QED
  BY <1>1, ModbusAssumption

\* eMBRTUReceive accepts the frame it has received if that is whole and undamaged.
LEMMA WholeRequestAccepted ==
    ASSUME TypeOK, WholeRequest
    PROVE  /\ FrameAccepted <=> sent[Last].good /\ sent[Last].len >= PduSizeMin
           /\ AddressOf(buf[1]) = sent[Last].to
           /\ pos = sent[Last].len /\ pos \in 1..PduSizeMax
<1>1. /\ Last > 0 /\ Last \in 1..Last /\ Len(sent) = Last
      /\ pos = sent[Last].len /\ \A i \in 1..pos : buf[i] = RequestByte(Last, i)
  BY DEF WholeRequest, BytesUpTo, TypeOK, Last
<1>2. pos \in 1..PduSizeMax /\ DOMAIN buf = 1..PduSizeMax
  BY <1>1, SentFrames, Sizes DEF TypeOK, Places
<1>3. buf[1] = RequestByte(Last, 1) /\ buf[pos] = RequestByte(Last, pos)
  BY <1>1, <1>2
<1>4. ~ CrcOfAnswer
  BY <1>3 DEF CrcOfAnswer, RequestByte, CrcByte
<1>5. ASSUME NEW n \in 1..Last, CrcOfRequest(n)
      PROVE  n = Last
  <2>1. buf[1] = RequestByte(n, 1)
    BY <1>2, <1>5 DEF CrcOfRequest
  <2> QED
    BY <1>3, <2>1 DEF RequestByte
<1>6. CrcOfRequest(Last) <=> sent[Last].good
  BY <1>1 DEF CrcOfRequest
<1>7. (\E n \in 1..Len(sent) : CrcOfRequest(n)) <=> sent[Last].good
  BY <1>1, <1>5, <1>6
<1>8. AddressOf(buf[1]) = sent[Last].to
  BY <1>3 DEF AddressOf, RequestByte
<1> QED
  BY <1>1, <1>2, <1>4, <1>7, <1>8 DEF FrameAccepted

\* The handler sees the PDU of the last request and of no other one.
LEMMA AcceptedRequestExecuted ==
    ASSUME TypeOK, AcceptedRequest, NEW n \in 0..Last,
           IF n > 0 THEN poll.len > 0 /\ PduOf(n)
           ELSE poll.len = 0 \/ \A k \in 1..Len(sent) : ~ PduOf(k)
    PROVE  n = Last
<1>1. /\ Last > 0 /\ Last \in 1..Last /\ Len(sent) = Last
      /\ pos = sent[Last].len /\ \A i \in 1..pos : buf[i] = RequestByte(Last, i)
      /\ poll.len > 0 /\ poll.len \in Nat /\ sent[Last].len = poll.len + 1 + CrcSize
  BY DEF AcceptedRequest, WholeRequest, BytesUpTo, TypeOK, Last
<1>2. \A i \in 1..poll.len : i + 1 \in 1..pos
  BY <1>1, Sizes
<1>3. PduOf(Last)
  BY <1>1, <1>2 DEF PduOf
<1>4. CASE n = 0
  BY <1>1, <1>3, <1>4
<1>5. CASE n > 0
  <2>1. 1 \in 1..poll.len /\ 2 \in 1..pos
    BY <1>1, Sizes
  <2>2. buf[2] = RequestByte(n, 2)
    BY <1>5, <2>1 DEF PduOf
  <2>3. buf[2] = RequestByte(Last, 2)
    BY <1>1, <2>1
  <2> QED
    BY <2>2, <2>3 DEF RequestByte
<1> QED
  BY <1>1, <1>4, <1>5

\* eMBPoll executes the last request, and no handler writes past the buffer.
LEMMA ExecuteEffect ==
    ASSUME TypeOK, CalmPhases, Execute
    PROVE  /\ Handling /\ AcceptedRequest
           /\ executed' = [executed EXCEPT ![Last] = 1] /\ wrong' = wrong
           /\ UNCHANGED <<mode, sent, at, rcv, pos, events, snd, txOn, trans, answered>>
           /\ \E l \in 0..(PduSizeMax - 1 - CrcSize) :
                 /\ l = 0 => poll.to = "broadcast"
                 /\ buf' = [i \in DOMAIN buf |-> IF i \in 2..(l + 1)
                                                 THEN AnswerByte(Last, i) ELSE buf[i]]
                 /\ poll' = [poll EXCEPT
                       !.pc = IF poll.to = "broadcast" THEN "get" ELSE "send",
                       !.n = Last, !.len = IF l = 0 THEN @ ELSE l]
<1>1. Handling /\ AcceptedRequest
  BY CalmFacts DEF Execute, Harmless
<1>2. PICK n \in 0..Len(sent), l \in 0..(PduSizeMax - 1 - CrcSize) :
        /\ IF n > 0 THEN poll.len > 0 /\ PduOf(n)
           ELSE poll.len = 0 \/ \A k \in 1..Len(sent) : ~ PduOf(k)
        /\ l = 0 => poll.to = "broadcast"
        /\ IF n > 0
           THEN executed' = [executed EXCEPT ![n] = @ + 1] /\ UNCHANGED wrong
           ELSE wrong' = wrong \cup {"executed"} /\ UNCHANGED executed
        /\ buf' = [i \in DOMAIN buf |-> IF i \in 2..(l + 1)
                                        THEN AnswerByte(n, i) ELSE buf[i]]
        /\ poll' = [poll EXCEPT
              !.pc = IF poll.to = "broadcast" THEN "get" ELSE "send",
              !.n = n, !.len = IF l = 0 THEN @ ELSE l]
  BY DEF Execute
<1>3. n \in 0..Last
  BY DEF Last
<1>4. n = Last
  BY <1>1, <1>2, <1>3, AcceptedRequestExecuted
<1>5. Last > 0 /\ executed[Last] = 0
  BY <1>1 DEF AcceptedRequest, WholeRequest
<1>6. executed' = [executed EXCEPT ![Last] = 1] /\ wrong' = wrong
  BY <1>2, <1>4, <1>5
<1>7. UNCHANGED <<mode, sent, at, rcv, pos, events, snd, txOn, trans, answered>>
  BY DEF Execute, line
<1> QED
  BY <1>1, <1>2, <1>4, <1>6, <1>7

\* The transmitter sends the next byte of the answer, or has sent the whole answer.
LEMMA TransmitEffect ==
    ASSUME TypeOK, PatientPhases, CalmPhases, TransmitFSM
    PROVE  /\ Sending /\ ExecutedRequest /\ answered[Last] = 0
           /\ UNCHANGED <<mode, sent, at, rcv, buf, pos, snd, poll, executed, wrong>>
           /\ \/ UNCHANGED <<txOn, trans, events, answered>>
              \/ /\ ~ txOn' /\ trans' = "idle" /\ events' = {"EV_FRAME_SENT"}
                 /\ answered' = [answered EXCEPT ![Last] = 1]
<1>1. /\ Sending /\ ExecutedRequest /\ answered[Last] = 0 /\ SentWhole
      /\ UNCHANGED <<mode, sent, at, rcv, buf, pos, snd>>
  BY PhaseFacts, CalmFacts DEF TransmitFSM, line, receiver
<1>2. poll.n = Last /\ poll.n > 0
  BY <1>1 DEF ExecutedRequest
<1>3. CASE count # 0
  <2>1. UNCHANGED <<txOn, trans, events, poll, executed, answered, wrong>>
    BY <1>1, <1>3 DEF TransmitFSM, Sending, LineSilent, history
  <2> QED
    BY <1>1, <2>1
<1>4. CASE count = 0
  <2>1. /\ ~ txOn' /\ trans' = "idle" /\ Post("EV_FRAME_SENT")
        /\ answered' = [answered EXCEPT ![poll.n] = @ + 1] /\ UNCHANGED <<executed, wrong>>
    BY <1>1, <1>2, <1>4 DEF TransmitFSM, Sending, LineSilent, vMBPortSerialEnable
  <2>2. answered' = [answered EXCEPT ![Last] = 1]
    BY <1>1, <1>2, <2>1
  <2>3. poll' = poll /\ events' = {"EV_FRAME_SENT"}
    BY <1>1, <2>1 DEF Post, Sending
  <2> QED
    BY <1>1, <2>1, <2>2, <2>3
<1> QED
  BY <1>3, <1>4

\* A patient master asks only when nothing is left to do for the last frame.
LEMMA AskEffect ==
    ASSUME TypeOK, PatientState, PatientPhases, CalmPhases, mode.patient,
           NEW f \in Frames, MasterStart(f)
    PROVE  Resting /\ ~ Receiving /\ rcv = "STATE_RX_IDLE" /\ FinishedLast
<1>1. (Settled \/ LastAnswered) /\ at = 0
  BY DEF MasterStart
<1>2. CASE Settled
  <2>1. Resting /\ rcv = "STATE_RX_IDLE"
    BY <1>2, PhaseFacts DEF Settled
  <2> QED
    BY <1>1, <2>1, CalmFacts DEF Receiving
<1>3. CASE LastAnswered
  <2>1. Last > 0 /\ answered[Last] > 0 /\ trans = "fsm"
    BY <1>3 DEF LastAnswered, Last, TypeOK
  <2>2. Resting /\ ~ Receiving
    BY <2>1, PhaseFacts DEF Sent
  <2>3. rcv # "STATE_RX_INIT"
    BY <2>1 DEF PatientState
  <2>4. rcv = "STATE_RX_IDLE"
    BY <2>2, <2>3 DEF Receiving, TypeOK
  <2> QED
    BY <2>2, <2>4, CalmFacts
<1> QED
  BY <1>1, <1>2, <1>3

\* A byte of the frame goes to its place in the buffer, or there is no room for it.
LEMMA ByteEffect ==
    ASSUME TypeOK, MachinesInv, PatientState, PatientPhases, CalmPhases, MasterByte
    PROVE  Resting' /\ Receiving' /\ ReceivingLast'
<1>1. Resting /\ Receiving /\ at > 0
  BY PhaseFacts DEF MasterByte, Receiving
<1>2. /\ ReceivingLast /\ rxOn /\ rcv # "STATE_RX_INIT" /\ snd = "STATE_TX_IDLE"
      /\ Last > 0
  BY <1>1, CalmFacts DEF PatientState, Resting, NotSending, ReceivingLast
<1>3. /\ ReceiveFSM(RequestByte(Last, at))
      /\ at' = IF at = sent[Last].len THEN 0 ELSE at + 1
      /\ UNCHANGED <<sent, events, poll, snd, txOn, trans, executed, answered>>
  BY <1>2 DEF MasterByte, history, Last
<1>4. Last' = Last /\ Last \in 1..Last /\ at \in Nat /\ pos \in 0..PduSizeMax
      /\ buf \in [1..PduSizeMax -> Bytes] /\ rcv \in RcvStates
  BY <1>2, <1>3 DEF TypeOK, Last, Places, RcvStates
<1>5. sent[Last].len \in Nat /\ sent[Last].len > 0
  BY <1>4, SentFrames
<1>6. at' # 1 /\ Arrived' = at /\ at' <= sent[Last].len /\ Arrived = at - 1
  BY <1>1, <1>2, <1>3, <1>4, <1>5 DEF Arrived, ReceivingLast
<1>7. Resting'
  BY <1>1, <1>3 DEF Resting, NotSending, PollHarmless
<1>8. CASE rcv = "STATE_RX_IDLE"
  <2>1. rcv' = "STATE_RX_RCV" /\ pos' = 1 /\ buf' = [buf EXCEPT ![1] = RequestByte(Last, at)]
    BY <1>2, <1>3, <1>8 DEF ReceiveFSM
  <2>2. at = 1
    BY <1>2, <1>8 DEF ReceivingLast
  <2>3. pos' = at /\ \A i \in 1..at : buf'[i] = RequestByte(Last, i)
    BY <1>4, <2>1, <2>2, Sizes
  <2> QED
    BY <1>2, <1>3, <1>4, <1>6, <1>7, <2>1, <2>3 DEF ReceivingLast, Receiving, BytesUpTo
<1>9. CASE rcv = "STATE_RX_RCV" /\ RoomLeft
  <2>1. /\ rcv' = "STATE_RX_RCV" /\ pos' = pos + 1
        /\ buf' = [buf EXCEPT ![pos + 1] = RequestByte(Last, at)]
    BY <1>2, <1>3, <1>9 DEF ReceiveFSM
  <2>2. pos = at - 1 /\ \A i \in 1..(at - 1) : buf[i] = RequestByte(Last, i)
    BY <1>2, <1>6, <1>9 DEF ReceivingLast, BytesUpTo
  <2>3. pos + 1 = at /\ at \in 1..PduSizeMax
    BY <1>1, <1>4, <1>9, <2>2, Sizes DEF RoomLeft
  <2>4. \A i \in 1..at : buf'[i] = RequestByte(Last, i)
    BY <1>4, <2>1, <2>2, <2>3, Sizes
  <2> QED
    BY <1>2, <1>3, <1>4, <1>6, <1>7, <2>1, <2>3, <2>4 DEF ReceivingLast, Receiving, BytesUpTo
<1>10. CASE rcv = "STATE_RX_RCV" /\ ~ RoomLeft
  <2>1. rcv' = "STATE_RX_ERROR"
    BY <1>2, <1>3, <1>10 DEF ReceiveFSM
  <2>2. pos = at - 1
    BY <1>2, <1>6, <1>10 DEF ReceivingLast, BytesUpTo
  <2>3. at > PduSizeMax
    BY <1>4, <1>10, <2>2, Sizes DEF RoomLeft
  <2> QED
    BY <1>2, <1>3, <1>4, <1>6, <1>7, <2>1, <2>3 DEF ReceivingLast, Receiving
<1>11. CASE rcv = "STATE_RX_ERROR"
  <2>1. rcv' = "STATE_RX_ERROR"
    BY <1>2, <1>3, <1>11 DEF ReceiveFSM
  <2>2. at > PduSizeMax
    BY <1>2, <1>4, <1>6, <1>11, Sizes DEF ReceivingLast
  <2> QED
    BY <1>2, <1>3, <1>4, <1>6, <1>7, <2>1, <2>2 DEF ReceivingLast, Receiving
<1> QED
  BY <1>2, <1>4, <1>8, <1>9, <1>10, <1>11 DEF RcvStates

(***************************************************************************)
(* With a patient master and a prompt poll thread every step leads from    *)
(* phase to phase with the buffer as described.                            *)
(***************************************************************************)
LEMMA StepKeepsCalm ==
    ASSUME TypeOK, SourceInv, MachinesInv, PatientState, PatientPhases, Calm,
           CalmHistory, CalmPhases, [Next]_vars
    PROVE  CalmHistory' /\ CalmPhases'
<1>1. /\ poll \in PollType /\ events \subseteq Events /\ sent \in Seq(Frames)
      /\ Last \in 0..MaxRequests /\ at \in Nat /\ rcv \in RcvStates
      /\ executed \in [Requests -> Nat] /\ answered \in [Requests -> Nat]
      /\ buf \in [1..PduSizeMax -> Bytes] /\ mode' = mode
  BY Sizes, ModeIsFixed DEF TypeOK, PollType, Last, RcvStates
<1>2. /\ wrong = {}
      /\ \A n \in Requests :
            /\ executed[n] > 0 => /\ executed[n] = 1 /\ n <= Last
                                  /\ sent[n].good /\ sent[n].to # "other"
            /\ answered[n] > 0 => /\ answered[n] = 1 /\ executed[n] = 1
                                  /\ sent[n].to = "us"
      /\ \A k \in Requests : k > Last => executed[k] = 0
  BY DEF CalmHistory, ExecutesWhatWasAsked, Calm, Last
<1>3. ASSUME UNCHANGED <<sent, executed, answered, wrong>>
      PROVE  CalmHistory' /\ Last' = Last
  BY <1>1, <1>3 DEF CalmHistory, ExecutesWhatWasAsked, Last
<1> USE DEF NotSending, LineSilent, PollHarmless
<1>4. CASE Start
  <2>1. /\ poll.pc = "start" /\ poll'.pc = "get" /\ ~ txOn' /\ rcv' = "STATE_RX_INIT"
        /\ UNCHANGED <<sent, at, events, snd, trans, executed, answered, wrong>>
    BY <1>1, <1>4 DEF Start, PollType, line, history, vMBPortSerialEnable
  <2>2. Resting /\ Last = 0 /\ at = 0
    BY <2>1, PhaseFacts DEF PatientState
  <2>3. Resting' /\ ~ Receiving' /\ FinishedLast'
    BY <1>3, <2>1, <2>2 DEF Resting, Receiving, FinishedLast
  <2> QED
    BY <1>3, <2>1, <2>3 DEF CalmPhases
<1>5. CASE PollGet
  <2>1. /\ poll.pc = "get" /\ events' = {} /\ ~ txOn /\ trans = "fsm"
        /\ UNCHANGED <<sent, at, rcv, buf, pos, snd, txOn, trans, executed, answered, wrong>>
        /\ poll'.to = poll.to /\ poll'.len = poll.len
    BY <1>1, <1>5 DEF PollGet, PollMayRun, PollType, line, history, receiver
  <2>2. \/ events = {} /\ poll'.pc = "wait"
        \/ /\ events # {} /\ poll'.pc = "handle"
           /\ \A x \in Events : events = {x} => poll'.ev = x
    BY <1>1, <1>5 DEF PollGet, PollType
  <2>3. CalmHistory' /\ Last' = Last
    BY <1>3, <2>1
  <2>4. CASE Resting
    <3>1. Resting'
      BY <2>1, <2>2, <2>4 DEF Resting, Harmless, Events
    <3>2. (Receiving' <=> Receiving) /\ (ReceivingLast => ReceivingLast')
          /\ (FinishedLast => FinishedLast')
      BY <2>1, <2>3 DEF Receiving, ReceivingLast, BytesUpTo, Arrived, FinishedLast
    <3> QED
      BY <2>3, <2>4, <3>1, <3>2, CalmFacts DEF CalmPhases
  <2>5. CASE Received
    <3>1. events = {"EV_FRAME_RECEIVED"} /\ WholeRequest
      BY <2>5, CalmFacts
    <3>2. Handling' /\ poll'.ev = "EV_FRAME_RECEIVED"
      BY <2>1, <2>2, <2>5, <3>1 DEF Received, Handling, Events
    <3>3. WholeRequest'
      BY <2>1, <2>3, <3>1 DEF WholeRequest, BytesUpTo
    <3> QED
      BY <2>3, <3>2, <3>3 DEF CalmPhases
  <2>6. CASE Accepted
    <3>1. events = {"EV_EXECUTE"} /\ AcceptedRequest
      BY <2>6, CalmFacts DEF Accepted
    <3>2. Handling' /\ poll'.ev = "EV_EXECUTE"
      BY <2>1, <2>2, <2>6, <3>1 DEF Accepted, Handling, Events
    <3>3. AcceptedRequest'
      BY <2>1, <2>3, <3>1 DEF AcceptedRequest, WholeRequest, BytesUpTo
    <3> QED
      BY <2>3, <3>2, <3>3 DEF CalmPhases
  <2> QED
    BY <2>1, <2>4, <2>5, <2>6 DEF PatientPhases, Handling, Answering, Sending, Sent
<1>6. CASE HandleOther
  <2>1. /\ poll.pc = "handle" /\ poll'.pc = "get"
        /\ poll.ev \in {"EV_READY", "EV_FRAME_SENT", "other"}
        /\ UNCHANGED <<sent, at, rcv, buf, pos, events, snd, txOn, trans, executed,
                       answered, wrong>>
    BY <1>1, <1>6 DEF HandleOther, PollType, line, history, receiver
  <2>2. CalmHistory' /\ Last' = Last
    BY <1>3, <2>1
  <2>3. CASE Resting
    <3>1. Resting'
      BY <2>1, <2>3 DEF Resting
    <3>2. (Receiving' <=> Receiving) /\ (ReceivingLast => ReceivingLast')
          /\ (FinishedLast => FinishedLast')
      BY <2>1, <2>2 DEF Receiving, ReceivingLast, BytesUpTo, Arrived, FinishedLast
    <3> QED
      BY <2>2, <2>3, <3>1, <3>2, CalmFacts DEF CalmPhases
  <2>4. CASE Received
    <3>1. events = {"EV_FRAME_RECEIVED"} /\ WholeRequest
      BY <2>4, CalmFacts
    <3>2. Received'
      BY <2>1, <2>4 DEF Received
    <3>3. WholeRequest'
      BY <2>1, <2>2, <3>1 DEF WholeRequest, BytesUpTo
    <3> QED
      BY <2>1, <2>2, <3>1, <3>2, <3>3 DEF CalmPhases
  <2> QED
    BY <2>1, <2>3, <2>4 DEF CalmPhases, Accepted, Answering, Sending, Sent
<1>7. CASE Receive
  <2>1. Handling /\ WholeRequest
    BY <1>7, CalmFacts DEF Receive, Harmless
  <2>2. /\ UNCHANGED <<sent, at, rcv, buf, pos, snd, txOn, trans, executed, answered, wrong>>
        /\ poll'.pc = "get"
    BY <1>1, <1>7 DEF Receive, PollType, line, history, receiver
  <2>3. CalmHistory' /\ Last' = Last
    BY <1>3, <2>2
  <2>4. /\ FrameAccepted <=> sent[Last].good /\ sent[Last].len >= PduSizeMin
        /\ AddressOf(buf[1]) = sent[Last].to
        /\ pos = sent[Last].len /\ pos \in 1..PduSizeMax
    BY <2>1, WholeRequestAccepted
  <2>5. WholeRequest'
    BY <2>1, <2>2, <2>3 DEF WholeRequest, BytesUpTo
  <2>6. CASE FrameAccepted /\ ForThisSlave(sent[Last].to)
    <3>1. /\ poll'.to = sent[Last].to /\ poll'.len = pos - 1 - CrcSize
          /\ events' = events \cup {"EV_EXECUTE"}
      BY <1>1, <1>7, <2>4, <2>6 DEF Receive, PollType
    <3>2. Accepted'
      BY <2>1, <2>2, <3>1 DEF Handling, Accepted
    <3>3. poll'.len > 0 /\ pos = poll'.len + 1 + CrcSize
      BY <2>4, <2>6, <3>1, Sizes DEF PduSizeMin
    <3>4. AcceptedRequest'
      BY <2>2, <2>3, <2>4, <2>5, <2>6, <3>1, <3>3 DEF AcceptedRequest, ForThisSlave
    <3> QED
      BY <2>3, <3>2, <3>4 DEF CalmPhases
  <2>7. CASE ~ (FrameAccepted /\ ForThisSlave(sent[Last].to))
    <3>1. events' = events
      BY <1>7, <2>4, <2>7 DEF Receive
    <3>2. Resting' /\ ~ Receiving'
      BY <2>1, <2>2, <3>1 DEF Handling, Resting, Receiving
    <3>3. ~ Contract!Serviceable(sent[Last])
      BY <2>4, <2>7, Sizes DEF Contract!Serviceable, ForThisSlave, PduSizeMin
    <3> QED
      BY <2>2, <2>3, <3>2, <3>3 DEF CalmPhases, FinishedLast
  <2> QED
    BY <2>6, <2>7
<1>8. CASE Execute
  <2>1. /\ Handling /\ AcceptedRequest
        /\ executed' = [executed EXCEPT ![Last] = 1] /\ wrong' = wrong
        /\ UNCHANGED <<sent, at, rcv, pos, events, snd, txOn, trans, answered>>
    BY <1>8, ExecuteEffect
  <2>2. PICK l \in 0..(PduSizeMax - 1 - CrcSize) :
          /\ l = 0 => poll.to = "broadcast"
          /\ buf' = [i \in DOMAIN buf |-> IF i \in 2..(l + 1)
                                          THEN AnswerByte(Last, i) ELSE buf[i]]
          /\ poll' = [poll EXCEPT
                !.pc = IF poll.to = "broadcast" THEN "get" ELSE "send",
                !.n = Last, !.len = IF l = 0 THEN @ ELSE l]
    BY <1>8, ExecuteEffect
  <2>3. /\ Last > 0 /\ Last \in Requests /\ Last' = Last /\ answered[Last] = 0
        /\ sent[Last].good /\ sent[Last].to \in {"us", "broadcast"} /\ poll.to = sent[Last].to
    BY <1>1, <2>1, Sizes DEF AcceptedRequest, WholeRequest, Requests, Last
  <2>4. executed'[Last] = 1 /\ \A k \in Requests \ {Last} : executed'[k] = executed[k]
    BY <1>1, <2>1, <2>3
  <2>5. CalmHistory'
    <3>1. ASSUME NEW n \in Requests
          PROVE  /\ executed'[n] > 0 => /\ executed'[n] = 1 /\ n <= Last
                                        /\ sent[n].good /\ sent[n].to # "other"
                 /\ answered[n] > 0 => /\ answered[n] = 1 /\ executed'[n] = 1
                                       /\ sent[n].to = "us"
                 /\ n > Last => executed'[n] = 0
      BY <1>1, <1>2, <2>3, <2>4, <3>1
    <3> QED
      BY <1>2, <2>1, <2>3, <3>1 DEF CalmHistory, ExecutesWhatWasAsked, Last
  <2>6. CASE poll.to = "broadcast"
    <3>1. poll'.pc = "get"
      BY <1>1, <2>2, <2>6 DEF PollType
    <3>2. Resting' /\ ~ Receiving'
      BY <2>1, <3>1 DEF Handling, Resting, Receiving
    <3>3. FinishedLast'
      BY <2>1, <2>3, <2>4, <2>6 DEF FinishedLast
    <3> QED
      BY <2>5, <3>2, <3>3 DEF CalmPhases
  <2>7. CASE poll.to # "broadcast"
    <3>1. poll'.pc = "send" /\ poll'.n = Last /\ poll'.len = l
      BY <1>1, <2>2, <2>7 DEF PollType
    <3>2. Answering'
      BY <2>1, <3>1 DEF Handling, Answering
    <3>3. \A i \in 2..(l + 1) : buf'[i] = AnswerByte(Last, i)
      BY <1>1, <2>2, Sizes
    <3>4. ExecutedRequest'
      BY <2>1, <2>3, <2>4, <2>7, <3>1 DEF ExecutedRequest
    <3> QED
      BY <2>1, <2>3, <2>5, <3>1, <3>2, <3>3, <3>4 DEF CalmPhases
  <2> QED
    BY <2>6, <2>7
<1>9. CASE Send
  <2>1. /\ Answering /\ ExecutedRequest /\ answered[Last] = 0
        /\ \A i \in 2..(poll.len + 1) : buf[i] = AnswerByte(Last, i)
    BY <1>9, PhaseFacts, CalmFacts DEF Send
  <2>2. /\ poll'.pc = "get" /\ poll'.n = poll.n /\ poll'.len = poll.len
        /\ snd' = "STATE_TX_XMIT" /\ txOn'
        /\ UNCHANGED <<sent, at, rcv, events, trans, executed, answered, wrong>>
    BY <1>1, <1>9, <2>1 DEF Send, MaySend, Answering, PollType, line, history,
                            vMBPortSerialEnable
  <2>3. buf' = [i \in DOMAIN buf |->
                  IF i = 1 THEN AnswerByte(poll.n, 1)
                  ELSE IF i \in (poll.len + 2)..count' THEN CrcByte(i)
                  ELSE buf[i]]
    BY <1>9, <2>1 DEF Send, MaySend, Answering
  <2>4. CalmHistory' /\ Last' = Last
    BY <1>3, <2>2
  <2>5. Sending'
    BY <2>1, <2>2 DEF Answering, Sending
  <2>6. SentWhole'
    <3>1. poll.n = Last /\ poll.len \in 0..(PduSizeMax - 1 - CrcSize)
      BY <1>1, <2>1 DEF ExecutedRequest, PollType
    <3>2. \A i \in 1..(poll.len + 1) : buf'[i] = AnswerByte(Last, i)
      BY <1>1, <2>1, <2>3, <3>1, Sizes
    <3> QED
      BY <2>2, <3>1, <3>2 DEF SentWhole
  <2>7. ExecutedRequest'
    BY <2>1, <2>2, <2>4 DEF ExecutedRequest
  <2> QED
    BY <2>1, <2>2, <2>4, <2>5, <2>6, <2>7 DEF CalmPhases
<1>10. CASE TransmitFSM
  <2>1. /\ Sending /\ ExecutedRequest /\ answered[Last] = 0 /\ SentWhole
        /\ UNCHANGED <<sent, at, rcv, buf, pos, snd, poll, executed, wrong>>
    BY <1>10, TransmitEffect, CalmFacts
  <2>2. Last' = Last /\ ExecutedRequest' /\ SentWhole'
    BY <2>1 DEF Last, ExecutedRequest, SentWhole
  <2>3. CASE UNCHANGED <<txOn, trans, events, answered>>
    <3>1. Sending'
      BY <2>1, <2>3 DEF Sending
    <3> QED
      BY <1>3, <2>1, <2>2, <2>3, <3>1 DEF CalmPhases
  <2>4. CASE /\ ~ txOn' /\ trans' = "idle" /\ events' = {"EV_FRAME_SENT"}
             /\ answered' = [answered EXCEPT ![Last] = 1]
    <3>1. Sent'
      BY <2>1, <2>4 DEF Sending, Sent
    <3>2. Last \in Requests /\ executed[Last] = 1 /\ sent[Last].to = "us"
      BY <1>1, <2>1, Sizes DEF ExecutedRequest, Requests
    <3>3. answered'[Last] = 1 /\ \A k \in Requests \ {Last} : answered'[k] = answered[k]
      BY <1>1, <2>4, <3>2
    <3>4. CalmHistory'
      <4>1. ASSUME NEW n \in Requests
            PROVE  /\ executed[n] > 0 => /\ executed[n] = 1 /\ n <= Last
                                         /\ sent[n].good /\ sent[n].to # "other"
                   /\ answered'[n] > 0 => /\ answered'[n] = 1 /\ executed[n] = 1
                                          /\ sent[n].to = "us"
                   /\ n > Last => executed[n] = 0
        BY <1>2, <3>2, <3>3, <4>1
      <4> QED
        BY <1>2, <2>1, <2>2, <4>1 DEF CalmHistory, ExecutesWhatWasAsked, Last
    <3> QED
      BY <2>2, <3>1, <3>3, <3>4 DEF CalmPhases
  <2> QED
    BY <1>10, <2>3, <2>4, TransmitEffect
<1>11. CASE TransmitterIdle
  <2>1. /\ Sent /\ ExecutedRequest /\ answered[Last] = 1
        /\ snd' = "STATE_TX_IDLE" /\ trans' = "fsm"
        /\ UNCHANGED <<sent, at, rcv, events, poll, txOn, executed, answered, wrong>>
    BY <1>11, PhaseFacts, CalmFacts DEF TransmitterIdle, line, receiver, history
  <2>2. Resting' /\ ~ Receiving'
    BY <2>1 DEF Sent, Resting, Receiving, Harmless
  <2>3. CalmHistory' /\ Last' = Last
    BY <1>3, <2>1
  <2>4. FinishedLast'
    BY <2>1, <2>3 DEF FinishedLast, ExecutedRequest
  <2> QED
    BY <2>2, <2>3, <2>4 DEF CalmPhases
<1>12. ASSUME NEW f \in Frames, MasterStart(f)
       PROVE  CalmHistory' /\ CalmPhases'
  <2>1. Resting /\ ~ Receiving /\ rcv = "STATE_RX_IDLE"
    BY <1>12, AskEffect DEF Calm
  <2>2. /\ sent' = Append(sent, f) /\ at' = 1 /\ Len(sent) < MaxRequests
        /\ UNCHANGED <<rcv, events, poll, snd, txOn, trans, executed, answered, wrong>>
    BY <1>12 DEF MasterStart, receiver, history
  <2>3. /\ Len(sent') = Len(sent) + 1 /\ sent'[Len(sent) + 1] = f
        /\ \A n \in 1..Len(sent) : sent'[n] = sent[n]
    BY <1>1, <2>2
  <2>4. Last' = Last + 1 /\ Last' \in Requests
    BY <1>1, <2>2, <2>3, Sizes DEF Last, Requests
  <2>5. executed[Last'] = 0 /\ answered[Last'] = 0
    BY <1>1, <1>2, <2>4 DEF PatientState
  <2>6. CalmHistory'
    <3>1. ASSUME NEW n \in Requests
          PROVE  /\ executed[n] > 0 => /\ executed[n] = 1 /\ n <= Last'
                                       /\ sent'[n].good /\ sent'[n].to # "other"
                 /\ answered[n] > 0 => /\ answered[n] = 1 /\ executed[n] = 1
                                       /\ sent'[n].to = "us"
                 /\ n > Last' => executed[n] = 0
      <4>1. n <= Last => sent'[n] = sent[n]
        BY <1>1, <2>3, <3>1, Sizes DEF Last, Requests
      <4>2. executed[n] > 0 => n <= Last
        BY <1>2, <3>1
      <4>3. answered[n] > 0 => executed[n] > 0
        BY <1>2, <3>1
      <4>4. n \in Nat
        BY <3>1, Sizes DEF Requests
      <4> QED
        BY <1>1, <1>2, <2>4, <4>1, <4>2, <4>3, <4>4
    <3> QED
      BY <1>2, <2>2, <3>1 DEF CalmHistory, ExecutesWhatWasAsked, Last
  <2>7. Resting' /\ Receiving'
    BY <2>1, <2>2 DEF Resting, Receiving
  <2>8. ReceivingLast'
    <3>1. sent'[Last'] = f /\ f.len \in Nat /\ f.len > 0 /\ Last' > 0
      BY <1>1, <2>3, <2>4, ModbusAssumption DEF Last
    <3> QED
      BY <2>1, <2>2, <2>5, <3>1 DEF ReceivingLast
  <2> QED
    BY <2>6, <2>7, <2>8 DEF CalmPhases
<1>13. CASE MasterByte
  <2>1. UNCHANGED <<sent, executed, answered, wrong>>
    BY <1>13 DEF MasterByte, history
  <2> QED
    BY <1>3, <1>13, <2>1, ByteEffect DEF CalmPhases
<1>14. CASE RxPending
  BY <1>14 DEF RxPending, PatientState
<1>15. CASE T35Expired
  <2>1. /\ timer /\ at = 0 /\ rcv' = "STATE_RX_IDLE" /\ events = {}
        /\ UNCHANGED <<sent, at, buf, pos, snd, txOn, trans, executed, answered, wrong>>
    BY <1>15 DEF T35Expired, StateAfterT35, line, history, Calm
  <2>2. rcv # "STATE_RX_IDLE" /\ Resting /\ poll.pc # "start"
    BY <2>1, PhaseFacts DEF MachinesInv, PatientState
  <2>3. CalmHistory' /\ Last' = Last
    BY <1>3, <2>1
  <2>4. CASE rcv = "STATE_RX_INIT"
    <3>1. Post("EV_READY") /\ Last = 0
      BY <1>15, <2>4 DEF T35Expired, PatientState
    <3>2. \/ poll'.pc = "handle" /\ poll'.ev = "EV_READY" /\ events' = {}
          \/ poll' = poll /\ events' = {"EV_READY"}
      BY <1>1, <2>1, <3>1 DEF Post, PollType
    <3>3. Resting' /\ ~ Receiving' /\ FinishedLast'
      BY <2>1, <2>2, <2>3, <3>1, <3>2 DEF Resting, Harmless, Receiving, FinishedLast
    <3> QED
      BY <2>3, <3>3 DEF CalmPhases
  <2>5. CASE rcv = "STATE_RX_RCV"
    <3>1. Post("EV_FRAME_RECEIVED") /\ ReceivingLast
      BY <1>15, <2>2, <2>5, CalmFacts DEF T35Expired, Receiving
    <3>2. WholeRequest'
      BY <2>1, <2>3, <2>5, <3>1 DEF ReceivingLast, Arrived, BytesUpTo, WholeRequest
    <3>3. CASE poll.pc = "wait"
      <4>1. poll'.pc = "handle" /\ poll'.ev = "EV_FRAME_RECEIVED" /\ events' = {}
        BY <1>1, <2>1, <3>1, <3>3 DEF Post, PollType
      <4>2. Handling'
        BY <2>1, <2>2, <4>1 DEF Resting, Handling
      <4> QED
        BY <2>3, <3>2, <4>1, <4>2 DEF CalmPhases
    <3>4. CASE poll.pc # "wait"
      <4>1. poll' = poll /\ events' = {"EV_FRAME_RECEIVED"}
        BY <2>1, <3>1, <3>4 DEF Post
      <4>2. Received'
        BY <1>1, <2>1, <2>2, <3>4, <4>1 DEF Resting, Received, PollType
      <4> QED
        BY <2>3, <3>2, <4>1, <4>2 DEF CalmPhases
    <3> QED
      BY <3>3, <3>4
  <2>6. CASE rcv = "STATE_RX_ERROR"
    <3>1. UNCHANGED <<events, poll>> /\ ReceivingLast
      BY <1>15, <2>2, <2>6, CalmFacts DEF T35Expired, Receiving
    <3>2. Resting' /\ ~ Receiving'
      BY <2>1, <2>2, <3>1 DEF Resting, Receiving
    <3>3. sent[Last].len > PduSizeMax /\ sent[Last].len \in Nat
      <4>1. Last \in 1..Last
        BY <1>1, <3>1 DEF ReceivingLast
      <4> QED
        BY <2>1, <2>6, <3>1, <4>1, SentFrames DEF ReceivingLast, Arrived
    <3>4. ~ Contract!Serviceable(sent[Last])
      BY <3>3, Sizes DEF Contract!Serviceable, PduSizeMin
    <3> QED
      BY <2>1, <2>3, <3>2, <3>4 DEF CalmPhases, FinishedLast
  <2> QED
    BY <1>1, <2>2, <2>4, <2>5, <2>6 DEF RcvStates
<1>16. CASE UNCHANGED vars
  <2>1. UNCHANGED <<sent, at, rcv, buf, pos, events, poll, snd, txOn, trans, executed,
                    answered, wrong>>
    BY <1>16 DEF vars, line, receiver, history
  <2>2. CalmHistory' /\ Last' = Last
    BY <1>3, <2>1
  <2>3. CalmPhases'
    BY <2>1, <2>2 DEF CalmPhases, Resting, Receiving, Received, Handling, Accepted,
       Answering, Sending, Sent, ReceivingLast, WholeRequest, AcceptedRequest,
       ExecutedRequest, FinishedLast, BytesUpTo, Arrived, SentWhole
  <2> QED
    BY <2>2, <2>3
<1>17. CASE Quiet
  BY <1>16, <1>17 DEF Quiet
<1> QED
  BY <1>4, <1>5, <1>6, <1>7, <1>8, <1>9, <1>10, <1>11, <1>12, <1>13, <1>14, <1>15,
     <1>16, <1>17 DEF Next, Poll, Transmitter

LEMMA CalmInvHolds ==
    Spec => [](TypeOK /\ SourceInv /\ MachinesInv /\ PatientInv /\ CalmInv)
<1>1. Init => CalmInv
  <2> SUFFICES ASSUME Init
               PROVE  CalmHistory /\ CalmPhases
    BY DEF CalmInv
  <2>1. Last = 0 /\ poll.pc = "start" /\ \A k \in Requests : executed[k] = 0 /\ answered[k] = 0
    BY DEF Init, Last
  <2>2. CalmHistory
    BY <2>1 DEF Init, CalmHistory, ExecutesWhatWasAsked
  <2>3. Resting /\ ~ Receiving /\ FinishedLast
    BY <2>1 DEF Init, Resting, NotSending, PollHarmless, Receiving, FinishedLast
  <2> QED
    BY <2>2, <2>3 DEF CalmPhases
<1>2. TypeOK /\ SourceInv /\ MachinesInv /\ PatientInv /\ CalmInv /\ [Next]_vars => CalmInv'
  <2>1. Calm' /\ [Next]_vars => Calm
    BY ModeIsFixed DEF Calm
  <2>2. Calm => mode.patient
    BY DEF Calm
  <2> QED
    BY <2>1, <2>2, StepKeepsCalm DEF CalmInv, PatientInv
<1> QED
  BY <1>1, <1>2, PatientInvHolds, PTL DEF Spec

(***************************************************************************)
(* With a master that waits and a poll thread that is not starved, eMBPoll *)
(* executes only undamaged requests for this slave or for all, each once,  *)
(* and answers only what was addressed to it, once and unmixed, although   *)
(* requests, handlers and answers share ucRTUBuf: for every set of frames, *)
(* overlong and damaged ones included, and every buffer size.              *)
(***************************************************************************)
THEOREM RequestsAreExecutedAsAsked == Spec => []ExecutesWhatWasAsked
<1>1. CalmInv => ExecutesWhatWasAsked
  BY DEF CalmInv, CalmHistory, ExecutesWhatWasAsked, Calm
<1> QED
  BY <1>1, CalmInvHolds, PTL

\* Every step of a calm slave is a step of the contract or changes nothing of it.
LEMMA CalmStepRefines ==
    ASSUME TypeOK, SourceInv, MachinesInv, PatientInv, CalmInv, Calm, [Next]_vars
    PROVE  [Contract!Next]_(Contract!vars)
<1>1. /\ PatientState /\ PatientPhases /\ CalmPhases /\ mode.patient /\ mode' = mode
      /\ sent \in Seq(Frames) /\ Last \in Nat
  BY ModeIsFixed DEF PatientInv, CalmInv, Calm, TypeOK, Last
<1>2. Calm' /\ Contract!Last = Last
  BY <1>1 DEF Calm, Contract!Last, Last
<1>3. ASSUME UNCHANGED <<sent, executed, answered, wrong>>
      PROVE  UNCHANGED Contract!vars
  BY <1>2, <1>3 DEF Contract!vars
<1>4. CASE Execute
  <2>1. /\ AcceptedRequest /\ executed' = [executed EXCEPT ![Last] = 1]
        /\ UNCHANGED <<sent, answered, wrong>>
    BY <1>1, <1>4, ExecuteEffect
  <2>2. sent # << >> /\ executed[Last] = 0
    BY <2>1 DEF AcceptedRequest, WholeRequest, Last
  <2>3. Contract!Serviceable(sent[Last])
    <3>1. poll.len \in 0..(PduSizeMax - 1 - CrcSize)
      BY DEF TypeOK
    <3>2. sent[Last].len \in PduSizeMin..PduSizeMax
      BY <2>1, <3>1, Sizes DEF AcceptedRequest, PduSizeMin
    <3> QED
      BY <2>1, <3>2 DEF AcceptedRequest, Contract!Serviceable
  <2>4. Contract!CarryOut
    BY <1>2, <2>1, <2>2, <2>3 DEF Contract!CarryOut
  <2> QED
    BY <2>4 DEF Contract!Next
<1>5. CASE TransmitFSM
  <2>1. /\ ExecutedRequest /\ answered[Last] = 0 /\ UNCHANGED <<sent, executed, wrong>>
        /\ answered' = answered \/ answered' = [answered EXCEPT ![Last] = 1]
    BY <1>1, <1>5, TransmitEffect
  <2>2. sent # << >> /\ sent[Last].to = "us" /\ executed[Last] = 1
    BY <2>1 DEF ExecutedRequest, Last
  <2>3. CASE answered' = answered
    BY <1>3, <2>1, <2>3
  <2>4. CASE answered' = [answered EXCEPT ![Last] = 1]
    <3>1. Contract!Reply
      BY <1>2, <2>1, <2>2, <2>4 DEF Contract!Reply
    <3> QED
      BY <3>1 DEF Contract!Next
  <2> QED
    BY <2>1, <2>3, <2>4
<1>6. ASSUME NEW f \in Frames, MasterStart(f)
      PROVE  Contract!Next
  <2>1. FinishedLast
    BY <1>1, <1>6, AskEffect
  <2>2. /\ sent' = Append(sent, f) /\ Len(sent) < MaxRequests
        /\ UNCHANGED <<executed, answered, wrong>>
    BY <1>6 DEF MasterStart, history
  <2>3. sent # << >> => Last > 0
    BY <1>1 DEF Last
  <2>4. Contract!Finished
    BY <1>2, <2>1, <2>3 DEF Contract!Finished, FinishedLast
  <2>5. Contract!Ask
    BY <1>2, <2>2, <2>4 DEF Contract!Ask, Last
  <2> QED
    BY <2>5 DEF Contract!Next
<1>7. CASE \/ Start \/ PollGet \/ HandleOther \/ Receive \/ Send \/ TransmitterIdle
           \/ MasterByte \/ RxPending \/ T35Expired \/ Quiet \/ UNCHANGED vars
  <2>1. UNCHANGED <<sent, executed, answered, wrong>>
    BY <1>7 DEF Start, PollGet, HandleOther, Receive, Send, TransmitterIdle, MasterByte,
                RxPending, T35Expired, Quiet, vars, line, history
  <2> QED
    BY <1>3, <2>1
<1> QED
  BY <1>4, <1>5, <1>6, <1>7 DEF Next, Poll, Transmitter

(***************************************************************************)
(* Interrupts, timer, event set, shared buffer and the two threads do only *)
(* what the contract of RequestAnswer allows: with a master that waits and *)
(* a poll thread that is not starved, requests are carried out and then    *)
(* answered one after the other, each once.  (That the slave does carry    *)
(* them out is the part that TLC checks.)                                  *)
(***************************************************************************)
THEOREM ModbusRTURefinesRequestAnswer == Spec => Contract!Safety
<1>1. Init => Contract!Init
  BY DEF Init, Contract!Init, Nobody, Requests, Contract!Requests
<1>2. TypeOK /\ SourceInv /\ MachinesInv /\ PatientInv /\ CalmInv /\ [Next]_vars
        => [Contract!Next]_(Contract!vars)
  <2>1. ~ Calm /\ [Next]_vars => UNCHANGED Contract!vars
    BY ModeIsFixed DEF Calm, Contract!vars
  <2> QED
    BY <2>1, CalmStepRefines
<1> QED
  BY <1>1, <1>2, CalmInvHolds, PTL DEF Spec, Contract!Safety
=============================================================================
