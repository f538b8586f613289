---------------------------- MODULE FunctionCodes ----------------------------
(***************************************************************************)
(* What the Modbus slave does with a request for it: the function handlers *)
(* of mbfunc*.c, chosen by eMBPoll, and the callbacks of user_mb_app.c on  *)
(* the holding registers and coils.                                        *)
(*                                                                         *)
(* The poll thread runs at priority 22, below every thread that stores     *)
(* into the holding registers.  They may run between any two bytes that    *)
(* eMBRegHoldingCB loads or stores, so each byte is an action.             *)
(***************************************************************************)
EXTENDS Integers, Sequences

CONSTANTS
  NHold,       \* S_REG_HOLDING_NREGS (3080)
  NInput,      \* S_REG_INPUT_NREGS (120)
  NCoils,      \* S_COIL_NCOILS (64)
  NDisc,       \* S_DISCRETE_INPUT_NDISCRETES (16)
  Stored,      \* the holding registers kept in the model; the others stay 0
  HostRequests,\* the requests of the host
  MaxRequests  \* bound: requests in a behaviour

(* A request: function code, length of the PDU, the address and count of    *)
(* what is read or written, and the byte count and values as they stand in  *)
(* ucRTUBuf, the bytes behind the end of a short PDU included.  Read/write  *)
(* requests (23) write at waddr, wcount.  Coil values are sets of bits.     *)
UShort == 0 .. 65535

ASSUME FunctionCodesAssumption ==
  /\ {NHold, NInput, NCoils, NDisc, MaxRequests} \subseteq Nat
  /\ Stored \subseteq 0 .. (NHold - 1)
  /\ \A r \in HostRequests :
       /\ r.fc \in 1 .. 127 /\ r.len \in 1 .. 253
       /\ {r.addr, r.count, r.waddr, r.wcount} \subseteq UShort
       /\ r.nbytes \in 0 .. 255

VARIABLES
  hold,     \* usSRegHoldBuf
  coils,    \* the bits of ucSCoilBuf that are 1
  host,     \* the request being carried out and how far it is
  answer,   \* the last answer, until something happens after it
  served,   \* bound: requests taken
  want      \* history: the coils as the host's requests asked for them

slaveVars == <<hold, coils, host, answer, served, want>>

NoAnswer == [to |-> {}, ex |-> 0, words |-> <<>>, calm |-> TRUE, stored |-> FALSE]
Idle     == [pc |-> "idle", req |-> {}, k |-> 0, bytes |-> <<>>, calm |-> TRUE]

Register(a)   == IF a \in Stored THEN hold[a] ELSE 0
Put(h, a, w)  == IF a \in Stored THEN [h EXCEPT ![a] = w] ELSE h

SlaveInit ==
  /\ coils = {} /\ want = {}
  /\ host = Idle /\ answer = NoAnswer /\ served = 0

-----------------------------------------------------------------------------
(* The checks *)

IllegalFunction == 1
IllegalAddress  == 2
IllegalValue    == 3

(* A plausible slip: the sum is taken in a USHORT. *)
ExistWrapping(addr, count, n) ==
  LET usAddress == (((addr + 1) % 65536) + 65535) % 65536
  IN  usAddress >= 0 /\ (usAddress + count) % 65536 <= n

(* Another: one item too many passes. *)
ExistOneOver(addr, count, n) == addr + count <= n + 1

(* The test in every callback.  The handler has added 1 to the address, the *)
(* callback subtracts it, both in a USHORT; the sum is an int.              *)
Exist(addr, count, n) ==
  LET usAddress == (((addr + 1) % 65536) + 65535) % 65536
  IN  usAddress >= 0 /\ usAddress + count <= n

(* The callbacks, when they only look: what prveMBError2Exception makes of  *)
(* their result.                                                            *)
Looked(addr, count, n) == IF Exist(addr, count, n) THEN 0 ELSE IllegalAddress

eMBRegInputCB(addr, count)    == Looked(addr, count, NInput)
eMBRegHoldingCB(addr, count)  == Looked(addr, count, NHold)
eMBRegCoilsCB(addr, count)    == Looked(addr, count, NCoils)
eMBRegDiscreteCB(addr, count) == Looked(addr, count, NDisc)

CoilBytes(n) == (n + 7) \div 8

(* The handlers: the exception each returns before it has done anything, 0  *)
(* if none.  They check the length, the count or value, then the address.   *)
eMBFuncReadCoils(r) ==
  IF r.len # 5 \/ r.count < 1 \/ r.count >= 2000 THEN IllegalValue
  ELSE eMBRegCoilsCB(r.addr, r.count)

eMBFuncReadDiscreteInputs(r) ==
  IF r.len # 5 \/ r.count < 1 \/ r.count >= 2000 THEN IllegalValue
  ELSE eMBRegDiscreteCB(r.addr, r.count)

eMBFuncReadHoldingRegister(r) ==
  IF r.len # 5 \/ r.count < 1 \/ r.count > 125 THEN IllegalValue
  ELSE eMBRegHoldingCB(r.addr, r.count)

eMBFuncReadInputRegister(r) ==
  IF r.len # 5 \/ r.count < 1 \/ r.count >= 125 THEN IllegalValue
  ELSE eMBRegInputCB(r.addr, r.count)

(* FF00 and 0000 are the values allowed; they stand as {0} and {} in data. *)
eMBFuncWriteCoil(r) ==
  IF r.len # 5 \/ r.data[1] \notin {{0}, {}} THEN IllegalValue
  ELSE eMBRegCoilsCB(r.addr, 1)

eMBFuncWriteHoldingRegister(r) ==
  IF r.len # 5 THEN IllegalValue ELSE eMBRegHoldingCB(r.addr, 1)

eMBFuncWriteMultipleCoils(r) ==
  IF r.len < 6 \/ r.count \notin 1 .. 1968 \/ r.nbytes # CoilBytes(r.count) % 256
    THEN IllegalValue
  ELSE eMBRegCoilsCB(r.addr, r.count)

eMBFuncWriteMultipleHoldingRegister(r) ==
  IF r.len < 6 \/ r.count \notin 1 .. 120 \/ r.nbytes # (2 * r.count) % 256
    THEN IllegalValue
  ELSE eMBRegHoldingCB(r.addr, r.count)

(* MB_EX_NONE for a PDU that is too short: the request goes back as its     *)
(* answer, and nothing is done.                                             *)
SentBack(r) == r.fc = 23 /\ r.len < 10

eMBFuncReadWriteMultipleHoldingRegister(r) ==
  IF SentBack(r) THEN 0
  ELSE IF r.count \notin 1 .. 125 \/ r.wcount \notin 1 .. 121 \/ r.nbytes # 2 * r.wcount
    THEN IllegalValue
  ELSE eMBRegHoldingCB(r.waddr, r.wcount)

(* The handler that eMBPoll finds in xFuncHandlers. *)
Exception(r) ==
  CASE r.fc = 1  -> eMBFuncReadCoils(r)
    [] r.fc = 2  -> eMBFuncReadDiscreteInputs(r)
    [] r.fc = 3  -> eMBFuncReadHoldingRegister(r)
    [] r.fc = 4  -> eMBFuncReadInputRegister(r)
    [] r.fc = 5  -> eMBFuncWriteCoil(r)
    [] r.fc = 6  -> eMBFuncWriteHoldingRegister(r)
    [] r.fc = 15 -> eMBFuncWriteMultipleCoils(r)
    [] r.fc = 16 -> eMBFuncWriteMultipleHoldingRegister(r)
    [] r.fc = 17 -> 0
    [] r.fc = 23 -> eMBFuncReadWriteMultipleHoldingRegister(r)
    [] OTHER -> IllegalFunction

-----------------------------------------------------------------------------
(* Coils *)

(* A plausible slip: the bits are only set, never cleared. *)
xMBUtilSetBitsOnly(bits, off, n, value) == bits \cup {off + j : j \in value}

(* xMBUtilSetBits: n bits from off on become those of value.  Bits of value *)
(* beyond the n-th are or-ed in too.                                        *)
xMBUtilSetBits(bits, off, n, value) ==
  (bits \ (off .. (off + n - 1))) \cup {off + j : j \in value}

(* eMBRegCoilsCB, MB_REG_WRITE: whole bytes, then what is left. *)
WrittenCoils(addr, count, data) ==
  LET after[b \in 0 .. (count \div 8)] ==
        IF b = 0 THEN coils
                 ELSE xMBUtilSetBits(after[b - 1], addr + 8 * (b - 1), 8, data[b])
      whole == after[count \div 8]
  IN  IF count % 8 = 0 THEN whole
      ELSE xMBUtilSetBits(whole, addr + 8 * (count \div 8), count % 8,
                          data[(count \div 8) + 1])

(* eMBRegCoilsCB, MB_REG_READ: one byte more than the whole ones, the bits  *)
(* behind the last coil zeroed; what the answer has room for is sent.       *)
ReadCoils(addr, count) ==
  [b \in 1 .. CoilBytes(count) |->
     LET last == IF b = (count \div 8) + 1 THEN (count % 8) - 1 ELSE 7
     IN  {j \in 0 .. last : addr + 8 * (b - 1) + j \in coils}]

(* 5 writes one coil. *)
CoilCount(r) == IF r.fc = 5 THEN 1 ELSE r.count

(* History: each addressed coil as its own bit of the request says. *)
AskedCoils(r) ==
  {c \in want : c < r.addr \/ c >= r.addr + CoilCount(r)}
    \cup {c \in r.addr .. (r.addr + CoilCount(r) - 1) :
             (c - r.addr) % 8 \in r.data[((c - r.addr) \div 8) + 1]}

-----------------------------------------------------------------------------
(* eMBPoll, EV_EXECUTE *)

Answered(r, ex, words, calm, stored) ==
  answer' = [to |-> {r}, ex |-> ex, words |-> words, calm |-> calm, stored |-> stored]

WritesWords(r) == r.fc \in {6, 16, 23}
ReadsWords(r)  == r.fc \in {3, 23}

(* Requests that are over at once: refused, sent back, and those that touch *)
(* only what no other thread does: input registers and discrete inputs,     *)
(* which stay 0 (so that their values are left out), the coils, and the     *)
(* slave id, which nobody sets and which is empty.                          *)
AnswerAtOnce(r) ==
  /\ \/ /\ SentBack(r)
        /\ Answered(r, 0, <<>>, TRUE, FALSE)
        /\ UNCHANGED <<coils, want>>
     \/ /\ ~ SentBack(r) /\ Exception(r) # 0
        /\ Answered(r, Exception(r), <<>>, TRUE, FALSE)
        /\ UNCHANGED <<coils, want>>
     \/ /\ Exception(r) = 0 /\ r.fc \in {2, 4, 17}
        /\ Answered(r, 0, <<>>, TRUE, FALSE)
        /\ UNCHANGED <<coils, want>>
     \/ /\ Exception(r) = 0 /\ r.fc = 1
        /\ Answered(r, 0, ReadCoils(r.addr, r.count), TRUE, FALSE)
        /\ UNCHANGED <<coils, want>>
     \/ /\ Exception(r) = 0 /\ r.fc \in {5, 15}
        /\ coils' = WrittenCoils(r.addr, CoilCount(r), r.data)
        /\ want' = AskedCoils(r)
        /\ Answered(r, 0, <<>>, TRUE, TRUE)
  /\ UNCHANGED host

(* Requests that go through eMBRegHoldingCB byte by byte. *)
Begin(r) ==
  /\ ~ SentBack(r) /\ Exception(r) = 0 /\ (WritesWords(r) \/ ReadsWords(r))
  /\ host' = [Idle EXCEPT !.pc = IF WritesWords(r) THEN "store" ELSE "load", !.req = {r}]
  /\ answer' = NoAnswer
  /\ UNCHANGED <<coils, want>>

TakeRequest(r) ==
  /\ host.pc = "idle" /\ served < MaxRequests
  /\ served' = served + 1
  /\ AnswerAtOnce(r) \/ Begin(r)
  /\ UNCHANGED hold

Current == CHOOSE r \in host.req : TRUE

WriteAddr(r)  == IF r.fc = 23 THEN r.waddr ELSE r.addr
WriteCount(r) == IF r.fc = 6 THEN 1 ELSE IF r.fc = 23 THEN r.wcount ELSE r.count

(* The values a request carries are what the bytes of ucRTUBuf mean: words  *)
(* for registers, eight bits each for coils.                                *)
ASSUME HostDataAssumption ==
  \A r \in HostRequests :
    /\ WritesWords(r) => \A j \in 1 .. WriteCount(r) : r.data[j] \in UShort
    /\ r.fc \in {5, 15} => \A b \in 1 .. CoilBytes(CoilCount(r)) : r.data[b] \subseteq 0 .. 7

(* A plausible slip: the low byte replaces the register. *)
StoredByteReplacing(a, k, w) ==
  IF k % 2 = 0 THEN 256 * (w \div 256) ELSE w % 256

(* x | y for bytes, bit by bit. *)
OrBit(x, y, p) == IF (x \div p) % 2 = 1 \/ (y \div p) % 2 = 1 THEN p ELSE 0
Or(x, y) ==
  OrBit(x, y, 1) + OrBit(x, y, 2) + OrBit(x, y, 4) + OrBit(x, y, 8)
    + OrBit(x, y, 16) + OrBit(x, y, 32) + OrBit(x, y, 64) + OrBit(x, y, 128)

(* MB_REG_WRITE: the high byte, which zeroes the low one, then the low byte *)
(* or-ed into what the register holds by then.                              *)
StoredByte(a, k, w) ==
  IF k % 2 = 0 THEN 256 * (w \div 256)
               ELSE 256 * (Register(a) \div 256) + Or(Register(a) % 256, w % 256)

(* The last byte is stored: the answer, or for 23 the read, if it may be. *)
AfterStores(r) ==
  \/ /\ ~ ReadsWords(r)
     /\ host' = Idle /\ Answered(r, 0, <<>>, host.calm, TRUE)
  \/ /\ ReadsWords(r) /\ Exist(r.addr, r.count, NHold)
     /\ host' = [host EXCEPT !.pc = "load", !.k = 0] /\ UNCHANGED answer
  \/ /\ ReadsWords(r) /\ ~ Exist(r.addr, r.count, NHold)
     /\ host' = Idle /\ Answered(r, IllegalAddress, <<>>, host.calm, TRUE)

StoreByte ==
  /\ host.pc = "store"
  /\ LET r == Current
         a == WriteAddr(r) + host.k \div 2 IN
     /\ hold' = Put(hold, a, StoredByte(a, host.k, r.data[(host.k \div 2) + 1]))
     /\ IF host.k + 1 < 2 * WriteCount(r)
          THEN host' = [host EXCEPT !.k = @ + 1] /\ UNCHANGED answer
          ELSE AfterStores(r)
  /\ UNCHANGED <<coils, served, want>>

(* A plausible slip: the bytes of a register are put in the wrong order. *)
LoadedByteSwapped(k, w) == IF k % 2 = 0 THEN w % 256 ELSE w \div 256

(* MB_REG_READ: the high byte, then the low one, each loaded anew. *)
LoadedByte(k, w) == IF k % 2 = 0 THEN w \div 256 ELSE w % 256

(* What the host makes of the bytes. *)
WordsOf(bytes) ==
  [j \in 1 .. (Len(bytes) \div 2) |-> 256 * bytes[2 * j - 1] + bytes[2 * j]]

LoadByte ==
  /\ host.pc = "load"
  /\ LET r == Current
         bytes == Append(host.bytes, LoadedByte(host.k, Register(r.addr + host.k \div 2))) IN
     IF host.k + 1 < 2 * r.count
       THEN host' = [host EXCEPT !.k = @ + 1, !.bytes = bytes] /\ UNCHANGED answer
       ELSE host' = Idle /\ Answered(r, 0, WordsOf(bytes), host.calm, WritesWords(r))
  /\ UNCHANGED <<hold, coils, served, want>>

SlaveNext == (\E r \in HostRequests : TakeRequest(r)) \/ StoreByte \/ LoadByte

-----------------------------------------------------------------------------
(* Properties of the slave *)

(* The items a request addresses exist, as the Modbus specification says:   *)
(* addresses do not wrap.                                                   *)
AllExist(addr, count, n) == \A a \in addr .. (addr + count - 1) : a < n

(* What a request addresses first, and in how many items. *)
FirstRange(r) ==
  CASE r.fc \in {1, 15} -> <<r.addr, r.count, NCoils>>
    [] r.fc = 5 -> <<r.addr, 1, NCoils>>
    [] r.fc = 2 -> <<r.addr, r.count, NDisc>>
    [] r.fc = 3 -> <<r.addr, r.count, NHold>>
    [] r.fc = 4 -> <<r.addr, r.count, NInput>>
    [] r.fc = 6 -> <<r.addr, 1, NHold>>
    [] r.fc = 16 -> <<r.addr, r.count, NHold>>
    [] r.fc = 23 -> <<r.waddr, r.wcount, NHold>>
    [] OTHER -> <<0, 0, 0>>

(* A request is refused with "illegal data address" exactly if something it *)
(* names does not exist, whatever address and count it carries; and a       *)
(* refusal has stored nothing, except that 23 writes before it finds out    *)
(* that it cannot read.                                                     *)
RefusedIfAbsent ==
  \A r \in answer.to :
    /\ answer.ex \in {0, IllegalAddress} /\ ~ SentBack(r) /\ r.fc # 17 =>
         (answer.ex = 0 <=>
            /\ AllExist(FirstRange(r)[1], FirstRange(r)[2], FirstRange(r)[3])
            /\ r.fc = 23 => AllExist(r.addr, r.count, NHold))
    /\ answer.ex # 0 /\ answer.stored => r.fc = 23

(* The PDU carries as many values as it says. *)
Complete(r) ==
  /\ r.fc = 16 => r.len = 6 + r.nbytes
  /\ r.fc = 23 => r.len = 10 + r.nbytes

(* When a request is acknowledged and no other thread stored anything in    *)
(* the meantime, the registers hold what the host wrote, both bytes of      *)
(* every word, and the host got what the registers and coils hold, in as    *)
(* many bytes as it takes and with zeros behind the last coil.              *)
AnswersAreTrue ==
  \A r \in answer.to :
    answer.ex = 0 /\ answer.calm /\ ~ SentBack(r) =>
      /\ WritesWords(r) /\ Complete(r) =>
           \A j \in 1 .. WriteCount(r) :
             WriteAddr(r) + j - 1 \in Stored => Register(WriteAddr(r) + j - 1) = r.data[j]
      /\ ReadsWords(r) =>
           /\ Len(answer.words) = r.count
           /\ \A j \in 1 .. r.count : answer.words[j] = Register(r.addr + j - 1)
      /\ r.fc = 1 =>
           {p \in (1 .. CoilBytes(r.count)) \X (0 .. 7) : p[2] \in answer.words[p[1]]}
             = {<<(c \div 8) + 1, c % 8>> : c \in {c \in 0 .. (r.count - 1) : r.addr + c \in coils}}

(* A host that sends zeros in the unused bits of the last byte of coils, in *)
(* the requests that are not refused.                                       *)
UnusedBitsAreZero ==
  \A r \in HostRequests : r.fc = 15 /\ Exception(r) = 0 /\ r.count % 8 # 0 =>
    r.data[(r.count \div 8) + 1] \subseteq 0 .. ((r.count % 8) - 1)

(* The coils are as the host asked, through writes of any number of coils   *)
(* at any offset, if UnusedBitsAreZero.                                     *)
CoilsAsAsked == coils = want
=============================================================================
