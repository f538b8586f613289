------------------------- MODULE FunctionCodesProofs -------------------------
(***************************************************************************)
(* What the function handlers and the callbacks guarantee, step by step,   *)
(* for every size of the register map and every set of requests.  The      *)
(* theorems about behaviours are in HostViewProofs, where the other        *)
(* threads run as well.                                                    *)
(***************************************************************************)
EXTENDS FunctionCodes, WellFoundedInduction, TLAPS

-----------------------------------------------------------------------------
(* Requests that pass the checks *)

(* 16-bit numbers, without expanding the range.  (The provers enumerate a   *)
(* range between two numerals.)                                             *)
LEMMA UShortRange == \A w : w \in UShort <=> w \in Nat /\ w <= 65535
<1>1. ASSUME NEW n \in Nat
      PROVE  \A w : w \in 0 .. n <=> w \in Nat /\ w <= n
  BY SMT
<1> DEFINE n == 65535
<1>2. n \in Nat /\ UShort = 0 .. n
  BY DEF UShort
<1> HIDE DEF n
<1>3. \A w : w \in UShort <=> w \in Nat /\ w <= n
  BY <1>1, <1>2
<1> QED
  BY <1>3 DEF n

LEMMA IsUShort ==
  ASSUME NEW w \in Nat, w <= 65535
  PROVE  w \in UShort
BY UShortRange

LEMMA UShortIs ==
  ASSUME NEW w \in UShort
  PROVE  w \in Nat /\ w <= 65535
BY UShortRange

(* Adding 1 in the handler and subtracting it in the callback, both in a    *)
(* USHORT, loses nothing, and the sum that is compared does not wrap.       *)
LEMMA ExistMeansAll ==
  ASSUME NEW addr \in UShort, NEW count \in Nat \ {0}, NEW n \in Nat
  PROVE  /\ Exist(addr, count, n) <=> addr + count <= n
         /\ AllExist(addr, count, n) <=> addr + count <= n
<1>1. addr \in Nat /\ addr <= 65535
  BY UShortIs
<1>2. (((addr + 1) % 65536) + 65535) % 65536 = addr
  <2>1. CASE addr = 65535
    BY <2>1, SMT
  <2>2. CASE addr < 65535
    <3>1. (addr + 1) % 65536 = addr + 1
      BY <1>1, <2>2, SMT
    <3>2. (addr + 1 + 65535) % 65536 = addr
      BY <1>1, <2>2, SMT
    <3> QED
      BY <3>1, <3>2, SMT
  <2> QED
    BY <1>1, <2>1, <2>2, SMT
<1>3. Exist(addr, count, n) <=> addr + count <= n
  BY <1>1, <1>2, SMT DEF Exist
<1>4. AllExist(addr, count, n) <=> addr + count <= n
  <2>1. addr + count - 1 \in addr .. (addr + count - 1)
    BY <1>1, SMT
  <2> QED
    BY <1>1, <2>1, SMT DEF AllExist
<1> QED
  BY <1>3, <1>4

(* The fields of a request and the sizes of the map are numbers. *)
LEMMA Sizes == NHold \in Nat /\ NInput \in Nat /\ NCoils \in Nat /\ NDisc \in Nat
BY FunctionCodesAssumption, SMT

LEMMA Numbers ==
  ASSUME NEW r \in HostRequests
  PROVE  /\ r.addr \in UShort /\ r.waddr \in UShort
         /\ r.count \in Nat /\ r.wcount \in Nat /\ r.nbytes \in Nat
<1>1. {r.addr, r.count, r.waddr, r.wcount} \subseteq UShort /\ r.nbytes \in 0 .. 255
  BY FunctionCodesAssumption
<1>2. /\ r.addr \in UShort /\ r.waddr \in UShort
      /\ r.count \in UShort /\ r.wcount \in UShort
  BY <1>1
<1>3. \A n \in UShort : n \in Nat
  BY UShortIs
<1> QED
  BY <1>1, <1>2, <1>3, SMT

(* eMBPoll finds the handler of the function code. *)
LEMMA HandlerOf ==
  ASSUME NEW r \in HostRequests
  PROVE  /\ r.fc = 1 => Exception(r) = eMBFuncReadCoils(r)
         /\ r.fc = 2 => Exception(r) = eMBFuncReadDiscreteInputs(r)
         /\ r.fc = 3 => Exception(r) = eMBFuncReadHoldingRegister(r)
         /\ r.fc = 4 => Exception(r) = eMBFuncReadInputRegister(r)
         /\ r.fc = 5 => Exception(r) = eMBFuncWriteCoil(r)
         /\ r.fc = 6 => Exception(r) = eMBFuncWriteHoldingRegister(r)
         /\ r.fc = 15 => Exception(r) = eMBFuncWriteMultipleCoils(r)
         /\ r.fc = 16 => Exception(r) = eMBFuncWriteMultipleHoldingRegister(r)
         /\ r.fc = 17 => Exception(r) = 0
         /\ r.fc = 23 => Exception(r) = eMBFuncReadWriteMultipleHoldingRegister(r)
         /\ r.fc \notin {1, 2, 3, 4, 5, 6, 15, 16, 17, 23} => Exception(r) = IllegalFunction
BY SMT DEF Exception

(* Whatever the first range of a request is, it has at least one item when  *)
(* the handler has reached the check of the address.                        *)
LEMMA FirstRangeChecked ==
  ASSUME NEW r \in HostRequests, ~ SentBack(r), r.fc # 17,
         Exception(r) \in {0, IllegalAddress}
  PROVE  /\ FirstRange(r)[1] \in UShort /\ FirstRange(r)[2] \in Nat \ {0}
         /\ FirstRange(r)[3] \in Nat
         /\ Exception(r) = Looked(FirstRange(r)[1], FirstRange(r)[2], FirstRange(r)[3])
<1>1. /\ r.addr \in UShort /\ r.waddr \in UShort /\ r.count \in Nat /\ r.wcount \in Nat
      /\ NHold \in Nat /\ NInput \in Nat /\ NCoils \in Nat /\ NDisc \in Nat
  BY Numbers, Sizes
<1>2. CASE r.fc = 1
  <2>1. FirstRange(r) = <<r.addr, r.count, NCoils>>
    BY <1>2, SMT DEF FirstRange
  <2>2. r.count > 0 /\ Exception(r) = Looked(r.addr, r.count, NCoils)
    BY <1>1, <1>2, HandlerOf, SMT DEF eMBFuncReadCoils, eMBRegCoilsCB, IllegalValue, IllegalAddress
  <2> QED
    BY <1>1, <2>1, <2>2, SMT
<1>3. CASE r.fc = 2
  <2>1. FirstRange(r) = <<r.addr, r.count, NDisc>>
    BY <1>3, SMT DEF FirstRange
  <2>2. r.count > 0 /\ Exception(r) = Looked(r.addr, r.count, NDisc)
    BY <1>1, <1>3, HandlerOf, SMT DEF eMBFuncReadDiscreteInputs, eMBRegDiscreteCB, IllegalValue, IllegalAddress
  <2> QED
    BY <1>1, <2>1, <2>2, SMT
<1>4. CASE r.fc = 3
  <2>1. FirstRange(r) = <<r.addr, r.count, NHold>>
    BY <1>4, SMT DEF FirstRange
  <2>2. r.count > 0 /\ Exception(r) = Looked(r.addr, r.count, NHold)
    BY <1>1, <1>4, HandlerOf, SMT DEF eMBFuncReadHoldingRegister, eMBRegHoldingCB, IllegalValue, IllegalAddress
  <2> QED
    BY <1>1, <2>1, <2>2, SMT
<1>5. CASE r.fc = 4
  <2>1. FirstRange(r) = <<r.addr, r.count, NInput>>
    BY <1>5, SMT DEF FirstRange
  <2>2. r.count > 0 /\ Exception(r) = Looked(r.addr, r.count, NInput)
    BY <1>1, <1>5, HandlerOf, SMT DEF eMBFuncReadInputRegister, eMBRegInputCB, IllegalValue, IllegalAddress
  <2> QED
    BY <1>1, <2>1, <2>2, SMT
<1>6. CASE r.fc = 5
  <2>1. FirstRange(r) = <<r.addr, 1, NCoils>>
    BY <1>6, SMT DEF FirstRange
  <2>2. Exception(r) = Looked(r.addr, 1, NCoils)
    BY <1>1, <1>6, HandlerOf, SMT DEF eMBFuncWriteCoil, eMBRegCoilsCB, IllegalValue, IllegalAddress
  <2> QED
    BY <1>1, <2>1, <2>2, SMT
<1>7. CASE r.fc = 6
  <2>1. FirstRange(r) = <<r.addr, 1, NHold>>
    BY <1>7, SMT DEF FirstRange
  <2>2. Exception(r) = Looked(r.addr, 1, NHold)
    BY <1>1, <1>7, HandlerOf, SMT DEF eMBFuncWriteHoldingRegister, eMBRegHoldingCB, IllegalValue, IllegalAddress
  <2> QED
    BY <1>1, <2>1, <2>2, SMT
<1>8. CASE r.fc = 15
  <2>1. FirstRange(r) = <<r.addr, r.count, NCoils>>
    BY <1>8, SMT DEF FirstRange
  <2>2. ASSUME NEW count, count = r.count, NEW nbytes, nbytes = r.nbytes,
               NEW len, len = r.len
        PROVE  count > 0 /\ Exception(r) = Looked(r.addr, count, NCoils)
    <3>1. Exception(r) = IF len < 6 \/ count \notin 1 .. 1968
                             \/ nbytes # CoilBytes(count) % 256
                         THEN IllegalValue ELSE Looked(r.addr, count, NCoils)
      BY <1>8, <2>2, HandlerOf, SMTT(30) DEF eMBFuncWriteMultipleCoils, eMBRegCoilsCB
    <3> QED
      BY <3>1, SMTT(30) DEF IllegalValue, IllegalAddress
  <2>3. r.count > 0 /\ Exception(r) = Looked(r.addr, r.count, NCoils)
    BY <2>2
  <2> QED
    BY <1>1, <2>1, <2>3, SMT
<1>9. CASE r.fc = 16
  <2>1. FirstRange(r) = <<r.addr, r.count, NHold>>
    BY <1>9, SMT DEF FirstRange
  <2>2. r.count > 0 /\ Exception(r) = Looked(r.addr, r.count, NHold)
    BY <1>1, <1>9, HandlerOf, SMT DEF eMBFuncWriteMultipleHoldingRegister, eMBRegHoldingCB, IllegalValue, IllegalAddress
  <2> QED
    BY <1>1, <2>1, <2>2, SMT
<1>10. CASE r.fc = 23
  <2>1. FirstRange(r) = <<r.waddr, r.wcount, NHold>>
    BY <1>10, SMT DEF FirstRange
  <2>2. r.wcount > 0 /\ Exception(r) = Looked(r.waddr, r.wcount, NHold)
    BY <1>1, <1>10, HandlerOf, SMT DEF eMBFuncReadWriteMultipleHoldingRegister, eMBRegHoldingCB, IllegalValue, IllegalAddress
  <2> QED
    BY <1>1, <2>1, <2>2, SMT
<1> QED
  BY <1>2, <1>3, <1>4, <1>5, <1>6, <1>7, <1>8, <1>9, <1>10, HandlerOf, SMT
     DEF IllegalFunction, IllegalAddress

(* A handler refuses the address exactly if something does not exist. *)
LEMMA RefusalIsRight ==
  ASSUME NEW r \in HostRequests, ~ SentBack(r), r.fc # 17,
         Exception(r) \in {0, IllegalAddress}
  PROVE  Exception(r) = 0 <=>
           AllExist(FirstRange(r)[1], FirstRange(r)[2], FirstRange(r)[3])
BY FirstRangeChecked, ExistMeansAll, SMT DEF Looked, IllegalAddress

(* What an accepted request on holding registers says. *)
LEMMA AcceptedWords ==
  ASSUME NEW r \in HostRequests, ~ SentBack(r), Exception(r) = 0
  PROVE  /\ WritesWords(r) => /\ WriteAddr(r) \in UShort /\ WriteCount(r) \in Nat \ {0}
                              /\ WriteAddr(r) + WriteCount(r) <= NHold
         /\ ReadsWords(r) => r.count \in Nat \ {0} /\ r.addr \in UShort
         /\ r.fc = 3 => r.addr + r.count <= NHold
         /\ r.fc \in {1, 5, 15} => /\ r.addr \in UShort /\ CoilCount(r) \in Nat \ {0}
                                   /\ r.addr + CoilCount(r) <= NCoils
<1>1. r.fc # 17 =>
        /\ FirstRange(r)[1] \in UShort /\ FirstRange(r)[2] \in Nat \ {0}
        /\ FirstRange(r)[1] + FirstRange(r)[2] <= FirstRange(r)[3]
  BY FirstRangeChecked, ExistMeansAll, SMT DEF Looked, IllegalAddress
<1>2. ReadsWords(r) => r.count \in Nat \ {0} /\ r.addr \in UShort
  <2>1. r.count \in Nat /\ r.addr \in UShort
    BY Numbers, Sizes
  <2>2. CASE r.fc = 3
    BY <2>1, <2>2, HandlerOf, SMT DEF eMBFuncReadHoldingRegister, IllegalValue
  <2>3. CASE r.fc = 23
    BY <2>1, <2>3, HandlerOf, SMT DEF eMBFuncReadWriteMultipleHoldingRegister, IllegalValue
  <2> QED
    BY <2>2, <2>3, SMT DEF ReadsWords
<1>3. /\ r.fc = 6 => FirstRange(r) = <<r.addr, 1, NHold>>
      /\ r.fc \in {3, 16} => FirstRange(r) = <<r.addr, r.count, NHold>>
      /\ r.fc = 23 => FirstRange(r) = <<r.waddr, r.wcount, NHold>>
      /\ r.fc \in {1, 5, 15} => FirstRange(r) = <<r.addr, CoilCount(r), NCoils>>
  BY SMT DEF FirstRange, CoilCount
<1>4. WritesWords(r) => FirstRange(r) = <<WriteAddr(r), WriteCount(r), NHold>> /\ r.fc # 17
  BY <1>3, SMT DEF WritesWords, WriteAddr, WriteCount
<1>5. WritesWords(r) => /\ WriteAddr(r) \in UShort /\ WriteCount(r) \in Nat \ {0}
                        /\ WriteAddr(r) + WriteCount(r) <= NHold
  BY <1>1, <1>4, SMT
<1>6. r.fc \in {1, 5, 15} => /\ r.addr \in UShort /\ CoilCount(r) \in Nat \ {0}
                             /\ r.addr + CoilCount(r) <= NCoils
  BY <1>1, <1>3, SMT
<1>7. r.fc = 3 => r.addr + r.count <= NHold
  BY <1>1, <1>3, SMT
<1> QED
  BY <1>2, <1>5, <1>6, <1>7

(* A handler returns no exception or one of the three. *)
LEMMA ExceptionRange ==
  ASSUME NEW r \in HostRequests
  PROVE  Exception(r) \in 0 .. 3
<1>1. \A addr, count, n : Looked(addr, count, n) \in 0 .. 3
  BY SMT DEF Looked, IllegalAddress
<1>2. IllegalValue \in 0 .. 3 /\ IllegalFunction \in 0 .. 3 /\ 0 \in 0 .. 3
  BY SMT DEF IllegalValue, IllegalFunction
<1>3. r.fc \in {1, 2, 3, 4} => Exception(r) \in 0 .. 3
  BY <1>1, <1>2, HandlerOf, SMT DEF eMBFuncReadCoils, eMBFuncReadDiscreteInputs,
       eMBFuncReadHoldingRegister, eMBFuncReadInputRegister, eMBRegCoilsCB,
       eMBRegDiscreteCB, eMBRegHoldingCB, eMBRegInputCB
<1>4. r.fc \in {5, 6, 15} => Exception(r) \in 0 .. 3
  BY <1>1, <1>2, HandlerOf, SMT DEF eMBFuncWriteCoil, eMBFuncWriteHoldingRegister,
       eMBFuncWriteMultipleCoils, eMBRegCoilsCB, eMBRegHoldingCB
<1>5. r.fc \in {16, 23} => Exception(r) \in 0 .. 3
  BY <1>1, <1>2, HandlerOf, SMT DEF eMBFuncWriteMultipleHoldingRegister,
       eMBFuncReadWriteMultipleHoldingRegister, eMBRegHoldingCB
<1> QED
  BY <1>2, <1>3, <1>4, <1>5, HandlerOf, SMT

-----------------------------------------------------------------------------
(* The request in progress *)

HostType ==
  [pc : {"idle", "store", "load"}, req : SUBSET HostRequests, k : Nat,
   bytes : Seq(Int), calm : BOOLEAN]

(* Between two bytes the request is one that passed the checks, and the     *)
(* byte that comes next belongs to it.                                      *)
InProgress(r) ==
  /\ host.req = {r} /\ ~ SentBack(r) /\ Exception(r) = 0 /\ answer = NoAnswer
  /\ host.pc = "store" => WritesWords(r) /\ host.k < 2 * WriteCount(r) /\ host.bytes = <<>>
  /\ host.pc = "load" => /\ ReadsWords(r) /\ host.k < 2 * r.count
                         /\ Exist(r.addr, r.count, NHold) /\ Len(host.bytes) = host.k

HostInv ==
  /\ host \in HostType /\ hold \in [Stored -> UShort]
  /\ host.pc # "idle" => \E r \in HostRequests : InProgress(r)
  /\ answer.to \subseteq HostRequests /\ answer.ex \in 0 .. 3

(* RefusedIfAbsent for one request and its answer. *)
RightlyAnswered(r, ex, stored) ==
  /\ ex \in {0, IllegalAddress} /\ ~ SentBack(r) /\ r.fc # 17 =>
       (ex = 0 <=> /\ AllExist(FirstRange(r)[1], FirstRange(r)[2], FirstRange(r)[3])
                   /\ r.fc = 23 => AllExist(r.addr, r.count, NHold))
  /\ ex # 0 /\ stored => r.fc = 23

LEMMA AnswerGiven ==
  ASSUME NEW r \in HostRequests, NEW ex \in 0 .. 3, NEW words, NEW calm, NEW stored,
         Answered(r, ex, words, calm, stored), RightlyAnswered(r, ex, stored)
  PROVE  RefusedIfAbsent' /\ answer'.to \subseteq HostRequests /\ answer'.ex \in 0 .. 3
<1>1. answer'.to = {r} /\ answer'.ex = ex /\ answer'.stored = stored
  BY SMT DEF Answered
<1>2. RefusedIfAbsent'
  BY <1>1, Zenon DEF RefusedIfAbsent, RightlyAnswered
<1> QED
  BY <1>1, <1>2

LEMMA NoAnswerGiven ==
  ASSUME answer' = NoAnswer
  PROVE  RefusedIfAbsent' /\ answer'.to \subseteq HostRequests /\ answer'.ex \in 0 .. 3
<1>1. answer'.to = {} /\ answer'.ex = 0
  BY SMT DEF NoAnswer
<1> QED
  BY <1>1, SMT DEF RefusedIfAbsent

(* Requests that are over at once. *)
LEMMA AtOnceIsRight ==
  ASSUME NEW r \in HostRequests, AnswerAtOnce(r)
  PROVE  RefusedIfAbsent' /\ answer'.to \subseteq HostRequests /\ answer'.ex \in 0 .. 3
<1> 0 \in 0 .. 3
  BY SMT
<1>1. CASE SentBack(r) /\ Answered(r, 0, <<>>, TRUE, FALSE)
  <2>1. RightlyAnswered(r, 0, FALSE)
    BY <1>1, Zenon DEF RightlyAnswered
  <2> QED
    BY <1>1, <2>1, AnswerGiven, Zenon
<1>2. CASE ~ SentBack(r) /\ Exception(r) # 0 /\ Answered(r, Exception(r), <<>>, TRUE, FALSE)
  <2>1. RightlyAnswered(r, Exception(r), FALSE)
    BY <1>2, RefusalIsRight, Zenon DEF RightlyAnswered
  <2> QED
    BY <1>2, <2>1, AnswerGiven, ExceptionRange, Zenon
<1>3. ASSUME Exception(r) = 0, r.fc \in {1, 2, 4, 5, 15, 17}, NEW words, NEW stored,
             Answered(r, 0, words, TRUE, stored)
      PROVE  RefusedIfAbsent' /\ answer'.to \subseteq HostRequests /\ answer'.ex \in 0 .. 3
  <2>1. r.fc # 23 /\ ~ SentBack(r)
    BY <1>3, SMT DEF SentBack
  <2>2. RightlyAnswered(r, 0, stored)
    BY <1>3, <2>1, RefusalIsRight, SMT DEF RightlyAnswered, IllegalAddress
  <2> QED
    BY <1>3, <2>2, AnswerGiven, Zenon
<1>4. /\ r.fc \in {2, 4, 17} => r.fc \in {1, 2, 4, 5, 15, 17}
      /\ r.fc = 1 => r.fc \in {1, 2, 4, 5, 15, 17}
      /\ r.fc \in {5, 15} => r.fc \in {1, 2, 4, 5, 15, 17}
  BY SMT
<1> QED
  BY <1>1, <1>2, <1>3, <1>4, Zenon DEF AnswerAtOnce

(* The two bytes of a word. *)
LEMMA WordBytes ==
  ASSUME NEW w \in UShort
  PROVE  /\ w \div 256 \in 0 .. 255 /\ w % 256 \in 0 .. 255
         /\ 256 * (w \div 256) + (w % 256) = w
<1>1. w \in Nat /\ w <= 65535
  BY UShortIs
<1> QED
  BY <1>1, SMT

(* A high and a low byte make a word. *)
LEMMA BytesMakeWord ==
  ASSUME NEW hi \in 0 .. 255, NEW lo \in 0 .. 255
  PROVE  /\ 256 * hi + lo \in UShort /\ 256 * hi \in UShort
         /\ (256 * hi + lo) \div 256 = hi /\ (256 * hi + lo) % 256 = lo
         /\ (256 * hi) \div 256 = hi
<1>1. /\ 256 * hi + lo \in Nat /\ 256 * hi + lo <= 65535
      /\ 256 * hi \in Nat /\ 256 * hi <= 65535
      /\ (256 * hi + lo) \div 256 = hi /\ (256 * hi + lo) % 256 = lo
      /\ (256 * hi) \div 256 = hi
  BY SMT
<1> QED
  BY <1>1, IsUShort

LEMMA RegisterIsWord ==
  ASSUME hold \in [Stored -> UShort], NEW a
  PROVE  Register(a) \in UShort
<1>1. 0 \in UShort
  BY IsUShort, SMT
<1> QED
  BY <1>1, Zenon DEF Register

LEMMA CurrentRequest ==
  ASSUME NEW r, host.req = {r}
  PROVE  Current = r
BY Zenon DEF Current

(* StoreByte stores a byte of the request in progress. *)
LEMMA StoreByteEffect ==
  ASSUME HostInv, StoreByte
  PROVE  \E r \in HostRequests :
           /\ InProgress(r) /\ WritesWords(r) /\ host.k < 2 * WriteCount(r)
           /\ host.k \div 2 + 1 \in 1 .. WriteCount(r)
           /\ hold' = Put(hold, WriteAddr(r) + host.k \div 2,
                          StoredByte(WriteAddr(r) + host.k \div 2, host.k,
                                     r.data[(host.k \div 2) + 1]))
           /\ \/ /\ host.k + 1 < 2 * WriteCount(r)
                 /\ host' = [host EXCEPT !.k = @ + 1] /\ answer' = answer
              \/ host.k + 1 = 2 * WriteCount(r) /\ AfterStores(r)
           /\ UNCHANGED <<coils, served, want>>
<1>1. host.pc = "store"
  BY Zenon DEF StoreByte
<1>2. PICK r \in HostRequests : InProgress(r)
  BY <1>1, SMT DEF HostInv
<1>3. WritesWords(r) /\ host.k < 2 * WriteCount(r) /\ host.req = {r}
  BY <1>1, <1>2, Zenon DEF InProgress
<1>4. host.k \in Nat
  BY SMT DEF HostInv, HostType
<1>5. WriteCount(r) \in Nat \ {0}
  BY <1>2, <1>3, AcceptedWords, Zenon DEF InProgress
<1>6. host.k \div 2 + 1 \in 1 .. WriteCount(r) /\ host.k + 1 <= 2 * WriteCount(r)
  BY <1>3, <1>4, <1>5, SMT
<1>7. Current = r
  BY <1>3, CurrentRequest
<1>8. /\ hold' = Put(hold, WriteAddr(r) + host.k \div 2,
                     StoredByte(WriteAddr(r) + host.k \div 2, host.k,
                                r.data[(host.k \div 2) + 1]))
      /\ IF host.k + 1 < 2 * WriteCount(r)
           THEN host' = [host EXCEPT !.k = @ + 1] /\ UNCHANGED answer
           ELSE AfterStores(r)
      /\ UNCHANGED <<coils, served, want>>
  BY <1>7, Zenon DEF StoreByte
<1>9. host.k + 1 < 2 * WriteCount(r) \/ host.k + 1 = 2 * WriteCount(r)
  BY <1>4, <1>5, <1>6, SMT
<1> QED
  BY <1>2, <1>3, <1>6, <1>8, <1>9, Zenon

(* LoadByte loads a byte for the request in progress. *)
LEMMA LoadByteEffect ==
  ASSUME HostInv, LoadByte
  PROVE  \E r \in HostRequests :
           /\ InProgress(r) /\ ReadsWords(r) /\ Exist(r.addr, r.count, NHold)
           /\ r.count \in Nat \ {0} /\ host.k \in Nat
           /\ \E bytes :
                /\ bytes = Append(host.bytes,
                                  LoadedByte(host.k, Register(r.addr + host.k \div 2)))
                /\ \/ /\ host.k + 1 < 2 * r.count
                      /\ host' = [host EXCEPT !.k = @ + 1, !.bytes = bytes]
                      /\ answer' = answer
                   \/ /\ host.k + 1 = 2 * r.count /\ host' = Idle
                      /\ Answered(r, 0, WordsOf(bytes), host.calm, WritesWords(r))
           /\ UNCHANGED <<hold, coils, served, want>>
<1>1. host.pc = "load"
  BY Zenon DEF LoadByte
<1>2. PICK r \in HostRequests : InProgress(r)
  BY <1>1, SMT DEF HostInv
<1>3. /\ ReadsWords(r) /\ host.k < 2 * r.count /\ host.req = {r}
      /\ Exist(r.addr, r.count, NHold)
  BY <1>1, <1>2, Zenon DEF InProgress
<1>4. host.k \in Nat
  BY SMT DEF HostInv, HostType
<1>5. r.count \in Nat \ {0}
  BY <1>2, <1>3, AcceptedWords, Zenon DEF InProgress
<1>6. Current = r
  BY <1>3, CurrentRequest
<1> DEFINE bytes == Append(host.bytes,
                           LoadedByte(host.k, Register(r.addr + host.k \div 2)))
<1>7. /\ IF host.k + 1 < 2 * r.count
           THEN host' = [host EXCEPT !.k = @ + 1, !.bytes = bytes] /\ UNCHANGED answer
           ELSE host' = Idle /\ Answered(r, 0, WordsOf(bytes), host.calm, WritesWords(r))
      /\ UNCHANGED <<hold, coils, served, want>>
  BY <1>6, Zenon DEF LoadByte
<1>8. host.k + 1 < 2 * r.count \/ host.k + 1 = 2 * r.count
  BY <1>3, <1>4, <1>5, SMT
<1> QED
  BY <1>2, <1>3, <1>4, <1>5, <1>7, <1>8, Zenon

-----------------------------------------------------------------------------
(* Steps of the slave and of the other threads *)

(* A byte or-ed to a byte is a byte, and or-ing 0 changes nothing. *)
LEMMA OrIsByte ==
  ASSUME NEW x \in 0 .. 255, NEW y \in 0 .. 255
  PROVE  Or(x, y) \in 0 .. 255
<1>1. ASSUME NEW p \in Nat
      PROVE  OrBit(x, y, p) \in Int /\ 0 <= OrBit(x, y, p) /\ OrBit(x, y, p) <= p
  BY SMT DEF OrBit
<1>2. /\ OrBit(x, y, 1) \in Int /\ 0 <= OrBit(x, y, 1) /\ OrBit(x, y, 1) <= 1
      /\ OrBit(x, y, 2) \in Int /\ 0 <= OrBit(x, y, 2) /\ OrBit(x, y, 2) <= 2
      /\ OrBit(x, y, 4) \in Int /\ 0 <= OrBit(x, y, 4) /\ OrBit(x, y, 4) <= 4
      /\ OrBit(x, y, 8) \in Int /\ 0 <= OrBit(x, y, 8) /\ OrBit(x, y, 8) <= 8
      /\ OrBit(x, y, 16) \in Int /\ 0 <= OrBit(x, y, 16) /\ OrBit(x, y, 16) <= 16
      /\ OrBit(x, y, 32) \in Int /\ 0 <= OrBit(x, y, 32) /\ OrBit(x, y, 32) <= 32
      /\ OrBit(x, y, 64) \in Int /\ 0 <= OrBit(x, y, 64) /\ OrBit(x, y, 64) <= 64
      /\ OrBit(x, y, 128) \in Int /\ 0 <= OrBit(x, y, 128) /\ OrBit(x, y, 128) <= 128
  BY <1>1
<1> DEFINE low == OrBit(x, y, 1) + OrBit(x, y, 2) + OrBit(x, y, 4) + OrBit(x, y, 8)
           all == low + OrBit(x, y, 16) + OrBit(x, y, 32) + OrBit(x, y, 64) + OrBit(x, y, 128)
<1>3. low \in Int /\ 0 <= low /\ low <= 15
  BY <1>2, SMT
<1>4. all \in Int /\ 0 <= all /\ all <= 255
  <2> HIDE DEF low
  <2> QED
    BY <1>2, <1>3, SMT
<1>5. Or(x, y) = all
  BY DEF Or
<1> HIDE DEF all
<1> QED
  BY <1>4, <1>5

LEMMA OrZero ==
  ASSUME NEW y \in 0 .. 255
  PROVE  Or(0, y) = y
<1> DEFINE q2 == y \div 2
           q4 == q2 \div 2
           q8 == q4 \div 2
           q16 == q8 \div 2
           q32 == q16 \div 2
           q64 == q32 \div 2
           q128 == q64 \div 2
<1>1. ASSUME NEW p \in {1, 2, 4, 8, 16, 32, 64, 128}
      PROVE  OrBit(0, y, p) = p * ((y \div p) % 2)
  BY SMT DEF OrBit
<1>2. /\ y \div 1 = y /\ y \div 4 = q4 /\ y \div 8 = q8 /\ y \div 16 = q16
      /\ y \div 32 = q32 /\ y \div 64 = q64 /\ y \div 128 = q128
  BY SMTT(30)
<1>3. y = 2 * q2 + (y % 2) /\ q2 = 2 * q4 + (q2 % 2) /\ q4 = 2 * q8 + (q4 % 2)
  BY SMT
<1>4. q8 = 2 * q16 + (q8 % 2) /\ q16 = 2 * q32 + (q16 % 2) /\ q32 = 2 * q64 + (q32 % 2)
      /\ q64 = 2 * q128 + (q64 % 2)
  BY SMT
<1>5. q128 \in 0 .. 1 /\ q128 % 2 = q128
  BY SMTT(30)
<1>6. y = (y % 2) + 2 * (q2 % 2) + 4 * (q4 % 2) + 8 * (q8 % 2) + 16 * (q16 % 2)
            + 32 * (q32 % 2) + 64 * (q64 % 2) + 128 * (q128 % 2)
  BY <1>3, <1>4, <1>5, SMTT(30)
<1> QED
  BY <1>1, <1>2, <1>6, SMTT(30) DEF Or

(* What is stored is a word, whatever the register held. *)
LEMMA StoredByteIsWord ==
  ASSUME hold \in [Stored -> UShort], NEW a, NEW k \in Nat, NEW w \in UShort
  PROVE  StoredByte(a, k, w) \in UShort
<1>1. CASE k % 2 = 0
  <2>1. StoredByte(a, k, w) = 256 * (w \div 256) /\ w \div 256 \in 0 .. 255
    BY <1>1, WordBytes DEF StoredByte
  <2>2. PICK hi \in 0 .. 255 : hi = w \div 256
    BY <2>1
  <2>3. 256 * hi \in Nat /\ 256 * hi <= 65535
    BY SMT
  <2> QED
    BY <2>1, <2>2, <2>3, IsUShort
<1>2. CASE k % 2 # 0
  <2>1. Register(a) \in UShort
    BY RegisterIsWord
  <2>2. /\ Register(a) \div 256 \in 0 .. 255
        /\ Or(Register(a) % 256, w % 256) \in 0 .. 255
    BY <2>1, WordBytes, OrIsByte
  <2>3. StoredByte(a, k, w) = 256 * (Register(a) \div 256) + Or(Register(a) % 256, w % 256)
    BY <1>2 DEF StoredByte
  <2>4. ASSUME NEW hi \in 0 .. 255, NEW lo \in 0 .. 255, StoredByte(a, k, w) = 256 * hi + lo
        PROVE  StoredByte(a, k, w) \in UShort
    <3>1. 256 * hi + lo \in UShort
      BY BytesMakeWord, ZenonT(60)
    <3> QED
      BY <2>4, <3>1
  <2> QED
    BY <2>2, <2>3, <2>4, ZenonT(60)
<1> QED
  BY <1>1, <1>2

LEMMA PutIsTyped ==
  ASSUME NEW h \in [Stored -> UShort], NEW a, NEW w \in UShort
  PROVE  /\ Put(h, a, w) \in [Stored -> UShort]
         /\ \A b \in Stored : Put(h, a, w)[b] = IF b = a THEN w ELSE h[b]
BY SMT DEF Put

LEMMA LoadedByteIsByte ==
  ASSUME hold \in [Stored -> UShort], NEW a, NEW k \in Nat
  PROVE  LoadedByte(k, Register(a)) \in 0 .. 255
<1>1. Register(a) \in UShort
  BY RegisterIsWord
<1> QED
  BY <1>1, WordBytes, ZenonT(60) DEF LoadedByte

LEMMA IdleIsTyped == Idle \in HostType /\ Idle.pc = "idle"
<1>1. <<>> \in Seq(Int) /\ 0 \in Nat
  BY SMT
<1> QED
  BY <1>1, SMT DEF Idle, HostType

(* The word that goes to the register of the next byte. *)
LEMMA StoreByteTyped ==
  ASSUME HostInv, StoreByte
  PROVE  hold' \in [Stored -> UShort]
<1>1. PICK r \in HostRequests :
        /\ WritesWords(r) /\ host.k \div 2 + 1 \in 1 .. WriteCount(r)
        /\ hold' = Put(hold, WriteAddr(r) + host.k \div 2,
                       StoredByte(WriteAddr(r) + host.k \div 2, host.k,
                                  r.data[(host.k \div 2) + 1]))
  BY StoreByteEffect, Zenon
<1>2. r.data[(host.k \div 2) + 1] \in UShort
  BY <1>1, HostDataAssumption, Zenon
<1>3. hold \in [Stored -> UShort] /\ host.k \in Nat
  BY SMT DEF HostInv, HostType
<1>4. StoredByte(WriteAddr(r) + host.k \div 2, host.k, r.data[(host.k \div 2) + 1]) \in UShort
  BY <1>2, <1>3, StoredByteIsWord
<1> QED
  BY <1>1, <1>3, <1>4, PutIsTyped

LEMMA TakeRequestKeeps ==
  ASSUME HostInv, NEW r \in HostRequests, TakeRequest(r)
  PROVE  HostInv' /\ RefusedIfAbsent'
<1>1. host.pc = "idle" /\ hold' = hold /\ host \in HostType /\ hold \in [Stored -> UShort]
  BY Zenon DEF TakeRequest, HostInv
<1>2. CASE AnswerAtOnce(r)
  <2>1. host' = host
    BY <1>2, Zenon DEF AnswerAtOnce
  <2>2. RefusedIfAbsent' /\ answer'.to \subseteq HostRequests /\ answer'.ex \in 0 .. 3
    BY <1>2, AtOnceIsRight
  <2> QED
    BY <1>1, <2>1, <2>2, Zenon DEF HostInv
<1>3. CASE Begin(r)
  <2>1. /\ ~ SentBack(r) /\ Exception(r) = 0 /\ (WritesWords(r) \/ ReadsWords(r))
        /\ host' = [Idle EXCEPT !.pc = IF WritesWords(r) THEN "store" ELSE "load",
                                !.req = {r}]
        /\ answer' = NoAnswer
    BY <1>3, Zenon DEF Begin
  <2>2. /\ host' \in HostType /\ host'.req = {r} /\ host'.k = 0 /\ host'.bytes = <<>>
        /\ host'.pc = IF WritesWords(r) THEN "store" ELSE "load"
    <3>1. Idle \in HostType /\ Idle.k = 0 /\ Idle.bytes = <<>>
      BY IdleIsTyped, SMT DEF Idle
    <3>2. {r} \in SUBSET HostRequests
      OBVIOUS
    <3>3. (IF WritesWords(r) THEN "store" ELSE "load") \in {"idle", "store", "load"}
      OBVIOUS
    <3>4. ASSUME NEW pc \in {"idle", "store", "load"}, NEW req \in SUBSET HostRequests,
                 host' = [Idle EXCEPT !.pc = pc, !.req = req]
          PROVE  /\ host' \in HostType /\ host'.req = req /\ host'.k = 0
                 /\ host'.bytes = <<>> /\ host'.pc = pc
      <4>1. host' = [pc |-> pc, req |-> req, k |-> 0, bytes |-> <<>>, calm |-> TRUE]
        BY <3>4, Zenon DEF Idle
      <4>2. <<>> \in Seq(Int) /\ 0 \in Nat
        BY SMT
      <4> QED
        BY <4>1, <4>2, SMT DEF HostType
    <3> QED
      BY <2>1, <3>2, <3>3, <3>4, Zenon
  <2>3. WritesWords(r) => 0 < 2 * WriteCount(r)
    <3>1. WritesWords(r) => WriteCount(r) \in Nat \ {0}
      BY <2>1, AcceptedWords
    <3> QED
      BY <3>1, SMT
  <2>4. ~ WritesWords(r) => 0 < 2 * r.count /\ Exist(r.addr, r.count, NHold)
    <3>1. SUFFICES ASSUME ~ WritesWords(r)
                   PROVE  0 < 2 * r.count /\ Exist(r.addr, r.count, NHold)
      OBVIOUS
    <3>2. r.fc = 3 /\ ReadsWords(r)
      BY <2>1, <3>1, SMT DEF WritesWords, ReadsWords
    <3>3. r.count \in Nat \ {0} /\ r.addr \in UShort /\ r.addr + r.count <= NHold
      BY <2>1, <3>2, AcceptedWords
    <3>4. Exist(r.addr, r.count, NHold)
      BY <3>3, ExistMeansAll, Sizes
    <3> QED
      BY <3>3, <3>4, SMT
  <2>5. Len(<<>>) = 0
    BY SMT
  <2>6. InProgress(r)'
    BY <2>1, <2>2, <2>3, <2>4, <2>5, SMT DEF InProgress
  <2>7. RefusedIfAbsent' /\ answer'.to \subseteq HostRequests /\ answer'.ex \in 0 .. 3
    BY <2>1, NoAnswerGiven
  <2> QED
    BY <1>1, <2>2, <2>6, <2>7, Zenon DEF HostInv
<1> QED
  BY <1>2, <1>3, Zenon DEF TakeRequest

(* 23 answers after the write, or refuses what it cannot read; what it      *)
(* wrote exists.                                                            *)
LEMMA WordsAnswered ==
  ASSUME NEW r \in HostRequests, ~ SentBack(r), Exception(r) = 0,
         WritesWords(r) \/ ReadsWords(r), NEW ex \in {0, IllegalAddress}, NEW stored,
         ReadsWords(r) => (ex = 0 <=> Exist(r.addr, r.count, NHold)),
         ~ ReadsWords(r) => ex = 0
  PROVE  RightlyAnswered(r, ex, stored)
<1>1. r.fc # 17 /\ r.fc \in {3, 6, 16, 23}
  BY SMT DEF WritesWords, ReadsWords
<1>2. AllExist(FirstRange(r)[1], FirstRange(r)[2], FirstRange(r)[3])
  BY <1>1, RefusalIsRight
<1>3. ReadsWords(r) => (Exist(r.addr, r.count, NHold) <=> AllExist(r.addr, r.count, NHold))
  BY AcceptedWords, ExistMeansAll, Sizes
<1>4. CASE r.fc = 23
  <2>1. ReadsWords(r)
    BY <1>4, SMT DEF ReadsWords
  <2> QED
    BY <1>2, <1>3, <1>4, <2>1, Zenon DEF RightlyAnswered
<1>5. CASE r.fc = 3
  <2>1. ReadsWords(r) /\ FirstRange(r) = <<r.addr, r.count, NHold>>
    BY <1>5, SMT DEF ReadsWords, FirstRange
  <2>2. AllExist(r.addr, r.count, NHold)
    BY <1>2, <2>1, SMT
  <2>3. ex = 0 /\ r.fc # 23
    BY <1>3, <1>5, <2>1, <2>2, SMT
  <2> QED
    BY <1>2, <2>3, Zenon DEF RightlyAnswered
<1>6. CASE r.fc \in {6, 16}
  <2>1. ~ ReadsWords(r) /\ r.fc # 23
    BY <1>6, SMT DEF ReadsWords
  <2> QED
    BY <1>2, <2>1, Zenon DEF RightlyAnswered
<1> QED
  BY <1>1, <1>4, <1>5, <1>6, SMT

LEMMA StoreByteKeeps ==
  ASSUME HostInv, StoreByte
  PROVE  HostInv' /\ RefusedIfAbsent'
<1>1. PICK r \in HostRequests :
        /\ InProgress(r) /\ WritesWords(r) /\ host.k < 2 * WriteCount(r)
        /\ \/ /\ host.k + 1 < 2 * WriteCount(r)
              /\ host' = [host EXCEPT !.k = @ + 1] /\ answer' = answer
           \/ host.k + 1 = 2 * WriteCount(r) /\ AfterStores(r)
  BY StoreByteEffect, Zenon
<1>2. /\ host \in HostType /\ host.req = {r} /\ ~ SentBack(r) /\ Exception(r) = 0
      /\ answer = NoAnswer /\ host.bytes = <<>> /\ host.pc = "store"
  BY <1>1, Zenon DEF HostInv, InProgress, StoreByte
<1>3. hold' \in [Stored -> UShort]
  BY StoreByteTyped
<1>4. CASE /\ host.k + 1 < 2 * WriteCount(r)
           /\ host' = [host EXCEPT !.k = @ + 1] /\ answer' = answer
  <2>1. /\ host' \in HostType /\ host'.pc = "store" /\ host'.req = {r}
        /\ host'.k = host.k + 1 /\ host'.bytes = <<>>
    BY <1>2, <1>4, SMT DEF HostType
  <2>2. host'.pc # "load"
    BY <2>1
  <2>3. InProgress(r)'
    BY <1>1, <1>2, <1>4, <2>1, <2>2, Zenon DEF InProgress
  <2>4. RefusedIfAbsent' /\ answer'.to \subseteq HostRequests /\ answer'.ex \in 0 .. 3
    BY <1>2, <1>4, NoAnswerGiven, Zenon
  <2> QED
    BY <1>3, <2>1, <2>3, <2>4, Zenon DEF HostInv
<1>5. CASE AfterStores(r)
  <2>1. IllegalAddress \in 0 .. 3 /\ 0 \in 0 .. 3 /\ IllegalAddress # 0
    BY SMT DEF IllegalAddress
  <2>2. ASSUME NEW ex \in {0, IllegalAddress}, host' = Idle,
               Answered(r, ex, <<>>, host.calm, TRUE),
               ReadsWords(r) => (ex = 0 <=> Exist(r.addr, r.count, NHold)),
               ~ ReadsWords(r) => ex = 0
        PROVE  HostInv' /\ RefusedIfAbsent'
    <3>1. RightlyAnswered(r, ex, TRUE)
      BY <1>1, <1>2, <2>2, WordsAnswered, Zenon
    <3>2. ex \in 0 .. 3
      BY <2>1
    <3>3. RefusedIfAbsent' /\ answer'.to \subseteq HostRequests /\ answer'.ex \in 0 .. 3
      BY <2>2, <3>1, <3>2, AnswerGiven, Zenon
    <3> QED
      BY <1>3, <2>2, <3>3, IdleIsTyped, Zenon DEF HostInv
  <2>3. CASE ~ ReadsWords(r) /\ host' = Idle /\ Answered(r, 0, <<>>, host.calm, TRUE)
    BY <2>2, <2>3, Zenon
  <2>4. CASE /\ ReadsWords(r) /\ Exist(r.addr, r.count, NHold)
             /\ host' = [host EXCEPT !.pc = "load", !.k = 0] /\ UNCHANGED answer
    <3>1. /\ host' \in HostType /\ host'.pc = "load" /\ host'.req = {r}
          /\ host'.k = 0 /\ host'.bytes = <<>>
      <4>1. 0 \in Nat
        BY SMT
      <4> QED
        BY <1>2, <2>4, <4>1, Zenon DEF HostType
    <3>2. 0 < 2 * r.count /\ Len(<<>>) = 0
      <4>1. r.count \in Nat \ {0}
        BY <1>2, <2>4, AcceptedWords
      <4> QED
        BY <4>1, SMT
    <3>3. InProgress(r)'
      BY <1>2, <2>4, <3>1, <3>2, SMT DEF InProgress
    <3>4. RefusedIfAbsent' /\ answer'.to \subseteq HostRequests /\ answer'.ex \in 0 .. 3
      BY <1>2, <2>4, NoAnswerGiven, Zenon
    <3> QED
      BY <1>3, <3>1, <3>3, <3>4, Zenon DEF HostInv
  <2>5. CASE /\ ReadsWords(r) /\ ~ Exist(r.addr, r.count, NHold)
             /\ host' = Idle /\ Answered(r, IllegalAddress, <<>>, host.calm, TRUE)
    BY <2>1, <2>2, <2>5, Zenon
  <2> QED
    BY <1>5, <2>3, <2>4, <2>5, Zenon DEF AfterStores
<1> QED
  BY <1>1, <1>4, <1>5, Zenon

LEMMA LoadByteKeeps ==
  ASSUME HostInv, LoadByte
  PROVE  HostInv' /\ RefusedIfAbsent'
<1>1. PICK r \in HostRequests :
        /\ InProgress(r) /\ ReadsWords(r) /\ Exist(r.addr, r.count, NHold)
        /\ r.count \in Nat \ {0} /\ host.k \in Nat
        /\ \E bytes :
             /\ bytes = Append(host.bytes,
                               LoadedByte(host.k, Register(r.addr + host.k \div 2)))
             /\ \/ /\ host.k + 1 < 2 * r.count
                   /\ host' = [host EXCEPT !.k = @ + 1, !.bytes = bytes]
                   /\ answer' = answer
                \/ /\ host.k + 1 = 2 * r.count /\ host' = Idle
                   /\ Answered(r, 0, WordsOf(bytes), host.calm, WritesWords(r))
        /\ UNCHANGED <<hold, coils, served, want>>
  BY LoadByteEffect, Zenon
<1>2. /\ host \in HostType /\ host.req = {r} /\ ~ SentBack(r) /\ Exception(r) = 0
      /\ answer = NoAnswer /\ host.pc = "load" /\ Len(host.bytes) = host.k
  BY <1>1, Zenon DEF HostInv, InProgress, LoadByte
<1>3. hold' \in [Stored -> UShort] /\ hold \in [Stored -> UShort]
  BY <1>1, Zenon DEF HostInv
<1>4. PICK bytes :
        /\ bytes = Append(host.bytes, LoadedByte(host.k, Register(r.addr + host.k \div 2)))
        /\ \/ /\ host.k + 1 < 2 * r.count
              /\ host' = [host EXCEPT !.k = @ + 1, !.bytes = bytes] /\ answer' = answer
           \/ /\ host.k + 1 = 2 * r.count /\ host' = Idle
              /\ Answered(r, 0, WordsOf(bytes), host.calm, WritesWords(r))
  BY <1>1
<1>5. bytes \in Seq(Int) /\ Len(bytes) = host.k + 1
  <2>1. LoadedByte(host.k, Register(r.addr + host.k \div 2)) \in Int
    <3>1. LoadedByte(host.k, Register(r.addr + host.k \div 2)) \in 0 .. 255
      BY <1>1, <1>3, LoadedByteIsByte
    <3> QED
      BY <3>1, SMT
  <2>2. host.bytes \in Seq(Int)
    BY <1>2, SMT DEF HostType
  <2> QED
    BY <1>2, <1>4, <2>1, <2>2, SMT
<1>6. CASE /\ host.k + 1 < 2 * r.count
           /\ host' = [host EXCEPT !.k = @ + 1, !.bytes = bytes] /\ answer' = answer
  <2>1. /\ host' \in HostType /\ host'.pc = "load" /\ host'.req = {r}
        /\ host'.k = host.k + 1 /\ host'.bytes = bytes
    <3>1. host.k \in Nat /\ host.k + 1 \in Nat
      BY <1>2, SMT DEF HostType
    <3> QED
      BY <1>2, <1>5, <1>6, <3>1, Zenon DEF HostType
  <2>2. host'.pc # "store"
    BY <2>1
  <2>3. InProgress(r)'
    BY <1>1, <1>2, <1>5, <1>6, <2>1, <2>2, Zenon DEF InProgress
  <2>4. RefusedIfAbsent' /\ answer'.to \subseteq HostRequests /\ answer'.ex \in 0 .. 3
    BY <1>2, <1>6, NoAnswerGiven, Zenon
  <2> QED
    BY <1>3, <2>1, <2>3, <2>4, Zenon DEF HostInv
<1>7. CASE /\ host' = Idle
           /\ Answered(r, 0, WordsOf(bytes), host.calm, WritesWords(r))
  <2>1. 0 \in 0 .. 3 /\ 0 \in {0, IllegalAddress}
    BY SMT
  <2>2. RightlyAnswered(r, 0, WritesWords(r))
    BY <1>1, <1>2, <2>1, WordsAnswered, Zenon
  <2>3. RefusedIfAbsent' /\ answer'.to \subseteq HostRequests /\ answer'.ex \in 0 .. 3
    BY <1>7, <2>1, <2>2, AnswerGiven, Zenon
  <2> QED
    BY <1>3, <1>7, <2>3, IdleIsTyped, Zenon DEF HostInv
<1> QED
  BY <1>4, <1>6, <1>7, Zenon

LEMMA SlaveNextKeeps ==
  ASSUME HostInv, SlaveNext
  PROVE  HostInv' /\ RefusedIfAbsent'
BY TakeRequestKeeps, StoreByteKeeps, LoadByteKeeps, Zenon DEF SlaveNext

(* Another thread stores words into the registers between two bytes. *)
LEMMA DisturbanceKeeps ==
  ASSUME HostInv, answer' = NoAnswer, hold' \in [Stored -> UShort],
         host' = [host EXCEPT !.calm = (host.pc = "idle")]
  PROVE  HostInv' /\ RefusedIfAbsent'
<1>1. host \in HostType
  BY DEF HostInv
<1>2. (host.pc = "idle") \in BOOLEAN
  OBVIOUS
<1>3. /\ host' \in HostType /\ host'.pc = host.pc /\ host'.req = host.req
      /\ host'.k = host.k /\ host'.bytes = host.bytes
  <2>1. ASSUME NEW c \in BOOLEAN, host' = [host EXCEPT !.calm = c]
        PROVE  /\ host' \in HostType /\ host'.pc = host.pc /\ host'.req = host.req
               /\ host'.k = host.k /\ host'.bytes = host.bytes
    BY <1>1, <2>1, Zenon DEF HostType
  <2> QED
    BY <1>2, <2>1, Zenon
<1>4. \A r \in HostRequests : InProgress(r) => InProgress(r)'
  BY <1>3, Zenon DEF InProgress
<1>5. RefusedIfAbsent' /\ answer'.to \subseteq HostRequests /\ answer'.ex \in 0 .. 3
  BY NoAnswerGiven
<1> QED
  BY <1>3, <1>4, <1>5, Zenon DEF HostInv

LEMMA StutterKeeps ==
  ASSUME HostInv, RefusedIfAbsent, UNCHANGED slaveVars
  PROVE  HostInv' /\ RefusedIfAbsent'
<1>1. hold' = hold /\ host' = host /\ answer' = answer
  BY Zenon DEF slaveVars
<1>2. \A r \in HostRequests : InProgress(r) => InProgress(r)'
  BY <1>1, Zenon DEF InProgress
<1> QED
  BY <1>1, <1>2, Zenon DEF HostInv, RefusedIfAbsent

LEMMA SlaveStarts ==
  ASSUME SlaveInit, hold \in [Stored -> UShort]
  PROVE  HostInv /\ RefusedIfAbsent
<1>1. host \in HostType /\ host.pc = "idle"
  BY IdleIsTyped, Zenon DEF SlaveInit
<1>2. answer.to = {} /\ answer.ex = 0
  BY SMT DEF SlaveInit, NoAnswer
<1>3. 0 \in 0 .. 3
  BY SMT
<1> QED
  BY <1>1, <1>2, <1>3, Zenon DEF HostInv, RefusedIfAbsent

(* A register changes only when a request that passed the checks stores one *)
(* of its words there.                                                      *)
LEMMA SlaveStores ==
  ASSUME HostInv, SlaveNext, NEW a \in Stored, hold'[a] # hold[a]
  PROVE  \E r \in HostRequests : \E j \in 1 .. WriteCount(r) :
           /\ WritesWords(r) /\ ~ SentBack(r) /\ Exception(r) = 0
           /\ WriteAddr(r) + j - 1 = a
           /\ \E k \in Nat : hold'[a] = StoredByte(a, k, r.data[j])
<1>1. StoreByte
  BY LoadByteEffect, Zenon DEF SlaveNext, TakeRequest
<1>2. PICK r \in HostRequests :
        /\ InProgress(r) /\ WritesWords(r) /\ host.k \div 2 + 1 \in 1 .. WriteCount(r)
        /\ hold' = Put(hold, WriteAddr(r) + host.k \div 2,
                       StoredByte(WriteAddr(r) + host.k \div 2, host.k,
                                  r.data[(host.k \div 2) + 1]))
  BY <1>1, StoreByteEffect, Zenon
<1>3. /\ hold \in [Stored -> UShort] /\ host.k \in Nat
      /\ r.data[(host.k \div 2) + 1] \in UShort
  BY <1>2, HostDataAssumption, Zenon DEF HostInv, HostType
<1>4. StoredByte(WriteAddr(r) + host.k \div 2, host.k, r.data[(host.k \div 2) + 1]) \in UShort
  BY <1>3, StoredByteIsWord
<1>5. /\ a = WriteAddr(r) + host.k \div 2
      /\ hold'[a] = StoredByte(a, host.k, r.data[(host.k \div 2) + 1])
  <2>1. ASSUME NEW b, NEW w \in UShort, hold' = Put(hold, b, w)
        PROVE  a = b /\ hold'[a] = w
    <3>1. \A c \in Stored : hold'[c] = IF c = b THEN w ELSE hold[c]
      BY <1>3, <2>1, PutIsTyped
    <3> QED
      BY <3>1
  <2>2. /\ a = WriteAddr(r) + host.k \div 2
        /\ hold'[a] = StoredByte(WriteAddr(r) + host.k \div 2, host.k,
                                 r.data[(host.k \div 2) + 1])
    BY <1>2, <1>4, <2>1, Zenon
  <2> QED
    BY <2>2
<1>6. ~ SentBack(r) /\ Exception(r) = 0
  BY <1>2, Zenon DEF InProgress
<1>7. WriteAddr(r) + (host.k \div 2 + 1) - 1 = a
  <2>1. WriteAddr(r) \in UShort
    BY <1>2, <1>6, AcceptedWords
  <2>2. WriteAddr(r) \in Nat
    BY <2>1, UShortIs
  <2> QED
    BY <1>3, <1>5, <2>2, SMT
<1> QED
  BY <1>2, <1>3, <1>5, <1>6, <1>7, Zenon

(* Storing the bytes of 0 over 0 changes nothing. *)
LEMMA StoredZero ==
  ASSUME NEW a, NEW k \in Nat, Register(a) = 0
  PROVE  StoredByte(a, k, 0) = 0
<1>1. 256 * (0 \div 256) = 0 /\ 0 % 256 = 0 /\ 0 \in 0 .. 255 /\ 0 + 0 = 0
  BY SMT
<1>2. Or(0, 0) = 0
  BY <1>1, OrZero
<1>3. StoredByte(a, k, 0) = IF k % 2 = 0 THEN 256 * (0 \div 256)
                            ELSE 256 * (0 \div 256) + Or(0 % 256, 0 % 256)
  BY DEF StoredByte
<1> QED
  BY <1>1, <1>2, <1>3

-----------------------------------------------------------------------------
(* Answers that no other thread came between *)

HighByte(w) == 256 * (w \div 256)

(* The first n bytes of the request's words are in the registers h. *)
StoredSoFar(h, r, n) ==
  \A j \in 1 .. WriteCount(r) : WriteAddr(r) + j - 1 \in Stored =>
    /\ 2 * j <= n => h[WriteAddr(r) + j - 1] = r.data[j]
    /\ 2 * j = n + 1 => h[WriteAddr(r) + j - 1] = HighByte(r.data[j])

(* The bytes are those of the registers. *)
LoadedSoFar(r, bytes) ==
  \A n \in 1 .. Len(bytes) : bytes[n] = LoadedByte(n - 1, Register(r.addr + (n - 1) \div 2))

(* What has been done of the request in progress, when nobody disturbed it. *)
CalmInv ==
  host.calm /\ host.pc # "idle" => \A r \in host.req :
    /\ host.pc = "store" => StoredSoFar(hold, r, host.k)
    /\ host.pc = "load" => /\ WritesWords(r) => StoredSoFar(hold, r, 2 * WriteCount(r))
                           /\ LoadedSoFar(r, host.bytes)

(* The second store of a register completes the word. *)
LEMMA SecondByte ==
  ASSUME NEW a, NEW w \in UShort, NEW k \in Nat
  PROVE  /\ k % 2 = 0 => StoredByte(a, k, w) = HighByte(w)
         /\ k % 2 = 1 /\ Register(a) = HighByte(w) => StoredByte(a, k, w) = w
<1>1. k % 2 = 0 => StoredByte(a, k, w) = HighByte(w)
  BY DEF StoredByte, HighByte
<1>2. ASSUME k % 2 = 1, Register(a) = HighByte(w)
      PROVE  StoredByte(a, k, w) = w
  <2>1. PICK hi \in 0 .. 255 : hi = w \div 256
    BY WordBytes
  <2>2. PICK lo \in 0 .. 255 : lo = w % 256
    BY WordBytes
  <2>3. 256 * hi + lo = w
    BY <2>1, <2>2, WordBytes
  <2>4. Register(a) = 256 * hi
    BY <1>2, <2>1 DEF HighByte
  <2>5. (256 * hi) \div 256 = hi /\ (256 * hi) % 256 = 0
    BY SMT
  <2>6. Or(0, lo) = lo
    BY OrZero
  <2>7. StoredByte(a, k, w) = 256 * (Register(a) \div 256) + Or(Register(a) % 256, w % 256)
    BY <1>2, SMT DEF StoredByte
  <2>8. StoredByte(a, k, w) = 256 * hi + Or(0, lo)
    BY <2>2, <2>4, <2>5, <2>7
  <2> QED
    BY <2>3, <2>6, <2>8
<1> QED
  BY <1>1, <1>2

LEMMA OneMoreStored ==
  ASSUME hold \in [Stored -> UShort], NEW r \in HostRequests, NEW k \in Nat,
         WriteAddr(r) \in Nat, WriteCount(r) \in Nat, k < 2 * WriteCount(r),
         \A j \in 1 .. WriteCount(r) : r.data[j] \in UShort,
         hold' = Put(hold, WriteAddr(r) + k \div 2,
                     StoredByte(WriteAddr(r) + k \div 2, k, r.data[(k \div 2) + 1])),
         StoredSoFar(hold, r, k)
  PROVE  StoredSoFar(hold', r, k + 1)
<1>1. PICK m \in Nat : m = k \div 2 /\ (k = 2 * m \/ k = 2 * m + 1) /\ m + 1 \in 1 .. WriteCount(r)
  <2>1. k \div 2 \in Nat
    BY SMT
  <2>2. k = 2 * (k \div 2) \/ k = 2 * (k \div 2) + 1
    BY SMT
  <2>3. k \div 2 + 1 \in 1 .. WriteCount(r)
    BY <2>1, <2>2, SMT
  <2> QED
    BY <2>1, <2>2, <2>3
<1> DEFINE a == WriteAddr(r) + m
           w == r.data[m + 1]
           x == StoredByte(a, k, w)
<1>2. w \in UShort
  BY <1>1
<1>3. x \in UShort
  BY <1>2, StoredByteIsWord
<1>4. hold' = Put(hold, a, x)
  BY <1>1
<1>5. \A b \in Stored : hold'[b] = IF b = a THEN x ELSE hold[b]
  <2> HIDE DEF a, x
  <2> QED
    BY <1>3, <1>4, PutIsTyped
<1>6. SUFFICES ASSUME NEW j \in 1 .. WriteCount(r), WriteAddr(r) + j - 1 \in Stored
               PROVE  /\ 2 * j <= k + 1 => hold'[WriteAddr(r) + j - 1] = r.data[j]
                      /\ 2 * j = (k + 1) + 1 => hold'[WriteAddr(r) + j - 1] = HighByte(r.data[j])
  BY DEF StoredSoFar
<1>7. /\ 2 * j <= k => hold[WriteAddr(r) + j - 1] = r.data[j]
      /\ 2 * j = k + 1 => hold[WriteAddr(r) + j - 1] = HighByte(r.data[j])
  BY <1>6 DEF StoredSoFar
<1>8. CASE j # m + 1
  <2>1. WriteAddr(r) + j - 1 # a
    BY <1>8, SMT
  <2>2. hold'[WriteAddr(r) + j - 1] = hold[WriteAddr(r) + j - 1]
    BY <1>5, <1>6, <2>1
  <2>3. (2 * j <= k + 1 => 2 * j <= k) /\ 2 * j # (k + 1) + 1
    BY <1>1, <1>8, SMT
  <2> QED
    BY <1>7, <2>2, <2>3
<1>9. CASE j = m + 1
  <2>1. WriteAddr(r) + j - 1 = a
    BY <1>9, SMT
  <2>2. hold'[WriteAddr(r) + j - 1] = x /\ a \in Stored
    BY <1>5, <1>6, <2>1
  <2>3. CASE k = 2 * m
    <3>1. k % 2 = 0 /\ ~ (2 * j <= k + 1)
      BY <1>9, <2>3, SMT
    <3>2. x = HighByte(w)
      BY <1>2, <3>1, SecondByte
    <3> QED
      BY <1>9, <2>2, <3>1, <3>2
  <2>4. CASE k = 2 * m + 1
    <3>1. k % 2 = 1 /\ 2 * j = k + 1 /\ 2 * j # (k + 1) + 1
      BY <1>9, <2>4, SMT
    <3>2. Register(a) = HighByte(w)
      BY <1>7, <1>9, <2>1, <2>2, <3>1 DEF Register
    <3>3. x = w
      BY <1>2, <3>1, <3>2, SecondByte
    <3> QED
      BY <1>9, <2>2, <3>1, <3>3
  <2> QED
    BY <1>1, <2>3, <2>4
<1> QED
  BY <1>8, <1>9

(* When all are stored, the registers hold the words. *)
LEMMA AllStored ==
  ASSUME NEW r, WriteCount(r) \in Nat, StoredSoFar(hold', r, 2 * WriteCount(r))
  PROVE  \A j \in 1 .. WriteCount(r) :
           WriteAddr(r) + j - 1 \in Stored => Register(WriteAddr(r) + j - 1)' = r.data[j]
<1>1. \A j \in 1 .. WriteCount(r) : 2 * j <= 2 * WriteCount(r)
  BY SMT
<1>2. \A j \in 1 .. WriteCount(r) :
        WriteAddr(r) + j - 1 \in Stored => hold'[WriteAddr(r) + j - 1] = r.data[j]
  BY <1>1 DEF StoredSoFar
<1> QED
  BY <1>2, Zenon DEF Register

(* All the bytes make the words of the registers. *)
LEMMA AllLoaded ==
  ASSUME hold \in [Stored -> UShort], NEW r, NEW bytes \in Seq(Int), r.count \in Nat,
         r.addr \in Nat, Len(bytes) = 2 * r.count, LoadedSoFar(r, bytes)
  PROVE  /\ Len(WordsOf(bytes)) = r.count
         /\ \A j \in 1 .. r.count : WordsOf(bytes)[j] = Register(r.addr + j - 1)
<1>1. PICK n \in Nat : n = r.count
  OBVIOUS
<1>2. Len(bytes) \div 2 = n
  BY <1>1, SMT
<1>3. WordsOf(bytes) = [j \in 1 .. n |-> 256 * bytes[2 * j - 1] + bytes[2 * j]]
  BY <1>2 DEF WordsOf
<1>4. Len(WordsOf(bytes)) = n
  BY <1>3, SMT
<1>5. ASSUME NEW j \in 1 .. n
      PROVE  WordsOf(bytes)[j] = Register(r.addr + j - 1)
  <2>1. WordsOf(bytes)[j] = 256 * bytes[2 * j - 1] + bytes[2 * j]
    BY <1>3
  <2>2. /\ 2 * j - 1 \in 1 .. Len(bytes) /\ 2 * j \in 1 .. Len(bytes)
        /\ (2 * j - 1) - 1 = 2 * j - 2 /\ r.addr + (2 * j - 2) \div 2 = r.addr + j - 1
        /\ r.addr + (2 * j - 1) \div 2 = r.addr + j - 1
        /\ (2 * j - 2) % 2 = 0 /\ (2 * j - 1) % 2 = 1
    <3>1. 2 * j - 1 \in 1 .. Len(bytes) /\ 2 * j \in 1 .. Len(bytes)
      BY <1>1, <1>5, SMT
    <3>2. /\ (2 * j - 1) - 1 = 2 * j - 2 /\ (2 * j - 2) \div 2 = j - 1
          /\ (2 * j - 1) \div 2 = j - 1
      BY <1>5, SMT
    <3>3. (2 * j - 2) % 2 = 0 /\ (2 * j - 1) % 2 = 1
      BY <1>5, SMT
    <3>4. r.addr + (j - 1) = r.addr + j - 1
      BY <1>5, SMT
    <3> QED
      BY <3>1, <3>2, <3>3, <3>4
  <2> DEFINE w == Register(r.addr + j - 1)
  <2>3. /\ bytes[2 * j - 1] = LoadedByte(2 * j - 2, w) /\ bytes[2 * j] = LoadedByte(2 * j - 1, w)
    BY <2>2 DEF LoadedSoFar
  <2>4. w \in UShort
    BY RegisterIsWord
  <2> HIDE DEF w
  <2>5. bytes[2 * j - 1] = w \div 256 /\ bytes[2 * j] = w % 256
    BY <2>2, <2>3, SMT DEF LoadedByte
  <2>6. 256 * (w \div 256) + (w % 256) = w
    BY <2>4, WordBytes
  <2> QED
    BY <2>1, <2>5, <2>6 DEF w
<1> QED
  BY <1>1, <1>4, <1>5

(* The bits of the coils, byte by byte. *)
LEMMA CoilsRead ==
  ASSUME NEW addr \in Nat, NEW count \in Nat \ {0}
  PROVE  {p \in (1 .. CoilBytes(count)) \X (0 .. 7) : p[2] \in ReadCoils(addr, count)[p[1]]}
           = {<<(c \div 8) + 1, c % 8>> : c \in {c \in 0 .. (count - 1) : addr + c \in coils}}
<1> DEFINE W == ReadCoils(addr, count)
           Last(b) == IF b = (count \div 8) + 1 THEN (count % 8) - 1 ELSE 7
           L == {p \in (1 .. CoilBytes(count)) \X (0 .. 7) : p[2] \in W[p[1]]}
           C == {c \in 0 .. (count - 1) : addr + c \in coils}
           R == {<<(c \div 8) + 1, c % 8>> : c \in C}
<1>1. ASSUME NEW b \in 1 .. CoilBytes(count), NEW j
      PROVE  j \in W[b] <=> j \in 0 .. Last(b) /\ addr + 8 * (b - 1) + j \in coils
  BY <1>1 DEF ReadCoils
<1> HIDE DEF W
<1>2. ASSUME NEW b \in 1 .. CoilBytes(count), NEW j \in 0 .. 7, j \in 0 .. Last(b)
      PROVE  \E c \in 0 .. (count - 1) : c = 8 * (b - 1) + j /\ (c \div 8) + 1 = b /\ c % 8 = j
  <2>1. PICK q \in Nat, m \in 0 .. 7 : q = count \div 8 /\ m = count % 8 /\ count = 8 * q + m
    BY SMT
  <2>2. b \in Nat /\ 1 <= b /\ b <= q + 1
    BY <1>2, <2>1, SMT DEF CoilBytes
  <2>3. b = q + 1 => j < m
    BY <1>2, <2>1, SMT
  <2>4. 8 * (b - 1) + j \in 0 .. (count - 1)
    BY <1>2, <2>1, <2>2, <2>3, SMT
  <2>5. (8 * (b - 1) + j) \div 8 = b - 1 /\ (8 * (b - 1) + j) % 8 = j
    BY <1>2, <2>2, SMT
  <2>6. (b - 1) + 1 = b
    BY <2>2, SMT
  <2> QED
    BY <2>4, <2>5, <2>6
<1>3. ASSUME NEW c \in 0 .. (count - 1)
      PROVE  /\ (c \div 8) + 1 \in 1 .. CoilBytes(count) /\ c % 8 \in 0 .. 7
             /\ c % 8 \in 0 .. Last((c \div 8) + 1)
             /\ 8 * (((c \div 8) + 1) - 1) + (c % 8) = c
  <2>1. PICK q \in Nat, m \in 0 .. 7 : q = count \div 8 /\ m = count % 8 /\ count = 8 * q + m
    BY SMT
  <2>2. PICK b \in Nat, j \in 0 .. 7 : b = c \div 8 /\ j = c % 8 /\ c = 8 * b + j
    BY <1>3, SMT
  <2>3. b + 1 \in 1 .. CoilBytes(count)
    BY <1>3, <2>2, SMT DEF CoilBytes
  <2>4. b = q => j < m
    BY <1>3, <2>1, <2>2, SMT
  <2>5. b + 1 = q + 1 <=> b = q
    BY <2>1, <2>2, SMT
  <2>6. j \in 0 .. Last(b + 1)
    BY <2>1, <2>2, <2>4, <2>5, SMT
  <2>7. 8 * ((b + 1) - 1) + j = c
    BY <2>2, SMT
  <2> QED
    BY <2>2, <2>3, <2>6, <2>7
<1> HIDE DEF Last
<1>4. ASSUME NEW p \in L PROVE p \in R
  <2>1. PICK b \in 1 .. CoilBytes(count), j \in 0 .. 7 : p = <<b, j>> /\ j \in W[b]
    BY <1>4
  <2>2. j \in 0 .. Last(b) /\ addr + 8 * (b - 1) + j \in coils
    BY <1>1, <2>1
  <2>3. PICK c \in 0 .. (count - 1) : c = 8 * (b - 1) + j /\ (c \div 8) + 1 = b /\ c % 8 = j
    BY <1>2, <2>1, <2>2
  <2>4. addr + c \in coils
    <3>1. addr + 8 * (b - 1) + j = addr + c
      BY <2>1, <2>3, SMT
    <3> QED
      BY <2>2, <3>1
  <2> QED
    BY <2>1, <2>3, <2>4
<1>5. ASSUME NEW p \in R PROVE p \in L
  <2>1. PICK c \in C : p = <<(c \div 8) + 1, c % 8>>
    BY <1>5
  <2>2. c \in 0 .. (count - 1) /\ addr + c \in coils
    BY <2>1
  <2>3. /\ (c \div 8) + 1 \in 1 .. CoilBytes(count) /\ c % 8 \in 0 .. 7
        /\ c % 8 \in 0 .. Last((c \div 8) + 1)
        /\ 8 * (((c \div 8) + 1) - 1) + (c % 8) = c
    BY <1>3, <2>2
  <2>4. c % 8 \in W[(c \div 8) + 1]
    <3>1. addr + 8 * (((c \div 8) + 1) - 1) + (c % 8) = addr + c
      BY <2>2, <2>3, SMT
    <3> QED
      BY <1>1, <2>2, <2>3, <3>1
  <2> QED
    BY <2>1, <2>3, <2>4
<1>6. L = R
  BY <1>4, <1>5
<1> QED
  BY <1>6 DEF W

(* AnswersAreTrue for one request and its answer. *)
Truly(r, ex, words, calm) ==
  ex = 0 /\ calm /\ ~ SentBack(r) =>
    /\ WritesWords(r) /\ Complete(r) =>
         \A j \in 1 .. WriteCount(r) :
           WriteAddr(r) + j - 1 \in Stored => Register(WriteAddr(r) + j - 1) = r.data[j]
    /\ ReadsWords(r) => /\ Len(words) = r.count
                        /\ \A j \in 1 .. r.count : words[j] = Register(r.addr + j - 1)
    /\ r.fc = 1 =>
         {p \in (1 .. CoilBytes(r.count)) \X (0 .. 7) : p[2] \in words[p[1]]}
           = {<<(c \div 8) + 1, c % 8>> : c \in {c \in 0 .. (r.count - 1) : r.addr + c \in coils}}

LEMMA TrueAnswer ==
  ASSUME NEW r, NEW ex, NEW words, NEW calm, NEW stored,
         Answered(r, ex, words, calm, stored), Truly(r, ex, words, calm)'
  PROVE  AnswersAreTrue'
<1>1. /\ answer'.to = {r} /\ answer'.ex = ex /\ answer'.words = words
      /\ answer'.calm = calm
  BY Zenon DEF Answered
<1> QED
  BY <1>1, Zenon DEF AnswersAreTrue, Truly

LEMMA NoAnswerIsTrue ==
  ASSUME answer' = NoAnswer
  PROVE  AnswersAreTrue'
<1>1. answer'.to = {}
  BY Zenon DEF NoAnswer
<1> QED
  BY <1>1, Zenon DEF AnswersAreTrue

(* Requests that are over at once: only 1 has something to tell. *)
LEMMA AtOnceIsTrue ==
  ASSUME NEW r \in HostRequests, AnswerAtOnce(r)
  PROVE  AnswersAreTrue'
<1>1. CASE SentBack(r) /\ Answered(r, 0, <<>>, TRUE, FALSE)
  <2>1. Truly(r, 0, <<>>, TRUE)'
    BY <1>1, Zenon DEF Truly
  <2> QED
    BY <1>1, <2>1, TrueAnswer, Zenon
<1>2. CASE Exception(r) # 0 /\ Answered(r, Exception(r), <<>>, TRUE, FALSE)
  <2>1. Truly(r, Exception(r), <<>>, TRUE)'
    BY <1>2, Zenon DEF Truly
  <2> QED
    BY <1>2, <2>1, TrueAnswer, Zenon
<1>3. ASSUME r.fc \in {2, 4, 5, 15, 17}, NEW stored, Answered(r, 0, <<>>, TRUE, stored)
      PROVE  AnswersAreTrue'
  <2>1. ~ WritesWords(r) /\ ~ ReadsWords(r) /\ r.fc # 1
    BY <1>3, SMT DEF WritesWords, ReadsWords
  <2>2. Truly(r, 0, <<>>, TRUE)'
    BY <2>1, Zenon DEF Truly
  <2> QED
    BY <1>3, <2>2, TrueAnswer, Zenon
<1>4. CASE /\ Exception(r) = 0 /\ r.fc = 1 /\ coils' = coils
           /\ Answered(r, 0, ReadCoils(r.addr, r.count), TRUE, FALSE)
  <2>1. ~ WritesWords(r) /\ ~ ReadsWords(r) /\ ~ SentBack(r) /\ CoilCount(r) = r.count
    BY <1>4, SMT DEF WritesWords, ReadsWords, SentBack, CoilCount
  <2>2. r.addr \in UShort /\ r.count \in Nat \ {0}
    <3>1. r.fc \in {1, 5, 15}
      BY <1>4
    <3> QED
      BY <1>4, <2>1, <3>1, AcceptedWords, Zenon
  <2>3. r.addr \in Nat
    BY <2>2, UShortIs
  <2>4. Truly(r, 0, ReadCoils(r.addr, r.count), TRUE)
    BY <2>1, <2>2, <2>3, CoilsRead, Zenon DEF Truly
  <2>5. ASSUME NEW w, w = ReadCoils(r.addr, r.count)
        PROVE  AnswersAreTrue'
    <3>1. Truly(r, 0, w, TRUE)'
      BY <1>4, <2>1, <2>4, <2>5, Zenon DEF Truly
    <3>2. Answered(r, 0, w, TRUE, FALSE)
      BY <1>4, <2>5
    <3> QED
      BY <3>1, <3>2, TrueAnswer, Zenon
  <2> QED
    BY <2>5
<1>5. /\ r.fc \in {2, 4, 17} => r.fc \in {2, 4, 5, 15, 17}
      /\ r.fc \in {5, 15} => r.fc \in {2, 4, 5, 15, 17}
  BY SMT
<1> QED
  BY <1>1, <1>2, <1>3, <1>4, <1>5, Zenon DEF AnswerAtOnce

LEMMA StoreByteIsTrue ==
  ASSUME HostInv, CalmInv, StoreByte
  PROVE  CalmInv' /\ AnswersAreTrue'
<1>1. PICK r \in HostRequests :
        /\ InProgress(r) /\ WritesWords(r) /\ host.k < 2 * WriteCount(r)
        /\ hold' = Put(hold, WriteAddr(r) + host.k \div 2,
                       StoredByte(WriteAddr(r) + host.k \div 2, host.k,
                                  r.data[(host.k \div 2) + 1]))
        /\ \/ /\ host.k + 1 < 2 * WriteCount(r)
              /\ host' = [host EXCEPT !.k = @ + 1] /\ answer' = answer
           \/ host.k + 1 = 2 * WriteCount(r) /\ AfterStores(r)
  BY StoreByteEffect, Zenon
<1>2. /\ host \in HostType /\ host.req = {r} /\ ~ SentBack(r) /\ Exception(r) = 0
      /\ answer = NoAnswer /\ host.bytes = <<>> /\ host.pc = "store"
      /\ hold \in [Stored -> UShort]
  BY <1>1, Zenon DEF HostInv, InProgress, StoreByte
<1>3. host.k \in Nat /\ host.calm \in BOOLEAN
  BY <1>2, Zenon DEF HostType
<1>4. WriteAddr(r) \in Nat /\ WriteCount(r) \in Nat
  <2>1. WriteAddr(r) \in UShort /\ WriteCount(r) \in Nat \ {0}
    BY <1>1, <1>2, AcceptedWords
  <2> QED
    BY <2>1, UShortIs
<1>5. \A j \in 1 .. WriteCount(r) : r.data[j] \in UShort
  BY <1>1, HostDataAssumption
<1>6. host.calm => StoredSoFar(hold, r, host.k)
  BY <1>2, Zenon DEF CalmInv
<1>7. host.calm => StoredSoFar(hold', r, host.k + 1)
  BY <1>1, <1>2, <1>3, <1>4, <1>5, <1>6, OneMoreStored
<1>8. CASE /\ host.k + 1 < 2 * WriteCount(r)
           /\ host' = [host EXCEPT !.k = @ + 1] /\ answer' = answer
  <2>1. /\ host'.pc = "store" /\ host'.req = {r} /\ host'.k = host.k + 1
        /\ host'.calm = host.calm
    BY <1>2, <1>8, Zenon DEF HostType
  <2>2. host'.pc # "load"
    BY <2>1
  <2>3. CalmInv'
    BY <1>7, <2>1, <2>2, Zenon DEF CalmInv
  <2> QED
    BY <1>2, <1>8, <2>3, NoAnswerIsTrue, Zenon
<1>9. CASE host.k + 1 = 2 * WriteCount(r) /\ AfterStores(r)
  <2>1. host.calm => StoredSoFar(hold', r, 2 * WriteCount(r))
    BY <1>7, <1>9
  <2>2. host.calm => \A j \in 1 .. WriteCount(r) :
          WriteAddr(r) + j - 1 \in Stored => Register(WriteAddr(r) + j - 1)' = r.data[j]
    BY <1>4, <2>1, AllStored
  <2>3. ASSUME host' = Idle PROVE CalmInv'
    BY <2>3, IdleIsTyped, Zenon DEF CalmInv
  <2>4. CASE ~ ReadsWords(r) /\ host' = Idle /\ Answered(r, 0, <<>>, host.calm, TRUE)
    <3>1. r.fc # 1
      BY <1>1, SMT DEF WritesWords
    <3>2. ASSUME NEW calm, calm = host.calm PROVE AnswersAreTrue'
      <4>1. Truly(r, 0, <<>>, calm)'
        BY <2>2, <2>4, <3>1, <3>2, Zenon DEF Truly
      <4>2. Answered(r, 0, <<>>, calm, TRUE)
        BY <2>4, <3>2
      <4> QED
        BY <4>1, <4>2, TrueAnswer, Zenon
    <3> QED
      BY <2>3, <2>4, <3>2
  <2>5. CASE /\ ReadsWords(r) /\ Exist(r.addr, r.count, NHold)
             /\ host' = [host EXCEPT !.pc = "load", !.k = 0] /\ UNCHANGED answer
    <3>1. /\ host'.pc = "load" /\ host'.req = {r} /\ host'.bytes = <<>>
          /\ host'.calm = host.calm
      BY <1>2, <2>5, Zenon DEF HostType
    <3>2. host'.pc # "store"
      BY <3>1
    <3>3. LoadedSoFar(r, <<>>)'
      BY SMT DEF LoadedSoFar
    <3>4. LoadedSoFar(r, host.bytes)'
      BY <3>1, <3>3, Zenon DEF LoadedSoFar
    <3>5. CalmInv'
      BY <2>1, <3>1, <3>2, <3>4, Zenon DEF CalmInv
    <3> QED
      BY <1>2, <2>5, <3>5, NoAnswerIsTrue, Zenon
  <2>6. CASE /\ ReadsWords(r) /\ ~ Exist(r.addr, r.count, NHold)
             /\ host' = Idle /\ Answered(r, IllegalAddress, <<>>, host.calm, TRUE)
    <3>1. IllegalAddress # 0
      BY SMT DEF IllegalAddress
    <3>2. ASSUME NEW calm, calm = host.calm PROVE AnswersAreTrue'
      <4>1. Truly(r, IllegalAddress, <<>>, calm)'
        BY <3>1, Zenon DEF Truly, IllegalAddress
      <4>2. Answered(r, IllegalAddress, <<>>, calm, TRUE)
        BY <2>6, <3>2
      <4> QED
        BY <4>1, <4>2, TrueAnswer, Zenon
    <3> QED
      BY <2>3, <2>6, <3>2
  <2> QED
    BY <1>9, <2>4, <2>5, <2>6, Zenon DEF AfterStores
<1> QED
  BY <1>1, <1>8, <1>9, Zenon

(* One more byte is loaded, and the registers are those of before. *)
LEMMA OneMoreLoaded ==
  ASSUME NEW r, NEW old \in Seq(Int), NEW k \in Nat, Len(old) = k, LoadedSoFar(r, old),
         NEW b \in Int, b = LoadedByte(k, Register(r.addr + k \div 2)),
         NEW bytes, bytes = Append(old, b)
  PROVE  LoadedSoFar(r, bytes)
<1>1. bytes \in Seq(Int) /\ Len(bytes) = k + 1
  BY SMT
<1>2. SUFFICES ASSUME NEW n \in 1 .. (k + 1)
               PROVE  bytes[n] = LoadedByte(n - 1, Register(r.addr + (n - 1) \div 2))
  BY <1>1 DEF LoadedSoFar
<1>3. CASE n = k + 1
  <2>1. bytes[n] = b /\ n - 1 = k
    BY <1>3, SMT
  <2> QED
    BY <2>1
<1>4. CASE n \in 1 .. k
  <2>1. bytes[n] = old[n]
    BY <1>4, SMT
  <2> QED
    BY <1>4, <2>1 DEF LoadedSoFar
<1> QED
  BY <1>2, <1>3, <1>4, SMT

LEMMA LoadByteIsTrue ==
  ASSUME HostInv, CalmInv, LoadByte
  PROVE  CalmInv' /\ AnswersAreTrue'
<1>1. PICK r \in HostRequests :
        /\ InProgress(r) /\ ReadsWords(r) /\ Exist(r.addr, r.count, NHold)
        /\ r.count \in Nat \ {0} /\ host.k \in Nat
        /\ \E bytes :
             /\ bytes = Append(host.bytes,
                               LoadedByte(host.k, Register(r.addr + host.k \div 2)))
             /\ \/ /\ host.k + 1 < 2 * r.count
                   /\ host' = [host EXCEPT !.k = @ + 1, !.bytes = bytes]
                   /\ answer' = answer
                \/ /\ host.k + 1 = 2 * r.count /\ host' = Idle
                   /\ Answered(r, 0, WordsOf(bytes), host.calm, WritesWords(r))
        /\ UNCHANGED <<hold, coils, served, want>>
  BY LoadByteEffect, Zenon
<1>2. /\ host \in HostType /\ host.req = {r} /\ ~ SentBack(r) /\ Exception(r) = 0
      /\ answer = NoAnswer /\ host.pc = "load" /\ Len(host.bytes) = host.k
      /\ hold \in [Stored -> UShort] /\ hold' = hold
  BY <1>1, Zenon DEF HostInv, InProgress, LoadByte
<1>3. PICK bytes :
        /\ bytes = Append(host.bytes, LoadedByte(host.k, Register(r.addr + host.k \div 2)))
        /\ \/ /\ host.k + 1 < 2 * r.count
              /\ host' = [host EXCEPT !.k = @ + 1, !.bytes = bytes] /\ answer' = answer
           \/ /\ host.k + 1 = 2 * r.count /\ host' = Idle
              /\ Answered(r, 0, WordsOf(bytes), host.calm, WritesWords(r))
  BY <1>1
<1>4. host.bytes \in Seq(Int)
  BY <1>2, Zenon DEF HostType
<1>5. LoadedByte(host.k, Register(r.addr + host.k \div 2)) \in Int
  <2>1. LoadedByte(host.k, Register(r.addr + host.k \div 2)) \in 0 .. 255
    BY <1>1, <1>2, LoadedByteIsByte, ZenonT(60)
  <2> QED
    BY <2>1, SMT
<1>6. bytes \in Seq(Int) /\ Len(bytes) = host.k + 1
  BY <1>2, <1>3, <1>4, <1>5, SMT
<1>7. host.calm => /\ LoadedSoFar(r, bytes)
                   /\ WritesWords(r) => StoredSoFar(hold, r, 2 * WriteCount(r))
  <2>1. host.calm => /\ LoadedSoFar(r, host.bytes)
                     /\ WritesWords(r) => StoredSoFar(hold, r, 2 * WriteCount(r))
    BY <1>2, Zenon DEF CalmInv
  <2>2. host.calm => LoadedSoFar(r, bytes)
    BY <1>1, <1>2, <1>3, <1>4, <1>5, <2>1, OneMoreLoaded
  <2> QED
    BY <2>1, <2>2
<1>8. CASE /\ host.k + 1 < 2 * r.count
           /\ host' = [host EXCEPT !.k = @ + 1, !.bytes = bytes] /\ answer' = answer
  <2>1. /\ host'.pc = "load" /\ host'.req = {r} /\ host'.bytes = bytes
        /\ host'.calm = host.calm
    BY <1>2, <1>8, Zenon DEF HostType
  <2>2. host'.pc # "store"
    BY <2>1
  <2>3. LoadedSoFar(r, bytes) => LoadedSoFar(r, host.bytes)'
    BY <1>2, <2>1, Zenon DEF LoadedSoFar, Register
  <2>4. CalmInv'
    BY <1>2, <1>7, <2>1, <2>2, <2>3, Zenon DEF CalmInv
  <2> QED
    BY <1>2, <1>8, <2>4, NoAnswerIsTrue, Zenon
<1>9. CASE /\ host.k + 1 = 2 * r.count /\ host' = Idle
           /\ Answered(r, 0, WordsOf(bytes), host.calm, WritesWords(r))
  <2>1. CalmInv'
    BY <1>9, IdleIsTyped, Zenon DEF CalmInv
  <2>2. r.count \in Nat /\ r.addr \in Nat /\ Len(bytes) = 2 * r.count
    <3>1. r.addr \in UShort
      BY Numbers
    <3> QED
      BY <1>1, <1>6, <1>9, <3>1, UShortIs
  <2>3. LoadedSoFar(r, bytes) =>
          /\ Len(WordsOf(bytes)) = r.count
          /\ \A j \in 1 .. r.count : WordsOf(bytes)[j] = Register(r.addr + j - 1)
    BY <1>2, <1>6, <2>2, AllLoaded
  <2>4. WritesWords(r) /\ StoredSoFar(hold, r, 2 * WriteCount(r)) =>
          \A j \in 1 .. WriteCount(r) :
            WriteAddr(r) + j - 1 \in Stored => Register(WriteAddr(r) + j - 1)' = r.data[j]
    <3>1. WritesWords(r) => WriteCount(r) \in Nat
      BY <1>2, AcceptedWords
    <3> QED
      BY <1>2, <3>1, AllStored
  <2>5. r.fc # 1 /\ hold' = hold
    BY <1>1, <1>2, SMT DEF ReadsWords
  <2>6. ASSUME NEW calm, calm = host.calm, NEW words, words = WordsOf(bytes),
               NEW stored, stored = WritesWords(r)
        PROVE  AnswersAreTrue'
    <3>1. calm => \A j \in 1 .. r.count : words[j] = Register(r.addr + j - 1)'
      BY <1>7, <2>3, <2>5, <2>6, Zenon DEF Register
    <3>2. Truly(r, 0, words, calm)'
      BY <1>7, <2>3, <2>4, <2>5, <2>6, <3>1, Zenon DEF Truly
    <3>3. Answered(r, 0, words, calm, stored)
      BY <1>9, <2>6, Zenon
    <3> QED
      BY <3>2, <3>3, TrueAnswer, Zenon
  <2> QED
    BY <2>1, <2>6, Zenon
<1> QED
  BY <1>3, <1>8, <1>9, Zenon

LEMMA TakeRequestIsTrue ==
  ASSUME HostInv, CalmInv, NEW r \in HostRequests, TakeRequest(r)
  PROVE  CalmInv' /\ AnswersAreTrue'
<1>1. host.pc = "idle"
  BY Zenon DEF TakeRequest
<1>2. CASE AnswerAtOnce(r)
  <2>1. host' = host
    BY <1>2, Zenon DEF AnswerAtOnce
  <2>2. CalmInv'
    BY <1>1, <2>1, Zenon DEF CalmInv
  <2> QED
    BY <1>2, <2>2, AtOnceIsTrue
<1>3. CASE Begin(r)
  <2>1. /\ host' = [Idle EXCEPT !.pc = IF WritesWords(r) THEN "store" ELSE "load",
                                !.req = {r}]
        /\ answer' = NoAnswer
    BY <1>3, Zenon DEF Begin
  <2>2. ASSUME NEW pc, host' = [Idle EXCEPT !.pc = pc, !.req = {r}]
        PROVE  host'.pc = pc /\ host'.req = {r} /\ host'.k = 0 /\ host'.bytes = <<>>
    <3>1. host' = [pc |-> pc, req |-> {r}, k |-> 0, bytes |-> <<>>, calm |-> TRUE]
      BY <2>2, Zenon DEF Idle
    <3> QED
      BY <3>1, Zenon
  <2>3. /\ host'.pc = (IF WritesWords(r) THEN "store" ELSE "load")
        /\ host'.req = {r} /\ host'.k = 0 /\ host'.bytes = <<>>
    BY <2>1, <2>2, Zenon
  <2>4. StoredSoFar(hold', r, 0)
    <3>1. \A j \in 1 .. WriteCount(r) : ~ (2 * j <= 0) /\ ~ (2 * j = 0 + 1)
      BY SMT
    <3> QED
      BY <3>1 DEF StoredSoFar
  <2>5. LoadedSoFar(r, <<>>)'
    BY SMT DEF LoadedSoFar
  <2>6. LoadedSoFar(r, host.bytes)'
    BY <2>3, <2>5, Zenon DEF LoadedSoFar
  <2>7. CASE WritesWords(r)
    <3>1. host'.pc = "store" /\ host'.pc # "load"
      BY <2>3, <2>7
    <3>2. StoredSoFar(hold, r, host.k)'
      BY <2>3, <2>4, Zenon DEF StoredSoFar
    <3>3. CalmInv'
      BY <2>3, <3>1, <3>2, Zenon DEF CalmInv
    <3> QED
      BY <2>1, <3>3, NoAnswerIsTrue
  <2>8. CASE ~ WritesWords(r)
    <3>1. host'.pc = "load" /\ host'.pc # "store"
      BY <2>3, <2>8
    <3>2. CalmInv'
      BY <2>3, <2>6, <2>8, <3>1, Zenon DEF CalmInv
    <3> QED
      BY <2>1, <3>2, NoAnswerIsTrue
  <2> QED
    BY <2>7, <2>8
<1> QED
  BY <1>2, <1>3, Zenon DEF TakeRequest

LEMMA SlaveNextIsTrue ==
  ASSUME HostInv, CalmInv, SlaveNext
  PROVE  CalmInv' /\ AnswersAreTrue'
BY TakeRequestIsTrue, StoreByteIsTrue, LoadByteIsTrue, Zenon DEF SlaveNext

LEMMA DisturbanceIsNoted ==
  ASSUME HostInv, answer' = NoAnswer,
         host' = [host EXCEPT !.calm = (host.pc = "idle")]
  PROVE  CalmInv' /\ AnswersAreTrue'
<1>1. host \in HostType
  BY DEF HostInv
<1>2. host'.pc = host.pc /\ host'.calm = (host.pc = "idle")
  BY <1>1, Zenon DEF HostType
<1>3. CalmInv'
  BY <1>2, Zenon DEF CalmInv
<1> QED
  BY <1>3, NoAnswerIsTrue

LEMMA StutterIsTrue ==
  ASSUME CalmInv, AnswersAreTrue, UNCHANGED slaveVars
  PROVE  CalmInv' /\ AnswersAreTrue'
<1>1. hold' = hold /\ coils' = coils /\ host' = host /\ answer' = answer
  BY Zenon DEF slaveVars
<1>2. \A a : Register(a)' = Register(a)
  BY <1>1, Zenon DEF Register
<1>3. CalmInv'
  <2>1. SUFFICES ASSUME host.calm, host.pc # "idle", NEW r \in host.req
                 PROVE  /\ host.pc = "store" => StoredSoFar(hold, r, host.k)'
                        /\ host.pc = "load" =>
                             /\ WritesWords(r) => StoredSoFar(hold, r, 2 * WriteCount(r))'
                             /\ LoadedSoFar(r, host.bytes)'
    BY <1>1, Zenon DEF CalmInv
  <2>2. /\ host.pc = "store" => StoredSoFar(hold, r, host.k)
        /\ host.pc = "load" => /\ WritesWords(r) => StoredSoFar(hold, r, 2 * WriteCount(r))
                               /\ LoadedSoFar(r, host.bytes)
    BY <2>1, Zenon DEF CalmInv
  <2>4. StoredSoFar(hold, r, host.k) => StoredSoFar(hold, r, host.k)'
    BY <1>1, Zenon DEF StoredSoFar
  <2>5. StoredSoFar(hold, r, 2 * WriteCount(r)) => StoredSoFar(hold, r, 2 * WriteCount(r))'
    BY <1>1, Zenon DEF StoredSoFar
  <2>6. LoadedSoFar(r, host.bytes) => LoadedSoFar(r, host.bytes)'
    BY <1>1, <1>2, Zenon DEF LoadedSoFar
  <2> QED
    BY <2>2, <2>4, <2>5, <2>6, Zenon
<1>4. AnswersAreTrue'
  <2>1. ASSUME NEW r, NEW ex, NEW words, NEW calm, Truly(r, ex, words, calm)
        PROVE  Truly(r, ex, words, calm)'
    BY <1>1, <1>2, <2>1, Zenon DEF Truly
  <2>2. \A r \in answer.to : Truly(r, answer.ex, answer.words, answer.calm)
    BY Zenon DEF AnswersAreTrue, Truly
  <2>3. ASSUME NEW r, NEW ex, NEW words, NEW calm, NEW to,
               answer = answer', to = answer.to, ex = answer.ex, words = answer.words,
               calm = answer.calm, r \in to
        PROVE  Truly(r, ex, words, calm)'
    BY <2>1, <2>2, <2>3, Zenon
  <2>4. SUFFICES ASSUME NEW r \in answer'.to
                 PROVE  Truly(r, answer.ex, answer.words, answer.calm)'
    BY Zenon DEF AnswersAreTrue, Truly
  <2>5. PICK ex, words, calm : ex = answer.ex /\ words = answer.words /\ calm = answer.calm
    BY Zenon
  <2>6. Truly(r, ex, words, calm)'
    BY <1>1, <2>3, <2>4, <2>5, Zenon
  <2> QED
    BY <1>1, <2>5, <2>6, Zenon DEF Truly
<1> QED
  BY <1>3, <1>4

LEMMA SlaveStartsCalm ==
  ASSUME SlaveInit
  PROVE  CalmInv /\ AnswersAreTrue
<1>1. host.pc = "idle"
  BY IdleIsTyped, Zenon DEF SlaveInit
<1>2. answer.to = {}
  BY Zenon DEF SlaveInit, NoAnswer
<1> QED
  BY <1>1, <1>2, Zenon DEF CalmInv, AnswersAreTrue
-----------------------------------------------------------------------------
(* The coils *)

(* The coils addr .. addr + n - 1 as data says, eight to a byte, the others *)
(* as they were.                                                            *)
Over(bits, addr, n, data) ==
  {c \in bits : c < addr \/ c >= addr + n}
    \cup {c \in addr .. (addr + n - 1) : (c - addr) % 8 \in data[((c - addr) \div 8) + 1]}

(* Where a coil stands in the bytes of a request. *)
LEMMA CoilPlace ==
  ASSUME NEW addr \in Nat, NEW b \in Nat, NEW j \in 0 .. 7
  PROVE  /\ ((addr + 8 * b + j) - addr) % 8 = j
         /\ (((addr + 8 * b + j) - addr) \div 8) + 1 = b + 1
<1>1. (addr + 8 * b + j) - addr = 8 * b + j
  BY SMT
<1>2. (8 * b + j) % 8 = j /\ (8 * b + j) \div 8 = b
  BY SMT
<1> QED
  BY <1>1, <1>2

(* Every set of natural numbers that is not empty has a smallest. *)
LEMMA LeastNat ==
  ASSUME NEW T \in SUBSET Nat, T # {}
  PROVE  \E x \in T : \A y \in T : x <= y
<1>1. PICK x \in T : \A y \in T : ~ (<<y, x>> \in OpToRel(<, Nat))
  BY NatLessThanWellFounded, WFMin
<1>2. \A y \in T : y < x => <<y, x>> \in OpToRel(<, Nat)
  BY DEF OpToRel
<1>3. \A y \in T : ~ (y < x)
  BY <1>1, <1>2
<1> QED
  BY <1>3

(* One call of xMBUtilSetBits more: the first n bits of the next byte. *)
LEMMA SetBitsIs ==
  ASSUME NEW bits \in SUBSET Int, NEW addr \in Nat, NEW b \in Nat, NEW n \in 0 .. 8,
         NEW data, data[b + 1] \subseteq 0 .. (n - 1)
  PROVE  xMBUtilSetBits(Over(bits, addr, 8 * b, data), addr + 8 * b, n, data[b + 1])
           = Over(bits, addr, 8 * b + n, data)
<1> DEFINE D(c) == (c - addr) % 8 \in data[((c - addr) \div 8) + 1]
           L == xMBUtilSetBits(Over(bits, addr, 8 * b, data), addr + 8 * b, n, data[b + 1])
           R == Over(bits, addr, 8 * b + n, data)
           d == data[b + 1]
<1>1. \A c : c \in L <=>
        \/ /\ \/ c \in bits /\ (c < addr \/ c >= addr + 8 * b)
              \/ c \in addr .. (addr + 8 * b - 1) /\ D(c)
           /\ c \notin (addr + 8 * b) .. (addr + 8 * b + n - 1)
        \/ \E j \in d : c = addr + 8 * b + j
  BY Zenon DEF xMBUtilSetBits, Over
<1>2. \A c : c \in R <=>
        \/ c \in bits /\ (c < addr \/ c >= addr + (8 * b + n))
        \/ c \in addr .. (addr + (8 * b + n) - 1) /\ D(c)
  BY Zenon DEF Over
<1>3. d \subseteq 0 .. (n - 1)
  OBVIOUS
<1>4. \A j \in 0 .. (n - 1) : D(addr + 8 * b + j) <=> j \in d
  <2> TAKE j \in 0 .. (n - 1)
  <2>1. j \in 0 .. 7
    BY SMT
  <2> QED
    BY <2>1, CoilPlace, Zenon
<1>5. L \in SUBSET Int /\ R \in SUBSET Int
  <2> HIDE DEF D, L, R, d
  <2>1. \A c : c \in L => c \in Int
    <3>1. \A c, lo, hi : c \in lo .. hi => c \in Int
      BY SMT
    <3>2. ASSUME NEW c, \E j \in d : c = addr + 8 * b + j
          PROVE  c \in Int
      <4>1. PICK j \in d : c = addr + 8 * b + j
        BY <3>2
      <4>2. j \in 0 .. (n - 1)
        BY <1>3, Zenon
      <4> QED
        BY <4>1, <4>2, SMT
    <3>3. \A c \in bits : c \in Int
      OBVIOUS
    <3>4. ASSUME NEW c \in L
          PROVE  c \in bits \/ c \in addr .. (addr + 8 * b - 1) \/ \E j \in d : c = addr + 8 * b + j
      BY <1>1, <3>4, Zenon
    <3> QED
      BY <3>1, <3>2, <3>3, <3>4, Zenon
  <2>2. \A c : c \in R => c \in Int
    <3>1. \A c, lo, hi : c \in lo .. hi => c \in Int
      BY SMT
    <3> QED
      BY <1>2, <3>1, Zenon
  <2> QED
    BY <2>1, <2>2, Zenon
<1> HIDE DEF D, L, R, d
<1>6. ASSUME NEW c \in Int
      PROVE  c \in L <=> c \in R
  <2>1. CASE c \in (addr + 8 * b) .. (addr + 8 * b + n - 1)
    <3>1. PICK j \in 0 .. (n - 1) : c = addr + 8 * b + j
      <4>1. c - (addr + 8 * b) \in 0 .. (n - 1) /\ c = addr + 8 * b + (c - (addr + 8 * b))
        BY <2>1, SMT
      <4> QED
        BY <4>1, Zenon
    <3>2. D(c) <=> j \in d
      BY <1>4, <3>1, Zenon
    <3>3. \A i \in d : c = addr + 8 * b + i => i = j
      BY <1>3, <3>1, SMT
    <3>4. (\E i \in d : c = addr + 8 * b + i) <=> j \in d
      BY <3>1, <3>3, Zenon
    <3>5. ~ (c < addr \/ c >= addr + (8 * b + n)) /\ c \in addr .. (addr + (8 * b + n) - 1)
      BY <2>1, SMT
    <3> QED
      BY <1>1, <1>2, <2>1, <3>2, <3>4, <3>5, Zenon
  <2>2. CASE c \notin (addr + 8 * b) .. (addr + 8 * b + n - 1)
    <3>1. ~ \E i \in d : c = addr + 8 * b + i
      BY <1>3, <2>2, SMT
    <3>2. /\ (c < addr \/ c >= addr + 8 * b) <=> (c < addr \/ c >= addr + (8 * b + n))
          /\ c \in addr .. (addr + 8 * b - 1) <=> c \in addr .. (addr + (8 * b + n) - 1)
      BY <2>2, SMT
    <3> QED
      BY <1>1, <1>2, <2>2, <3>1, <3>2, Zenon
  <2> QED
    BY <2>1, <2>2
<1>7. L = R
  BY <1>5, <1>6, Zenon
<1> QED
  BY <1>7 DEF L, R, d

(* The loop of eMBRegCoilsCB over the whole bytes: b of them are done.      *)
(* After is what the recursive definition in WrittenCoils stands for.       *)
Byte8(addr, data, b, bits) == xMBUtilSetBits(bits, addr + 8 * (b - 1), 8, data[b])

After(addr, data, n) ==
  CHOOSE f : f = [b \in 0 .. n |-> IF b = 0 THEN coils ELSE Byte8(addr, data, b, f[b - 1])]

LEMMA WholeBytes ==
  ASSUME NEW addr \in Nat, NEW n \in Nat, NEW data, coils \in SUBSET Int,
         \A b \in 1 .. n : data[b] \subseteq 0 .. 7
  PROVE  After(addr, data, n)[n] = Over(coils, addr, 8 * n, data)
<1> DEFINE after == After(addr, data, n)
           W == [b \in 0 .. n |-> Over(coils, addr, 8 * b, data)]
           Step(f) == [b \in 0 .. n |->
                              IF b = 0 THEN coils ELSE Byte8(addr, data, b, f[b - 1])]
<1>1. Over(coils, addr, 8 * 0, data) = coils
  <2>1. \A c \in coils : c < addr \/ c >= addr + 8 * 0
    BY SMT
  <2>2. ~ \E c : c \in addr .. (addr + 8 * 0 - 1)
    BY SMT
  <2> QED
    BY <2>1, <2>2, Zenon DEF Over
<1>2. ASSUME NEW b \in 1 .. n
      PROVE  Byte8(addr, data, b, Over(coils, addr, 8 * (b - 1), data))
               = Over(coils, addr, 8 * b, data)
  <2>1. PICK k \in Nat : k = b - 1
    BY SMT
  <2>2. k + 1 = b /\ 8 * k + 8 = 8 * b /\ 8 \in 0 .. 8 /\ 8 - 1 = 7
    BY <2>1, SMT
  <2>3. data[k + 1] \subseteq 0 .. (8 - 1)
    BY <2>2
  <2>4. xMBUtilSetBits(Over(coils, addr, 8 * k, data), addr + 8 * k, 8, data[k + 1])
           = Over(coils, addr, 8 * k + 8, data)
    BY <2>2, <2>3, SetBitsIs
  <2> QED
    BY <2>1, <2>2, <2>4, Zenon DEF Byte8
<1>3. W = Step(W)
  <2>1. ASSUME NEW b \in 0 .. n
        PROVE  W[b] = IF b = 0 THEN coils ELSE Byte8(addr, data, b, W[b - 1])
    <3>1. CASE b = 0
      BY <1>1, <3>1, Zenon
    <3>2. CASE b # 0
      <4>1. b \in 1 .. n /\ b - 1 \in 0 .. n
        BY <3>2, SMT
      <4>2. W[b - 1] = Over(coils, addr, 8 * (b - 1), data)
        BY <4>1, Zenon
      <4> QED
        BY <1>2, <3>2, <4>1, <4>2, Zenon
    <3> QED
      BY <3>1, <3>2
  <2>2. \A b \in 0 .. n : Over(coils, addr, 8 * b, data) = W[b]
    BY Zenon
  <2>3. ASSUME NEW F, F = W
        PROVE  [b \in 0 .. n |-> F[b]] = Step(F)
    BY <2>1, <2>3, Zenon
  <2> QED
    BY <2>3, Zenon
<1> HIDE DEF W
<1>4. after = Step(after)
  BY <1>3, Zenon DEF After
<1> HIDE DEF after
<1>5. \A b \in 0 .. n : after[b] = IF b = 0 THEN coils ELSE Byte8(addr, data, b, after[b - 1])
  <2>1. ASSUME NEW F, F = Step(after), NEW b \in 0 .. n
        PROVE  F[b] = IF b = 0 THEN coils ELSE Byte8(addr, data, b, after[b - 1])
    BY <2>1, Zenon
  <2> QED
    BY <1>4, <2>1, Zenon
<1> HIDE DEF Step
<1> DEFINE T == {b \in 0 .. n : after[b] # Over(coils, addr, 8 * b, data)}
<1>6. T = {}
  <2>1. SUFFICES ASSUME T # {} PROVE FALSE
    OBVIOUS
  <2>2. T \in SUBSET Nat
    BY SMT
  <2>3. PICK b \in T : \A y \in T : b <= y
    BY <2>1, <2>2, LeastNat
  <2>4. b \in 0 .. n /\ after[b] # Over(coils, addr, 8 * b, data)
    BY Zenon
  <2>5. b # 0
    BY <1>1, <1>5, <2>4, Zenon
  <2>6. b \in 1 .. n /\ b - 1 \in 0 .. n
    BY <2>4, <2>5, SMT
  <2>7. b - 1 \notin T
    <3>1. b \in Nat /\ ~ (b <= b - 1)
      BY <2>4, SMT
    <3> QED
      BY <2>3, <3>1, Zenon
  <2>8. after[b - 1] = Over(coils, addr, 8 * (b - 1), data)
    BY <2>6, <2>7, Zenon
  <2>9. after[b] = Byte8(addr, data, b, after[b - 1])
    BY <1>5, <2>4, <2>5, Zenon
  <2> QED
    BY <1>2, <2>4, <2>6, <2>8, <2>9, Zenon
<1>7. n \in 0 .. n
  BY SMT
<1> QED
  BY <1>6, <1>7, Zenon DEF after

(* The whole bytes of a number of coils, and the coils that are left. *)
LEMMA BytesAndBits ==
  ASSUME NEW count \in Nat
  PROVE  count \div 8 \in Nat /\ count % 8 \in 0 .. 8 /\ 8 * (count \div 8) + (count % 8) = count
<1>1. PICK n \in Nat, m \in 0 .. 7 : n = count \div 8 /\ m = count % 8 /\ 8 * n + m = count
  BY SMT
<1>2. m \in 0 .. 8
  BY SMT
<1> QED
  BY <1>1, <1>2

LEMMA WrittenCoilsIs ==
  ASSUME NEW addr \in Nat, NEW count \in Nat, NEW data, coils \in SUBSET Int,
         \A b \in 1 .. (count \div 8) : data[b] \subseteq 0 .. 7,
         count % 8 # 0 => data[(count \div 8) + 1] \subseteq 0 .. ((count % 8) - 1)
  PROVE  WrittenCoils(addr, count, data) = Over(coils, addr, count, data)
<1> DEFINE n == count \div 8
           m == count % 8
           after == After(addr, data, n)
<1>1. n \in Nat /\ m \in 0 .. 8 /\ 8 * n + m = count
  BY BytesAndBits
<1>2. WrittenCoils(addr, count, data) =
        IF m = 0 THEN after[n] ELSE xMBUtilSetBits(after[n], addr + 8 * n, m, data[n + 1])
  BY Zenon DEF WrittenCoils, After, Byte8
<1>3. after[n] = Over(coils, addr, 8 * n, data)
  <2>1. \A b \in 1 .. n : data[b] \subseteq 0 .. 7
    OBVIOUS
  <2> HIDE DEF n
  <2> QED
    BY <1>1, <2>1, WholeBytes
<1> HIDE DEF after, n, m
<1>4. CASE m = 0
  <2>1. 8 * n = count
    BY <1>1, <1>4, SMT
  <2> QED
    BY <1>2, <1>3, <1>4, <2>1, Zenon
<1>5. CASE m # 0
  <2>1. data[n + 1] \subseteq 0 .. (m - 1)
    BY <1>5 DEF n, m
  <2>2. xMBUtilSetBits(Over(coils, addr, 8 * n, data), addr + 8 * n, m, data[n + 1])
          = Over(coils, addr, 8 * n + m, data)
    BY <1>1, <2>1, SetBitsIs
  <2> QED
    BY <1>1, <1>2, <1>3, <1>5, <2>2, Zenon
<1> QED
  BY <1>4, <1>5

(* The range of an accepted write of coils, and the bits it carries. *)
LEMMA AcceptedCoils ==
  ASSUME UnusedBitsAreZero, NEW r \in HostRequests, r.fc \in {5, 15}, Exception(r) = 0
  PROVE  /\ r.addr \in Nat /\ CoilCount(r) \in Nat /\ r.addr + CoilCount(r) <= NCoils
         /\ \A b \in 1 .. (CoilCount(r) \div 8) : r.data[b] \subseteq 0 .. 7
         /\ CoilCount(r) % 8 # 0 =>
              r.data[(CoilCount(r) \div 8) + 1] \subseteq 0 .. ((CoilCount(r) % 8) - 1)
<1>1. ~ SentBack(r) /\ r.fc # 17
  BY SMT DEF SentBack
<1>2. /\ FirstRange(r)[1] \in UShort /\ FirstRange(r)[2] \in Nat \ {0}
      /\ FirstRange(r)[3] \in Nat
      /\ Exception(r) = Looked(FirstRange(r)[1], FirstRange(r)[2], FirstRange(r)[3])
  BY <1>1, FirstRangeChecked
<1>3. FirstRange(r) = <<r.addr, CoilCount(r), NCoils>>
  BY SMT DEF FirstRange, CoilCount
<1>4. /\ r.addr \in UShort /\ CoilCount(r) \in Nat \ {0} /\ NCoils \in Nat
      /\ Exist(r.addr, CoilCount(r), NCoils)
  BY <1>2, <1>3, SMT DEF Looked, IllegalAddress
<1>5. r.addr \in Nat /\ CoilCount(r) \in Nat /\ r.addr + CoilCount(r) <= NCoils
  <2>1. r.addr + CoilCount(r) <= NCoils
    BY <1>4, ExistMeansAll
  <2>2. r.addr \in Nat
    BY <1>4, UShortIs
  <2> QED
    BY <1>4, <2>1, <2>2
<1>6. CASE r.fc = 5
  <2>1. CoilCount(r) = 1 /\ 1 \div 8 = 0 /\ 1 % 8 = 1 /\ 0 + 1 = 1 /\ 1 - 1 = 0
    BY <1>6, SMT DEF CoilCount
  <2>2. r.data[1] \in {{0}, {}}
    BY <1>6, HandlerOf, SMT DEF eMBFuncWriteCoil, IllegalValue
  <2>3. 0 \in 0 .. 0 /\ ~ \E b : b \in 1 .. 0
    BY SMT
  <2>4. r.data[1] \subseteq 0 .. 0
    BY <2>2, <2>3, Zenon
  <2> QED
    BY <1>5, <2>1, <2>3, <2>4, Zenon
<1>7. CASE r.fc = 15
  <2>1. CoilCount(r) = r.count
    BY <1>7, SMT DEF CoilCount
  <2>2. \A b \in 1 .. CoilBytes(r.count) : r.data[b] \subseteq 0 .. 7
    BY <2>1, HostDataAssumption
  <2>3. ASSUME NEW n \in Nat, NEW b \in 1 .. (n \div 8)
        PROVE  b \in 1 .. CoilBytes(n)
    BY SMT DEF CoilBytes
  <2>4. \A b \in 1 .. (CoilCount(r) \div 8) : r.data[b] \subseteq 0 .. 7
    BY <1>5, <2>1, <2>2, <2>3, Zenon
  <2>5. r.count % 8 # 0 => r.data[(r.count \div 8) + 1] \subseteq 0 .. ((r.count % 8) - 1)
    BY <1>7, Zenon DEF UnusedBitsAreZero
  <2> QED
    BY <1>5, <2>1, <2>4, <2>5, Zenon
<1> QED
  BY <1>6, <1>7

(* The coils exist, and are as the host asked. *)
CoilInv == coils \subseteq 0 .. (NCoils - 1) /\ coils = want

LEMMA CoilsWritten ==
  ASSUME UnusedBitsAreZero, CoilInv, NEW r \in HostRequests, r.fc \in {5, 15},
         Exception(r) = 0
  PROVE  /\ WrittenCoils(r.addr, CoilCount(r), r.data) = AskedCoils(r)
         /\ WrittenCoils(r.addr, CoilCount(r), r.data) \subseteq 0 .. (NCoils - 1)
<1> DEFINE n == CoilCount(r)
           O == Over(coils, r.addr, n, r.data)
<1>1. /\ r.addr \in Nat /\ n \in Nat /\ r.addr + n <= NCoils
      /\ \A b \in 1 .. (n \div 8) : r.data[b] \subseteq 0 .. 7
      /\ n % 8 # 0 => r.data[(n \div 8) + 1] \subseteq 0 .. ((n % 8) - 1)
  BY AcceptedCoils
<1>2. coils \in SUBSET Int
  <2>1. \A c, lo, hi : c \in lo .. hi => c \in Int
    BY SMT
  <2> QED
    BY <2>1, Zenon DEF CoilInv
<1>3. WrittenCoils(r.addr, n, r.data) = O
  BY <1>1, <1>2, WrittenCoilsIs
<1>4. AskedCoils(r) = O
  BY Zenon DEF AskedCoils, Over, CoilInv
<1>5. O \subseteq 0 .. (NCoils - 1)
  <2>1. \A c \in r.addr .. (r.addr + n - 1) : c \in 0 .. (NCoils - 1)
    BY <1>1, Sizes, SMT
  <2> QED
    BY <2>1, Zenon DEF Over, CoilInv
<1> QED
  BY <1>3, <1>4, <1>5, Zenon

LEMMA SlaveNextCoils ==
  ASSUME UnusedBitsAreZero, CoilInv, SlaveNext
  PROVE  CoilInv'
<1>1. CASE UNCHANGED <<coils, want>>
  BY <1>1, Zenon DEF CoilInv
<1>2. ASSUME NEW r \in HostRequests, r.fc \in {5, 15}, Exception(r) = 0,
             coils' = WrittenCoils(r.addr, CoilCount(r), r.data), want' = AskedCoils(r)
      PROVE  CoilInv'
  BY <1>2, CoilsWritten, Zenon DEF CoilInv
<1>3. ASSUME NEW r \in HostRequests, TakeRequest(r)
      PROVE  CoilInv'
  <2>1. CASE AnswerAtOnce(r)
    BY <1>1, <1>2, <2>1, Zenon DEF AnswerAtOnce
  <2>2. CASE Begin(r)
    BY <1>1, <2>2, Zenon DEF Begin
  <2> QED
    BY <1>3, <2>1, <2>2, Zenon DEF TakeRequest
<1>4. CASE StoreByte
  BY <1>1, <1>4, Zenon DEF StoreByte
<1>5. CASE LoadByte
  BY <1>1, <1>5, Zenon DEF LoadByte
<1> QED
  BY <1>3, <1>4, <1>5, Zenon DEF SlaveNext

(* The bytes that are stored or loaded next belong to usSRegHoldBuf. *)
LEMMA NextByteExists ==
  ASSUME HostInv, NEW r \in host.req
  PROVE  /\ host.pc = "store" => WriteAddr(r) + (host.k \div 2) \in 0 .. (NHold - 1)
         /\ host.pc = "load" => r.addr + (host.k \div 2) \in 0 .. (NHold - 1)
<1>1. host \in HostType /\ (host.pc # "idle" => \E q \in HostRequests : InProgress(q))
  BY DEF HostInv
<1>2. host.k \in Nat
  BY <1>1, Zenon DEF HostType
<1>3. ASSUME host.pc # "idle"
      PROVE  r \in HostRequests /\ InProgress(r)
  BY <1>1, <1>3, Zenon DEF InProgress
<1>4. ASSUME NEW a \in UShort, NEW n \in Nat, NEW k \in Nat, a + n <= NHold, k < 2 * n
      PROVE  a + (k \div 2) \in 0 .. (NHold - 1)
  <2>1. a \in Nat
    BY UShortIs
  <2> QED
    BY <1>4, <2>1, Sizes, SMT
<1>5. CASE host.pc = "store"
  <2>1. host.pc # "idle" /\ host.pc # "load"
    BY <1>5
  <2>2. /\ r \in HostRequests /\ ~ SentBack(r) /\ Exception(r) = 0
        /\ WritesWords(r) /\ host.k < 2 * WriteCount(r)
    BY <1>3, <1>5, <2>1, Zenon DEF InProgress
  <2>3. WriteAddr(r) \in UShort /\ WriteCount(r) \in Nat /\ WriteAddr(r) + WriteCount(r) <= NHold
    BY <2>2, AcceptedWords
  <2> QED
    BY <1>2, <1>4, <2>1, <2>2, <2>3, Zenon
<1>6. CASE host.pc = "load"
  <2>1. host.pc # "idle" /\ host.pc # "store"
    BY <1>6
  <2>2. /\ r \in HostRequests /\ ~ SentBack(r) /\ Exception(r) = 0
        /\ ReadsWords(r) /\ host.k < 2 * r.count /\ Exist(r.addr, r.count, NHold)
    BY <1>3, <1>6, <2>1, Zenon DEF InProgress
  <2>3. r.addr \in UShort /\ r.count \in Nat \ {0}
    BY <2>2, AcceptedWords
  <2>4. r.addr + r.count <= NHold
    BY <2>2, <2>3, ExistMeansAll, Sizes
  <2> QED
    BY <1>2, <1>4, <2>1, <2>2, <2>3, <2>4, Zenon
<1> QED
  BY <1>5, <1>6, Zenon
===============================================================================
