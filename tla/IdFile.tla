------------------------------- MODULE IdFile -------------------------------
(***************************************************************************)
(* The text of DeviceId.csv: SaveDeviceIdFile writes one line "i,id," per  *)
(* slot, ReadDeviceIdFile brings the ids back at the next boot.  Both go   *)
(* through IntToStr and StrToInt, and SaveDeviceIdFile reuses one string   *)
(* buffer for all numbers.  ConfigStore stores and loads the ids in one    *)
(* piece; this module shows that the text between loses none of them.      *)
(***************************************************************************)
EXTENDS Naturals, Sequences

CONSTANTS
  N,        \* number of device ids (256 in the code)
  Half,     \* number of values of a register (2^16)
  Digits,   \* iterations of the loop of IntToStr (10)
  Words     \* the values that registers hold when the ids are saved

Nul    == 10                  \* '\0'; the other characters are the digits
Slots  == 0 .. (N - 1)
Pair   == [lo : 0 .. (Half - 1), hi : 0 .. (Half - 1)]
Value(p) == p.lo + Half * p.hi
Ten[k \in 0 .. Digits] == IF k = 0 THEN 1 ELSE 10 * Ten[k - 1]

ASSUME IdFileAssumption ==
  /\ N \in Nat \ {0} /\ Half \in Nat \ {0, 1} /\ Digits \in Nat \ {0}
  /\ Words \subseteq 0 .. (Half - 1)
  /\ N <= Half * Half /\ Half * Half <= Ten[Digits]

VARIABLES
  pc,     \* what SaveDeviceIdFile, or ReadDeviceIdFile after it, does next
  ids,    \* registers 0x708.. when the file is saved
  regs,   \* the same registers of the next boot
  line,   \* the loop variable of SaveDeviceIdFile
  str,    \* its string buffer, up to the longest number and a terminator
  file    \* the lines written so far; what is left of them when reading

vars == <<pc, ids, regs, line, str, file>>

Blank == [k \in 1 .. (Digits + 1) |-> Nul]

Init ==
  /\ pc = "index" /\ line = 0 /\ str = Blank /\ file = <<>>
  /\ ids \in [Slots -> [lo : Words, hi : Words]]
  /\ regs = [i \in Slots |-> [lo |-> 0, hi |-> 0]]

-----------------------------------------------------------------------------
(* Conversions *)

(* Iteration k of IntToStr: the digit overwrites a leading 0.  status # 0   *)
(* in the code is pos # 0 here.                                             *)
PutDigit(s, k) ==
  LET d == s.rest \div Ten[Digits - k] IN
  [str  |-> [s.str EXCEPT ![s.pos + 1] = d],
   rest |-> s.rest % Ten[Digits - k],
   pos  |-> IF d = 0 /\ s.pos = 0 THEN 0 ELSE s.pos + 1]

(* IntToStr(buf, n): the buffer after it; nothing writes a terminator. *)
IntToStr(buf, n) ==
  LET loop[k \in 0 .. Digits] ==
        IF k = 0 THEN [str |-> buf, rest |-> n, pos |-> 0]
                 ELSE PutDigit(loop[k - 1], k)
  IN  loop[Digits].str

(* strlen, and the characters a string holds, which is what f_puts writes. *)
StrLen(buf) == CHOOSE k \in 0 .. Digits :
                 /\ buf[k + 1] = Nul
                 /\ \A j \in 1 .. k : buf[j] # Nul
Text(buf)   == SubSeq(buf, 1, StrLen(buf))

(* A plausible slip: the last character stays. *)
ClearedOneShort(buf) ==
  [k \in DOMAIN buf |-> IF k < StrLen(buf) THEN Nul ELSE buf[k]]

(* memset(str, 0, strlen(str)) *)
Cleared(buf) == [k \in DOMAIN buf |-> IF k <= StrLen(buf) THEN Nul ELSE buf[k]]

(* StrToInt of a token: uint32_t arithmetic. *)
StrToInt(text) ==
  LET m[k \in 0 .. Len(text)] ==
        IF k = 0 THEN 0 ELSE (m[k - 1] * 10 + text[k]) % (Half * Half)
  IN  m[Len(text)]

-----------------------------------------------------------------------------
(* SaveDeviceIdFile *)

PutIndex ==
  /\ pc = "index"
  /\ LET buf == IntToStr(str, line) IN
     /\ file' = Append(file, [num |-> Text(buf), id |-> <<>>])
     /\ str' = Cleared(buf)
  /\ pc' = "id"
  /\ UNCHANGED <<ids, regs, line>>

PutId ==
  /\ pc = "id"
  /\ LET buf == IntToStr(str, Value(ids[line])) IN
     /\ file' = [file EXCEPT ![Len(file)].id = Text(buf)]
     /\ str' = Cleared(buf)
  /\ IF line + 1 < N
       THEN pc' = "index" /\ line' = line + 1
       ELSE pc' = "gets" /\ UNCHANGED line
  /\ UNCHANGED <<ids, regs>>

(* ReadDeviceIdFile: f_gets, strtok for the two numbers of the line, and    *)
(* the two register stores; num is a uint8_t, as large as the table.        *)
GetLine ==
  /\ pc = "gets" /\ file # <<>>
  /\ LET num  == StrToInt(Head(file).num) % N
         temp == StrToInt(Head(file).id)
     IN  regs' = [regs EXCEPT ![num] = [lo |-> temp % Half, hi |-> temp \div Half]]
  /\ file' = Tail(file)
  /\ UNCHANGED <<pc, ids, line, str>>

EndOfFile ==
  /\ pc = "gets" /\ file = <<>>
  /\ pc' = "done"
  /\ UNCHANGED <<ids, regs, line, str, file>>

Done == pc = "done" /\ UNCHANGED vars

Next == PutIndex \/ PutId \/ GetLine \/ EndOfFile \/ Done

Spec == Init /\ [][Next]_vars

-----------------------------------------------------------------------------
(* Properties *)

(* Every id survives SaveDeviceIdFile and ReadDeviceIdFile, in its own      *)
(* slot, whatever number was in the string buffer before it: numbers with   *)
(* zeros in front, inside and behind, 0 itself, and the largest.            *)
RestoresIds == pc = "done" => regs = ids
=============================================================================
