------------------------------ MODULE EVMState ------------------------------
(***************************************************************************)
(* What an execution of the EVM reads, writes and leaves behind.           *)
(*                                                                         *)
(* The instructions that are neither stack manipulation nor control flow   *)
(* mean the same to an interpreter of Venom and to one of assembly: an     *)
(* instruction takes its operands, the top of the stack first, and the     *)
(* world, and gives a word, a new world or both.                           *)
(*                                                                         *)
(* What can be seen of an execution is how it ends, the bytes it returns,  *)
(* what it has logged and whom it has called, in order, and the storage    *)
(* it leaves.  A revert undoes everything but the bytes.                   *)
(*                                                                         *)
(* A word is a number below Width, 2**256 in the EVM; a byte has ByteBits  *)
(* bits, and a word WordBytes bytes, 32 in the EVM.  Signed numbers are in *)
(* two's complement.                                                       *)
(***************************************************************************)
EXTENDS Integers, Sequences, SequencesExt, TLC

CONSTANTS WordBits,      \* bits of a word, 256
          ByteBits,      \* bits of a byte, 8
          MemoryTop,     \* bytes of memory an execution may touch
          Silent         \* addresses that answer a call with no bytes

ASSUME EVMStateAssumption ==
  /\ WordBits \in Nat \ {0} /\ ByteBits \in Nat \ {0}
  /\ WordBits % ByteBits = 0 /\ MemoryTop \in Nat

---------------------------------------------------------------------------
(* Words. *)

Width == 2 ^ WordBits
WordBytes == WordBits \div ByteBits
MaxWord == Width - 1
MinSigned == -(2 ^ (WordBits - 1))
MaxSigned == 2 ^ (WordBits - 1) - 1

Bool(b) == IF b THEN 1 ELSE 0
Wrap(n) == n % Width                                      \* wrap256
ToSigned(w) == IF w > MaxSigned THEN w - Width ELSE w     \* unsigned_to_signed
ToUnsigned(n) == IF n < 0 THEN n + Width ELSE n           \* signed_to_unsigned
Abs(n) == IF n < 0 THEN -n ELSE n

(* Quotient and remainder rounded towards zero; zero for a zero divisor. *)
Quotient(x, y) == IF y = 0 THEN 0 ELSE (IF x * y < 0 THEN -1 ELSE 1) * (Abs(x) \div Abs(y))
Remainder(x, y) == IF y = 0 THEN 0 ELSE (IF x < 0 THEN -1 ELSE 1) * (Abs(x) % Abs(y))

(* x ** y modulo Width, by squaring. *)
Power(x, y) ==
  LET p[n \in Nat] == IF n = 0 THEN 1 % Width
                      ELSE LET half == p[n \div 2] IN IF n % 2 = 0 THEN Wrap(half * half) ELSE Wrap(x * Wrap(half * half))
  IN p[y]

SignExtend(k, w) ==
  LET sign == 2 ^ ((k + 1) * ByteBits - 1)
      low == w % (2 * sign)
  IN IF k >= WordBytes - 1 THEN w ELSE IF low >= sign THEN low + Width - 2 * sign ELSE low
ShiftLeft(k, w) == IF k >= WordBits THEN 0 ELSE Wrap(w * 2 ^ k)
ShiftRight(k, w) == IF k >= WordBits THEN 0 ELSE w \div 2 ^ k
ShiftArithmetic(k, n) == IF k >= WordBits THEN (IF n < 0 THEN -1 ELSE 0) ELSE n \div 2 ^ k

(* Bit by bit. *)
Bits(x) == [k \in 0 .. WordBits - 1 |-> (x \div 2 ^ k) % 2]
FromBits(b) == LET low[k \in 0 .. WordBits] == IF k = 0 THEN 0 ELSE low[k - 1] + b[k - 1] * 2 ^ (k - 1) IN low[WordBits]
And(x, y) == FromBits([k \in 0 .. WordBits - 1 |-> Bits(x)[k] * Bits(y)[k]])
Or(x, y) == x + y - And(x, y)
Xor(x, y) == x + y - 2 * And(x, y)

UnaryOps == {"iszero", "not"}
BinaryOps == {"add", "sub", "mul", "div", "sdiv", "mod", "smod", "exp", "signextend", "lt", "gt", "slt", "sgt",
              "eq", "and", "or", "xor", "shl", "shr", "sar"}
AluOps == UnaryOps \union BinaryOps

(* What the EVM computes; x is the operand on top of the stack. *)
Alu(op, x, y) ==
  CASE op = "add" -> Wrap(x + y)
    [] op = "sub" -> Wrap(x - y)
    [] op = "mul" -> Wrap(x * y)
    [] op = "div" -> Quotient(x, y)
    [] op = "sdiv" -> Wrap(Quotient(ToSigned(x), ToSigned(y)))
    [] op = "mod" -> Remainder(x, y)
    [] op = "smod" -> Wrap(Remainder(ToSigned(x), ToSigned(y)))
    [] op = "exp" -> Power(x, y)
    [] op = "signextend" -> SignExtend(x, y)
    [] op = "lt" -> Bool(x < y)
    [] op = "gt" -> Bool(x > y)
    [] op = "slt" -> Bool(ToSigned(x) < ToSigned(y))
    [] op = "sgt" -> Bool(ToSigned(x) > ToSigned(y))
    [] op = "eq" -> Bool(x = y)
    [] op = "and" -> And(x, y)
    [] op = "or" -> Or(x, y)
    [] op = "xor" -> Xor(x, y)
    [] op = "shl" -> ShiftLeft(x, y)
    [] op = "shr" -> ShiftRight(x, y)
    [] op = "sar" -> Wrap(ShiftArithmetic(x, ToSigned(y)))
    [] op = "iszero" -> Bool(x = 0)
    [] op = "not" -> MaxWord - x

Ceil32(n) == IF n % WordBytes = 0 THEN n ELSE n + WordBytes - (n % WordBytes)

---------------------------------------------------------------------------

(* FoldLeft.  A sequence is folded in halves, so that the depth of the      *)
(* evaluation is not that of the sequence.                                 *)
Fold(op(_, _), base, s) ==
  LET part[from \in Any, i, k \in DOMAIN s] ==
        IF i = k THEN op(from, s[i])
        ELSE part[part[from, i, (i + k) \div 2], (i + k) \div 2 + 1, k]
  IN IF s = <<>> THEN base ELSE part[base, 1, Len(s)]

(* Memory and byte strings are sequences of bytes, the first at address 0. *)
BytesOf(w) == [k \in 1 .. WordBytes |-> (w \div 2 ^ (WordBits - k * ByteBits)) % 2 ^ ByteBits]
WordOf(bytes) == Fold(LAMBDA n, b : n * 2 ^ ByteBits + b, 0, bytes)
Padded(bytes, at, n) == [k \in 1 .. n |-> IF at + k \in DOMAIN bytes THEN bytes[at + k] ELSE 0]
ReadBytes(bytes, at, n) == SubSeq(bytes, at + 1, at + n)
WriteBytes(bytes, at, new) == SubSeq(bytes, 1, at) \o new \o SubSeq(bytes, at + Len(new) + 1, Len(bytes))

(* What a deployment appends to the code: three words.  Positions are      *)
(* counted from the label code_end, since positions in the code are no     *)
(* words here.                                                             *)
CodeData == BytesOf(Wrap(5)) \o BytesOf(Wrap(9)) \o BytesOf(Wrap(14))
Scratch == 0      \* MemoryPositions.FREE_VAR_SPACE, two words

NewWorld == [mem |-> <<>> \o [k \in 1 .. MemoryTop |-> 0], trace |-> <<>>, returned |-> <<>>, storage |-> <<>>, transient |-> <<>>]

(* Storage and transient storage hold the words that have changed; at      *)
(* first every slot of storage has its number and one.                     *)
Before(op, slot) == IF op \in {"sload", "sstore"} THEN Wrap(slot + 1) ELSE 0
Slot(op, words, slot) == IF slot \in DOMAIN words THEN words[slot] ELSE Before(op, slot)
WithSlot(op, words, slot, n) ==
  [s \in IF n = Before(op, slot) THEN DOMAIN words \ {slot} ELSE DOMAIN words \union {slot} |-> IF s = slot THEN n ELSE words[s]]

LoadOps == {"mload", "sload", "tload", "calldataload", "calldatasize", "returndatasize", "caller", "callvalue", "gas", "extcodesize", "sha3",
            "sha3_64", "dload", "call"}
StoreOps == {"mstore", "sstore", "tstore", "mcopy", "calldatacopy", "returndatacopy", "dload", "dloadbytes", "codecopy",
             "sha3_64", "log", "call"}
StateOps == LoadOps \union StoreOps

(* The memory an instruction touches: pairs of an address and a length. *)
Touched(op, a) ==
  CASE op \in {"mload", "mstore"} -> {<<a[1], WordBytes>>}
    [] op = "mcopy" -> {<<a[1], a[3]>>, <<a[2], a[3]>>}
    [] op \in {"calldatacopy", "returndatacopy", "dloadbytes", "codecopy"} -> {<<a[1], a[3]>>}
    [] op = "dload" -> {<<Scratch, WordBytes>>}
    [] op = "sha3_64" -> {<<Scratch, 2 * WordBytes>>}
    [] op \in {"log", "return", "revert", "sha3"} -> {<<a[1], a[2]>>}
    [] op = "call" -> {<<a[4], a[5]>>, <<a[6], a[7]>>}
    [] OTHER -> {}
InMemory(op, a) == \A r \in Touched(op, a) : r[2] = 0 \/ r[1] + r[2] <= MemoryTop

(* The called contract sees the storage, answers with its own argument and *)
(* one word more, and fails when it is sent the value one.                 *)
Answer(w, a) == IF a[2] \in Silent THEN <<>> ELSE ReadBytes(w.mem, a[4], a[5]) \o BytesOf(MaxWord - 1)

(* A stand-in for the hash: it depends on every byte. *)
Digest(bytes) == Fold(LAMBDA n, b : Wrap(3 * n + b + 1), 0, bytes)
Pushed(op, a, w, input) ==
  CASE op = "mload" -> WordOf(ReadBytes(w.mem, a[1], WordBytes))
    [] op = "sload" -> Slot(op, w.storage, a[1])
    [] op = "tload" -> Slot(op, w.transient, a[1])
    [] op = "calldataload" -> WordOf(Padded(input, a[1], WordBytes))
    [] op = "calldatasize" -> Wrap(Len(input))
    [] op = "returndatasize" -> Wrap(Len(w.returned))
    [] op = "caller" -> MaxWord - 2
    [] op = "callvalue" -> 0
    [] op = "gas" -> MaxWord
    [] op = "extcodesize" -> 1
    [] op = "sha3" -> Digest(ReadBytes(w.mem, a[1], a[2]))
    [] op = "sha3_64" -> Digest(BytesOf(a[1]) \o BytesOf(a[2]))
    [] op = "dload" -> WordOf(Padded(CodeData, a[1], WordBytes))
    [] op = "call" -> Bool(a[3] # 1)

Changed(op, a, w, input) ==
  CASE op = "mstore" -> [w EXCEPT !.mem = WriteBytes(@, a[1], BytesOf(a[2]))]
    [] op = "sstore" -> [w EXCEPT !.storage = WithSlot(op, @, a[1], a[2])]
    [] op = "tstore" -> [w EXCEPT !.transient = WithSlot(op, @, a[1], a[2])]
    [] op = "mcopy" -> [w EXCEPT !.mem = WriteBytes(@, a[1], ReadBytes(@, a[2], a[3]))]
    [] op = "calldatacopy" -> [w EXCEPT !.mem = WriteBytes(@, a[1], Padded(input, a[2], a[3]))]
    [] op \in {"dloadbytes", "codecopy"} -> [w EXCEPT !.mem = WriteBytes(@, a[1], Padded(CodeData, a[2], a[3]))]
    [] op = "dload" -> [w EXCEPT !.mem = WriteBytes(@, Scratch, Padded(CodeData, a[1], WordBytes))]
    [] op = "sha3_64" -> [w EXCEPT !.mem = WriteBytes(@, Scratch, BytesOf(a[1]) \o BytesOf(a[2]))]
    [] op = "returndatacopy" -> [w EXCEPT !.mem = WriteBytes(@, a[1], ReadBytes(w.returned, a[2], a[3]))]
    [] op = "log" -> [w EXCEPT !.trace = Append(@, <<ReadBytes(w.mem, a[1], a[2])>> \o SubSeq(a, 3, Len(a)))]
    [] op = "call" -> LET answer == Answer(w, a) IN
         [w EXCEPT !.returned = answer,
                   !.mem = WriteBytes(@, a[6], SubSeq(answer, 1, IF a[7] < Len(answer) THEN a[7] ELSE Len(answer))),
                   !.trace = Append(@, <<ReadBytes(w.mem, a[4], a[5]), w.storage, w.transient>>)]
    [] OTHER -> w

---------------------------------------------------------------------------
(* Outcomes *)

Ends(how) == [end |-> how, data |-> <<>>, trace |-> <<>>, storage |-> <<>>]
Reverted(data) == [Ends("revert") EXCEPT !.data = data]
(* The outcome of an execution that has not ended, or that takes too long. *)
Running == Ends("running")
EndOf(outcome) == IF outcome = Running THEN Ends("endless") ELSE outcome
Returned(w, data) == [end |-> "return", data |-> data, trace |-> w.trace, storage |-> <<w.storage, w.transient>>]
=============================================================================
