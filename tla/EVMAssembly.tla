----------------------------- MODULE EVMAssembly -----------------------------
(***************************************************************************)
(* The assembler (evm/assembler/): the optimizer of assembly, the          *)
(* resolution of labels and the encoding, and a machine that runs what     *)
(* comes out.                                                              *)
(*                                                                         *)
(* An item of assembly is a tuple that starts with its name: <<"LABEL", l>>*)
(* <<"PUSHLABEL", l>>, <<"PUSHOFST", l, n>>, <<"PUSH", n>>, <<"DUP", n>>, <<"SWAP", n>>, a       *)
(* header <<"DATA", l>> or an item <<"DATAITEM", l>> of the data section,  *)
(* or an opcode, in the lower case of Venom.                               *)
(***************************************************************************)
EXTENDS EVMState, FiniteSets

CONSTANTS SymbolSize,    \* SYMBOL_SIZE, bytes of a pushed label
          CodeLimit      \* first code position that does not fit in them

ASSUME EVMAssemblyAssumption == SymbolSize \in Nat \ {0} /\ CodeLimit \in Nat

ALabel(l) == <<"LABEL", l>>
PushLabel(l) == <<"PUSHLABEL", l>>
PushOffset(l, n) == <<"PUSHOFST", l, n>>
Push(n) == <<"PUSH", n>>
Dup(n) == <<"DUP", n>>
Swap(n) == <<"SWAP", n>>
Op(name) == <<name>>
PopOp == <<"pop">>
RevertPostamble == <<ALabel("revert"), Push(0), Dup(1), Op("revert")>>

Kind(asm, i) == IF i \in DOMAIN asm THEN asm[i][1] ELSE "end"
Cut(asm, from, n) == SubSeq(asm, 1, from - 1) \o SubSeq(asm, from + n, Len(asm))
Kinds(asm, i, n) == [k \in 1 .. n |-> Kind(asm, i + k - 1)]

---------------------------------------------------------------------------
(* The optimizer.  Each rule walks over the assembly and changes it in     *)
(* place, looking again where it has changed something.                    *)

TerminalOps == {"jump", "return", "revert", "stop", "invalid"}
Landing == {"LABEL", "DATA"}

RECURSIVE PruneUnreachable(_, _), MergeIszero(_, _, _), PruneJumps(_, _), InvertJumps(_, _), Peephole(_, _)

NextLanding(asm, i) ==
  LET after == {j \in i + 1 .. Len(asm) : asm[j][1] \in Landing}
  IN IF after = {} THEN Len(asm) + 1 ELSE CHOOSE j \in after : \A k \in after : j <= k
PruneUnreachable(asm, i) ==
  IF i >= Len(asm) THEN asm
  ELSE PruneUnreachable(IF asm[i][1] \in TerminalOps THEN Cut(asm, i + 1, NextLanding(asm, i) - i - 1) ELSE asm, i + 1)

(* ISZERO ISZERO after an operation that gives 0 or 1, then before JUMPI. *)
ReturnsZeroOrOne == {"lt", "gt", "slt", "sgt", "eq", "iszero", "call", "staticcall", "callcode", "delegatecall"}
TwoIszero(asm, i) == Kinds(asm, i, 2) = <<"iszero", "iszero">>
RedundantIszero(asm, i, beforeJump) ==
  IF beforeJump THEN TwoIszero(asm, i) /\ Kinds(asm, i + 2, 2) = <<"PUSHLABEL", "jumpi">>
  ELSE i > 1 /\ Kind(asm, i - 1) \in ReturnsZeroOrOne /\ TwoIszero(asm, i)
MergeIszero(asm, i, beforeJump) ==
  IF i > Len(asm) THEN asm
  ELSE IF RedundantIszero(asm, i, beforeJump) THEN MergeIszero(Cut(asm, i, 2), i, beforeJump)
  ELSE MergeIszero(asm, i + 1, beforeJump)

(* A label that only leads to another place. *)
Retarget(asm, from, to) == <<>> \o [i \in DOMAIN asm |-> IF asm[i] = PushLabel(from) THEN PushLabel(to) ELSE asm[i]]
MergeJumpdest(asm, i) ==
  IF Kinds(asm, i, 2) = <<"LABEL", "LABEL">> THEN Retarget(asm, asm[i][2], asm[i + 1][2])
  ELSE IF Kinds(asm, i, 3) = <<"LABEL", "PUSHLABEL", "jump">> THEN Retarget(asm, asm[i][2], asm[i + 1][2])
  ELSE asm
MergeJumpdests(asm) == Fold(MergeJumpdest, asm, [i \in 1 .. Len(asm) - 2 |-> i])

(* PUSHLABEL x JUMP LABEL x *)
PruneJumps(asm, i) ==
  IF i > Len(asm) - 2 THEN asm
  ELSE IF Kinds(asm, i, 3) = <<"PUSHLABEL", "jump", "LABEL">> /\ asm[i][2] = asm[i + 2][2]
       THEN PruneJumps(Cut(asm, i, 2), i)
  ELSE PruneJumps(asm, i + 1)

(* PUSHLABEL common JUMPI PUSHLABEL x JUMP LABEL common *)
InvertibleJump(asm, i) ==
  /\ Kinds(asm, i, 5) = <<"PUSHLABEL", "jumpi", "PUSHLABEL", "jump", "LABEL">>
  /\ asm[i][2] = asm[i + 4][2]
InvertJumps(asm, i) ==
  IF i > Len(asm) - 4 THEN asm
  ELSE IF InvertibleJump(asm, i)
       THEN InvertJumps(SubSeq(asm, 1, i - 1) \o <<Op("iszero"), asm[i + 2], Op("jumpi")>> \o SubSeq(asm, i + 4, Len(asm)), i)
  ELSE InvertJumps(asm, i + 1)

UsedLabels(asm) == {asm[i][2] : i \in {j \in DOMAIN asm : asm[j][1] \in {"PUSHLABEL", "PUSHOFST", "DATAITEM"}}}
PruneJumpdests(asm) == SelectSeq(asm, LAMBDA item : item[1] # "LABEL" \/ item[2] \in UsedLabels(asm))

SwapCommutes == {"add", "mul", "eq", "ne", "and", "or", "xor"}      \* COMMUTATIVE_OPS
At3(asm, i, x, y, z) == i + 2 \in DOMAIN asm /\ SubSeq(asm, i, i + 2) = <<x, y, z>>
DropTwin(asm, i) == IF asm[i][1] = "SWAP" /\ asm[i] = asm[i + 1] THEN Cut(asm, i, 2) ELSE asm
DropSwap(asm, i) ==
  IF i + 1 \in DOMAIN asm /\ asm[i] = Swap(1) /\ asm[i + 1][1] \in SwapCommutes THEN Cut(asm, i, 1) ELSE asm
DropSwapOfDup(asm, i) ==
  IF i + 1 \in DOMAIN asm /\ asm[i] = Dup(1) /\ asm[i + 1] = Swap(1) THEN Cut(asm, i + 1, 1) ELSE asm
Peephole(asm, i) ==
  IF i > Len(asm) - 2 THEN asm
  ELSE IF At3(asm, i, Dup(1), Swap(2), Swap(1))
       THEN Peephole(SubSeq(asm, 1, i - 1) \o <<Swap(1), Dup(2)>> \o SubSeq(asm, i + 3, Len(asm)), i)
  ELSE IF At3(asm, i, Dup(1), Swap(1), PopOp) THEN Peephole(Cut(asm, i, 3), i)
  ELSE IF At3(asm, i, Swap(1), PopOp, PopOp) THEN Peephole(Cut(asm, i, 1), i)
  ELSE Peephole(DropSwapOfDup(DropSwap(DropTwin(asm, i), i), i), i + 1)

OptimizeRound(asm) ==
  Peephole(PruneJumpdests(InvertJumps(PruneJumps(MergeJumpdests(
    MergeIszero(MergeIszero(PruneUnreachable(asm, 1), 1, FALSE), 1, TRUE)), 1), 1)), 1)

(* Until nothing changes, 1024 rounds at most.  A place that only jumps to *)
(* itself counts as changed in every round.                                *)
JumpsToItself(asm) ==
  \E i \in DOMAIN asm : Kinds(asm, i, 3) = <<"LABEL", "PUSHLABEL", "jump">> /\ asm[i][2] = asm[i + 1][2]
RECURSIVE OptimizeRounds(_, _)
OptimizeAgain(asm, next, n) ==
  IF next = asm /\ ~JumpsToItself(asm) THEN asm ELSE OptimizeRounds(next, n - 1)
OptimizeRounds(asm, n) == IF n = 0 THEN <<>> ELSE OptimizeAgain(asm, OptimizeRound(asm), n)
OptimizeAssembly(asm) == OptimizeRounds(asm, 1024)

---------------------------------------------------------------------------
(* resolve_symbols and _assembly_to_evm.  A byte of the code is an opcode, *)
(* or data that belongs to the push before it.                             *)

ByteLength(n) == CHOOSE k \in 0 .. WordBytes : n < 2 ^ (k * ByteBits) /\ \A j \in 0 .. k - 1 : n >= 2 ^ (j * ByteBits)
SizeOf(item) ==
  CASE item[1] \in {"PUSHLABEL", "PUSHOFST"} -> SymbolSize + 1
    [] item[1] = "PUSH" -> 1 + ByteLength(item[2])
    [] item[1] = "DATA" -> 0
    [] item[1] = "DATAITEM" -> SymbolSize
    [] OTHER -> 1

Positions(asm) == Fold(LAMBDA pcs, item : Append(pcs, Last(pcs) + SizeOf(item)), <<0>>, asm)
Defined(asm) == {i \in DOMAIN asm : asm[i][1] \in Landing}
SymbolMap(asm, pcs) ==
  [l \in {asm[i][2] : i \in Defined(asm)} |-> pcs[CHOOSE i \in Defined(asm) : asm[i][2] = l]] @@ ("code_end" :> Last(pcs))
(* What is read behind the code is counted from its end. *)
AddressOf(map, l) == IF l = "code_end" THEN 0 ELSE map[l]

Encoded(item, map) ==
  CASE item[1] = "LABEL" -> <<"jumpdest">>
    [] item[1] \in {"PUSHLABEL", "DATAITEM"} -> <<item[1], AddressOf(map, item[2])>>
    [] item[1] = "PUSHOFST" -> <<"PUSHLABEL", AddressOf(map, item[2]) + item[3]>>
    [] OTHER -> item
BytesFor(item, map) ==
  IF item[1] = "DATA" THEN <<>> ELSE <<Encoded(item, map)>> \o [k \in 1 .. SizeOf(item) - 1 |-> <<"data">>]
Encode(asm, map) == Fold(LAMBDA bytes, item : bytes \o BytesFor(item, map), <<>>, asm)

(* The encoding fails on a label that is defined twice or not at all, and  *)
(* on one that does not fit in the bytes that are reserved for it.         *)
Assemblable(asm, map) ==
  /\ Cardinality(DOMAIN map) = Cardinality(Defined(asm)) + 1
  /\ \A l \in UsedLabels(asm) : l \in DOMAIN map /\ map[l] < CodeLimit
AssembleWith(asm, map) == IF Assemblable(asm, map) THEN Encode(asm, map) ELSE <<>>
Assemble(asm) == AssembleWith(asm, SymbolMap(asm, Positions(asm)))

---------------------------------------------------------------------------
(* The machine.  Positions in the code are no words here: a label that is  *)
(* pushed keeps its position whatever the width of a word.                 *)

Arity == [op \in UnaryOps \union {"mload", "sload", "tload", "calldataload", "extcodesize", "pop", "jump"} |-> 1]
         @@ [op \in BinaryOps \union {"mstore", "sstore", "tstore", "sha3", "jumpi", "return", "revert"} |-> 2]
         @@ [op \in {"mcopy", "calldatacopy", "returndatacopy", "codecopy"} |-> 3]
         @@ [op \in {"call"} |-> 7]
         @@ [op \in {"stop", "invalid", "jumpdest", "calldatasize", "returndatasize", "caller", "callvalue", "gas"} |-> 0]
Taken(item) == IF item[1] = "log" THEN item[2] + 2 ELSE Arity[item[1]]

Halted(s, outcome) == [s EXCEPT !.outcome = outcome]
JumpTo(code, s, target) ==
  IF target + 1 \in DOMAIN code /\ code[target + 1] = <<"jumpdest">>
  THEN [s EXCEPT !.pc = target + 1] ELSE Halted(s, Ends("bad jump"))

(* a are the operands, the top first; s has them taken off. *)
Instruction(code, input, s, op, a) ==
  CASE op = "jump" -> JumpTo(code, s, a[1])
    [] op = "jumpi" /\ a[2] # 0 -> JumpTo(code, s, a[1])
    [] op = "stop" -> Halted(s, Returned(s.world, <<>>))
    [] op = "return" -> Halted(s, Returned(s.world, ReadBytes(s.world.mem, a[1], a[2])))
    [] op = "revert" -> Halted(s, Reverted(ReadBytes(s.world.mem, a[1], a[2])))
    [] op = "invalid" -> Halted(s, Ends("invalid"))
    [] OTHER ->
         [s EXCEPT !.pc = @ + 1,
                   !.world = Changed(op, a, @, input),
                   !.stack = IF op \in AluOps THEN Append(@, Alu(op, a[1], a[Len(a)]))
                             ELSE IF op \in LoadOps THEN Append(@, Pushed(op, a, s.world, input))
                             ELSE @]

OnOperands(code, input, s, op, a) ==
  IF ~InMemory(op, a) THEN Halted(s, Ends("out of gas"))
  ELSE Instruction(code, input, [s EXCEPT !.stack = SubSeq(@, 1, Len(@) - Len(a))], op, a)
TakeOperands(code, input, s, op, n) ==
  IF n > Len(s.stack) THEN Halted(s, Ends("underflow"))
  ELSE OnOperands(code, input, s, op, Reverse(SubSeq(s.stack, Len(s.stack) - n + 1, Len(s.stack))))

Pushes(s, w, size) == [s EXCEPT !.stack = Append(@, w), !.pc = @ + 1 + size]
Step(code, input, s, item, h) ==
  CASE item[1] = "PUSH" -> Pushes(s, item[2], ByteLength(item[2]))
    [] item[1] = "PUSHLABEL" -> Pushes(s, item[2], SymbolSize)
    [] item[1] = "DUP" -> IF item[2] > h THEN Halted(s, Ends("underflow")) ELSE Pushes(s, s.stack[h + 1 - item[2]], 0)
    [] item[1] = "SWAP" ->
         IF item[2] >= h THEN Halted(s, Ends("underflow"))
         ELSE [s EXCEPT !.pc = @ + 1, !.stack[h] = s.stack[h - item[2]], !.stack[h - item[2]] = s.stack[h]]
    [] item[1] \in {"data", "DATAITEM"} -> Halted(s, Ends("not code"))
    [] OTHER -> TakeOperands(code, input, s, item[1], Taken(item))

(* At most n instructions. *)
CodeAt(code, pc) == IF pc + 1 \in DOMAIN code THEN code[pc + 1] ELSE <<"stop">>
RECURSIVE StepMany(_, _, _, _)
StepMany(code, input, s, n) ==
  IF s.outcome # Running \/ n = 0 THEN s
  ELSE IF n = 1 THEN Step(code, input, s, CodeAt(code, s.pc), Len(s.stack))
  ELSE StepMany(code, input, StepMany(code, input, s, n \div 2), n - n \div 2)

Execution(code, input, fuel) ==
  EndOf(StepMany(code, input, [pc |-> 0, stack |-> <<>>, world |-> NewWorld, outcome |-> Running], fuel).outcome)
=============================================================================
