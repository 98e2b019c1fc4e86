# VyperSVM: models and proofs

The compiler in `src/vyper` turns Vyper source into EVM code. This directory
models its parts in TLA+, checks the models with TLC on small instances, and
proves with TLAPS, for all values of the constants, the properties of the parts
that do not rewrite the text of a program.

## The system

A contract goes through these parts, in this order (`compiler/phases.py` drives them):

| part | sources | state it keeps | operations | modelled by |
| --- | --- | --- | --- | --- |
| driver, command line | `compiler/`, `cli/` | settings, input bundle, cached phases | compile, merge settings, bundle | which optimizer and code generator run (`CodegenPipeline`, `VenomPipeline`); the rest is not |
| parser | `ast/` | the annotated syntax tree | pre-parse, parse, annotate | `SyntaxTree` (nodes and types only) |
| names and types | `semantics/` | a global namespace with scopes, types, import graph | enter and leave scopes, resolve, annotate, check | `ModuleAnalysis`, `AcceptedContracts` |
| call graph | `semantics/analysis/module.py` | calls and reachable sets of functions | `_compute_reachable_set`, `_analyze_call_graph` | `CallGraph` |
| storage layout | `semantics/analysis/data_positions.py` | next slot per location, reserved slots, positions | allocate, override, export, check | `StorageLayout` |
| frames | `codegen/memory_allocator.py`, `context.py` | next position, frame size, free list | allocate, release, merge | `MemoryAllocator`, `MemoryHeap` |
| functions and calls | `codegen/module.py`, `self_call.py`, `function_definitions/` | frame information, labels | generate internal and external functions, runtime and deployment | `FunctionFrames` |
| expressions and statements | `codegen/`, `builtins/` | IR under construction, buffers | one generator per construct | `Codegen`, `Setters`, `AbiTypes`, `AbiEncoder`, `Arithmetic`, `Builtins`, `Expressions` |
| selector section | `codegen/module.py`, `jumptable_utils.py` | tables of method ids | search for magics, emit, dispatch | `SelectorTable` |
| emitted lock code | `codegen/function_definitions/` | the lock slot | prologue, epilogue | `NonreentrantLock` |
| legacy back end | `codegen/ir_node.py`, `ir/` | symbolic stack height, labels, optimizer work list | optimize, compile | `IRNodes`, `IRCompiler` |
| Venom front end | `venom/ir_node_to_venom.py` | the function and the block being built, variables | convert | `VenomFrontEnd` |
| Venom IR | `venom/basicblock.py`, `function.py`, `analysis/` | basic blocks, a cache of analyses | edit, request, invalidate | `VenomIR`, `VenomAnalyses` |
| Venom passes | `venom/passes/` | the function, its def-use chains, work lists | one pass each | `VenomPasses`, `VenomExpressions`, `VenomMemory`, `VenomAssembly` (order of instructions) |
| Venom pipeline | `venom/__init__.py` | the cache shared by all passes | `_run_passes`, `run_passes_on` | `VenomPipeline` |
| Venom to assembly | `venom/venom_to_assembly.py`, `stack_model.py` | stack model | emit | `VenomAssembly` |
| Venom to LLVM | `venom/venom_to_llvm.py` | - | emit | - |
| assembler | `evm/assembler/` | symbol map, item sizes | resolve, peephole, emit | `EVMAssembly` |
| the machine | none (the EVM) | stack, memory, storage, trace | run | `EVMState`, `EVMAssembly` |

How they interact: each part mutates a structure the next one reads. The call
graph decides the order of code generation, and the frame of a callee must be
known when the caller is generated. Frames are filled through the allocator and
placed above those of the callees. The lock is emitted by the function
definitions, in the slot the storage layout reserved. The code generators work
on one tree of IR that the optimizer rewrites. Venom passes share one function
and one cache of analyses and tell each other what they invalidated.

What makes them hard is not threads (the compiler has none) but long sequences
of legal calls on shared, mutable structures, and the behaviour of the code that
comes out: nested calls, callbacks from other contracts, reverts and
transactions, damaged calldata. The `hazards` of `PROJECT.json` list the places.

What makes each part correct, in a line:

- analysis: what is accepted keeps what its modifiers say, writes no array that a
  loop runs over, initializes what it uses, and never gets stuck; the order of
  declarations does not matter;
- call graph: recursion is rejected, nothing else is, and callees come first;
- layout: no two variables, and not the lock, share a slot; the lock does not
  move variables; an exported layout is an override file that changes nothing;
- allocator: memory in use is never handed out again and no byte is lost;
- frames: a value survives every call made between its write and its read, and
  every label resolves;
- code generation: the code gives, for every argument, what the source means, or
  the compiler says why not;
- lock: no function under the lock runs while another one does, and the lock is
  always given back;
- dispatch: the three forms of the selector section send every call to the same
  place, and that is the declared function, the fallback or a revert;
- Venom: every pass keeps the behaviour and SSA form, no pass reads an
  analysis that does not describe the function as it is, and the assembly and
  the bytes do what the function did.

## Modules

### Analysis

`ModuleAnalysis` (`semantics/analysis/`): the analysis of a contract and of the
modules it imports, as a state machine that finds something out at each step or
rejects the program: imports, declarations visited again and again until no more can
be, functions after those they call, each a part of an expression and a statement at
a time, with scopes, mutability, loops over parts of variables, returns, and who owns
and initializes a module. A body is a sequence of lines, with the line at which
each block ends. `AcceptedContracts` composes it with what the program then does: it is
analysed, deployed and called, each part of a statement one step, each condition
either way, each loop any number of turns. Before that the same program is analysed
with its declarations in the opposite order (`Reversed`), to compare the verdicts.

`CallGraph` (`semantics/analysis/module.py`). `_compute_reachable_set` with its
recursion kept as an explicit stack (`path`, and `next` for the loop index of each
level), and the outer loop with the check of the reentrancy lock.

`StorageLayout` (`semantics/analysis/data_positions.py`): the walk over the
module tree, with or without an override file, the export of the layout, and a
second compilation with the export as the override file.

### Memory and calls

`MemoryAllocator` (`codegen/memory_allocator.py`). The frame of one function:
`next_mem`, `size_of_mem` and the free list. Actions are the two operations,
`allocate_memory` (from the free list, or by growing the frame, with its three
errors) and `deallocate_memory` (insert, sort, merge scan, reclaim), the scan
step by step. `MemoryHeap` is the abstract specification, what callers may rely
on: blocks are granted where no live block is, and released. `MemoryAllocator`
implements it (`Heap == INSTANCE MemoryHeap WITH live <- live, block <- block`).

`FunctionFrames` continues `CallGraph`: `generate_ir_for_module` compiles the
functions of an accepted contract in its order, places each frame above those of
the callees, and then one entry point of the contract runs on these addresses,
with the argument buffers of `codegen/self_call.py`.

`NonreentrantLock` (`codegen/function_definitions/`): prologue and epilogue of
`@nonreentrant` functions at run time. The EVM is modelled as far as the lock is
concerned: message calls and static calls that come back, reverts, transactions,
`SELFDESTRUCT`, storage before Cancun and transient storage since.

`SelectorTable` (`codegen/module.py`, `codegen/jumptable_utils.py`): the search
for the number of buckets and for the magic of each bucket, the three forms of
the section, the packed words of the dense one, and a message call that runs
through it. `Declared` says, from the declarations alone, where the call belongs.

### Code generation and the legacy back end

`EVMState` is the machine as all the code generators see it (words of `WordBits`
bits, bytes of `ByteBits` bits, memory up to `MemoryTop`, storage, calls that
answer, a trace of what the world sees); `EVMAssembly` adds assembly, its
optimizer, the assembler, and the execution of bytes. `SyntaxTree` has the types
of Vyper and typed nodes, `IRNodes` the nodes of the IR with what they say of
themselves (valency, whether they must be cached), `IRCompiler` the rules of
`ir/optimizer.py` to their fixpoint and `compile_ir.py` with its
symbolic stack. `Codegen` has the helpers every generator uses, `Setters`
copies between locations, `AbiTypes` and `AbiEncoder` the encoding,
`Arithmetic` the operators and `convert`, `Builtins` the builtin functions, and
`Expressions` the rest, with statements and whole functions. `SourceMeaning` evaluates the same trees directly, on
exact numbers and values, and is the reference.

`CodegenPipeline` composes them: a contract is generated, optimized, compiled and
encoded (or converted to Venom), and called; one action per phase.
`ContractPromise` is the abstract specification, a contract that answers as its
source says, and `CodegenPipeline` implements it
(`Promise == INSTANCE ContractPromise WITH arguments <- ..., answer <- ...`,
where the answer is read off the outcome of the machine).

### Venom

`VenomIR` holds functions of basic blocks and their edits, and an interpreter
for contexts of them (`Run`), which is the reference that passes are compared
with. Instructions have identities, as Python objects do: the def-use chains
hold instructions, not positions; literals that passes share have one too.
`VenomAnalyses` holds the analyses and the cache: `Request`, `Force` and
`Invalidate` are the three operations of `IRAnalysesCache`, and an analysis that
is in the cache is returned as it is.
`VenomPasses` has the inliner, the passes on control flow and those that make and
leave SSA form, `VenomExpressions` sccp and the passes around it, algebraic
optimization, common subexpressions and literals, `VenomMemory` memory locations, load elimination,
dead stores and the merging of copies, and `VenomAssembly` the order of instructions (dft) and
`venom_to_assembly`. They hold one operator per pass, which takes the function
with its cache and returns both. `VenomFrontEnd` is `ir_node_to_venom`.
`VenomPipeline` is the state machine: the inliner over the context, one action per
pass, in the order of `_run_passes`, for one function after the other, then
assembly, its optimizer and the bytes. A `CompilerPanic` or a failed assertion
of the code is a fault in the state.

The translation of the Venom passes was compared with the code itself: the
final functions of the programs of the schemes below were the same, instruction by
instruction, as those the Python passes make in the same order, up to the names
of variables and the order of the pairs of a phi (which the code keeps in a set).

## Runs

| run | instance | shows |
| --- | --- | --- |
| `front_end` | 1,930 programs of a contract and up to three modules | accepted contracts keep their modifiers, write no array under a loop, initialize once, never get stuck; the order of declarations does not matter |
| `memory_allocator` | 3 handles, sizes 0, 32, 64 and 48 (misaligned, refused), a frame of 4 words | no byte is lost, free space is merged, nothing lies beyond the frame that is measured, `MemoryHeap` is implemented |
| `function_frames` | all call graphs of 3 functions with any of them locked; and contracts of 4 functions with bodies of calls and nested arguments | the verdict on the graph is right, callees come first; values survive calls, labels resolve, constructor data is safe |
| `storage_layout` | 2 modules, 6 slots, all override files | slots never overlap, in both layouts; locks move nothing; good overrides are accepted and exports change nothing |
| `nonreentrant_lock` | 4 external, 2 internal functions, 4 calls deep | the lock excludes, tells the truth and is given back |
| `selector_table` | method ids of 2 digits to base 4, up to 5 entry points | all three forms of dispatch agree with the declarations |
| `codegen` | about 1,000 small contracts, words of 12 bits, bytes of 3 | arithmetic, conversions, data, statements and builtins do what the source means, under the legacy back end at each level and through Venom; damaged calldata is never copied; compilation stops on just the contracts that cannot be compiled and those that are known to crash it, with the error that fits |
| `venom_pipeline` | 786 contexts, words of 4 bits, bytes of one | every pass keeps behaviour, SSA form and fresh analyses; analyses are right; assembly and bytes behave; nothing panics |

Every one of these passes. Four more runs show a claim that the code does not
keep; each is described under Findings.

Bounds, and why they are enough.

- Allocator: a block has a neighbour on each side, entries are split and merged,
  entries of no bytes lie between and behind them, and the frame is exhausted;
  the proofs hold for any frame.
- Frames: three functions give all the shapes the walk of the call graph tells
  apart (self call, chain, diamond, cycles of two and three); four are used for
  frames, where a diamond and a caller above it matter. `MaxStatements` is 1: a
  statement may hold a call whose argument is a call. `MemoryWords` is above the
  end of every frame. The proofs hold for any of them.
- Layout: six slots hold two variables, the lock, a gap, and the last slot.
- Lock: four calls are a locked function, a callback, one more callback inside it
  and a static call.
- Dispatch: method ids of two digits to base 4 have zero endings, collisions
  modulo every number of buckets, and magics that fail, so the search backtracks.
- Code generation: a word of 12 bits has four bytes of 3 bits, so there are types
  of one, two, three and four bytes of each sign, which is what the clamps and
  the alignment of byte strings distinguish; arguments are taken at the ends of
  their types and next to them; calldata is damaged in each of its words.
  `Fuel` (2,000) is above what any of the contracts executes. The address 2 is
  `Silent`: it answers calls with nothing.
- Venom: the programs are those of the schemes of `MCVenomPipeline` (one `if`, two
  nested ones, early reverts, loops with `break` and `continue`, expressions,
  accesses to memory, storage and the data behind the code, calls of internal
  functions in one place, two places, a branch and a loop) over a choice of
  conditions and statements. The schemes are what the front end makes of the
  statements of the language, and every pass changes some of them. `Fuel` (128) is
  above what any of the loops takes on any of the call data; a loop that did not
  end would show as different behaviour. `CallData` is chosen so that every branch goes
  both ways. Words of 4 bits tell apart the values the programs compute with, and
  sums wrap around in them. No callee is `Silent` here: dead store elimination takes
  a `call` for a write of the whole return buffer (`memory_location.py:167`), as
  `tests/unit/compiler/venom/test_dead_store_elimination.py:645` says is intended, and
  so the pipeline is checked where callees answer as much as they are asked for.
- Front end: a contract and modules in every relation of `uses` and `initializes`,
  declarations that need one another in a chain and in a cycle, calls and accesses
  in every kind of block and under every decorator. Loops and calls are not bounded:
  `began` tells whether a constructor has run never, once or more often, and what else
  happens does not depend on the turn.

Fairness. Only the lock run uses it: `WF` of the actions by which code that
runs goes on (`Execute`), for `LockReleased`. The EVM runs one instruction after the
other until the call ends, and gas ends every call; a call that waits for nobody
cannot be put off for ever. No fairness is assumed of callers: whether a further call
is made is up to them. `CallGraph`, `FunctionFrames` and `StorageLayout` state weak fairness of the
compiler's own steps as part of their specifications (a compiler works until it
is done) and no property needs it. All other properties are safety properties, and a run
of the compiler may stop where its phases are over, which is why the runs of the
selector section, the pipelines and the front end switch the deadlock check off.

## Proofs

Eight modules hold proofs. Each extends the module it is about, and says no more of the
constants than the assumptions that module names.

`MemoryAllocatorProofs` proves, for any set of handles and sizes, any
start position and limit, that `MemoryAllocator` is type correct, that live
blocks never overlap (`LiveBlocksNeverOverlap`), that the free list lies inside
the frame and apart from live blocks (`FreeListStaysSound`), that no byte is
lost (`NoByteLost`), that the frame is never overrun, that a release leaves nothing
unmerged (`NoFragmentation`), and that it implements
`MemoryHeap` (`AllocatorImplementsHeap`). None of these is inductive alone. The
invariant `IInv` says that live blocks and free entries together are disjoint
and lie below the next free position, also in the middle of the merge scan,
where one entry has been widened and its neighbour is still on the list, and it
counts bytes: live, free and never used add up to the frame. `ScanOrder` says of the
scan that the list is sorted and that neighbours it has passed do not touch; that
they are disjoint as well, by `IInv`, leaves two entries that are not neighbours no
way to touch either. Assumptions: the
start position and the limit are natural numbers, in order; sizes are natural numbers.

`CallGraphProofs` proves, for any number of functions and any calls between
them, that the analysis accepts no recursion and no second lock on a path and turns
down nothing else (`VerdictsRight`), that the sets it caches are the closure of the
calls (`SetsAreClosures`) and that in each of them callees come first
(`CalleesAlwaysFirst`). The invariant `GraphIInv` is about sets that are half
computed: whoever is in any set is complete, that is, has all its own callees in
its set; a function on the path has in its set every callee its loop has
passed; the path is one of calls without repetition, so each function on it reaches
those above; and no set holds more than what is reached. A visit that is cut short at a function already seen
is right because that function is either complete or on the path, and the latter
is the cycle that is rejected. `Reaches` is the least set that is closed under
the calls, so no induction over paths is needed.

`FunctionFramesProofs` goes on from there, for any accepted contract, bodies,
numbers of arguments and locals: every label resolves (`ReferencesAlwaysResolve`),
a frame once placed stays (`FramesNeverMove`), constructor data lies behind everything it
could be overwritten by (`DeployRegionStaysClear`), and no value of a suspended
function is overwritten by what it calls (`ValuesAlwaysSurvive`). Two invariants carry it.
`CompileIInv` is about compilation: a frame starts at or behind the ends
of the frames of all that its function calls, because callees came first (which is where
`GraphIInv` is needed), and whatever emitted code calls is emitted for the same context
or still to do. `FramesIInv` is about the running contract: the stack
is a chain of calls, so the frame of each function on it lies behind the frames of those
that it waits for; and what each of them holds in its frame, and the arguments it has
evaluated for the call it is at, are in memory. An argument that is evaluated while another
call is still to come is in a temporary of the caller, above the frames of all
that call can reach. The theorems on memory assume `Fits`, that the frames lie inside the
`MemoryWords` that the model keeps: the memory of the EVM has no end.

`StorageLayoutProofs` proves that no two variables share a slot and none lies on the lock
(`PlacesNeverOverlap`), for any module trees, override file and number of slots. Two allocators give out positions. The invariant `LayoutIInv`
says of the counters that all they gave out lies before them, in ranges
of their own and behind the slot of the lock, and of `occupied_slots` that it tells for each slot of an
overridden variable or lock whose it is. Three results speak of what a whole stage has
done: a file without collisions is accepted, if the other locations have room
(`GoodFilesAccepted`), an exported layout
can be fed back and moves nothing (`UpgradesMoveNothing`), and the lock does not move
the variables (`LockMovesNothing`). The invariant `FilesIInv` says that there is a
sound walk behind the tables, that is, a stack of modules each of which stands where the one
below it has just seen it initialized, with all other modules either not entered or seen
with their whole tree. Because no module is initialized twice, such a walk sees each
variable once, so the counters are the sums of the sizes seen, and when the stack is
empty it has seen the tree, which is the least closed set of modules below the
contract (`UnderFacts`). The sum over a set is the fold of the community modules, whose value
does not depend on the order it takes (`SumStep`, by a least counterexample among the
subsets). Assumptions: the modules are finitely many, their bodies sequences of
declarations; each is initialized in at most one place and the contract in none, which is
what `_collect_initialized_modules_r` and the import of modules have checked before.

`NonreentrantLockProofs` proves, for any functions, modifiers and depth, mutual
exclusion (`MutualExclusion`), that the slot tells whether some call holds the
lock (`SlotIsHonest`), that it is free between transactions (`NeverLeftLocked`)
and that static calls leave it (`StaticCallsKeepLock`). The inductive
invariant relates the whole stack of calls to the slot: at most one frame of the
stack holds the lock, the slot saved by every call for its revert is the one that held
at its start, and it is the locked value exactly if a frame below holds.
Without the saved slots the step of a revert cannot be proved. Assumptions: the
sets of functions are what their names say and `View` and `Nonreentrant` are subsets.

`SelectorTableProofs` proves, for any contract, widths, search bounds and calls, that
every call goes where it is declared to go (`AlwaysRouted`), in the three forms of the
section. The invariant `Settled` says that a dense table is only taken when no bucket of
it is empty and each has a magic, and only emitted when its sizes and positions fit
their bytes; the rest is about what such a table holds. The buckets share the
method ids among them (`BucketIds`). The hash of a bucket is a bijection from its ids to
its places, so the order of the images puts each id where its image says
(`ImagesOrdered`, with the pigeonhole principle for the one direction and `Rising` for the other).
The entry that the header points at is that of the right bucket (`Laid`), and division and
remainder get back the fields that were packed (`FieldsApart`; the flag of a
payable function and the size do not meet, because sizes are even). The sparse
form rests on `ShortCall`: calldata that is shorter than a method id and reads as one ends
with a zero byte. Assumptions: widths are positive, a byte, a word and a method id are of even
width, and calldata reads as zero past its end; nothing is assumed of the method
ids, not even that they differ.

`AcceptedContractsProofs` proves, for any set of programs of any size, that accepted contracts
keep their modifiers (`AlwaysModifiersKept`), write no array under a loop over
it (`AlwaysLoopVariableFixed`) and never get stuck (`AlwaysNeverStuck`). The
argument has two halves, and `Inv` joins them (`AlwaysInv`). `AnalysisOk` is about the analysis: of each function it is
done with, every part and every statement is allowed where it stands, given what was found out about
the functions called there; of the one being visited, all before the line it is at. Which names
are bound at a line is told from the text (`Scope`), as is whether a block has ended
before it, so the bookkeeping of scopes and of `find_terminating_node` is shown to be right and not
assumed. `RunOk` is about the run: each function on the stack is at a line where exactly those names are bound and
which no ended block makes unreachable, and what is above it may do no more than it may itself and
writes nothing that its loops run over. A call keeps this because what was found out about
the caller includes what was found out about the callee. It also needs that no function is on the stack twice,
which is why `Acyclic` is in the invariant: functions are analysed after those they call, so there is a
rank that falls with each call. That the analysis rejects a write of a variable which
contains the one looped over, or is part of it, and this for calls too, is `OverlapCovers`.
Assumption: each program is one that the parser can have made (`WellFormed`): its modules are
finitely many and each a finite sequence of declarations, a path has at least one name, blocks
are nested and end where they say, a jump leads to the end of the loop around it, a body is a finite sequence
of statements, and decorators are those of the language.

`InitializationProofs` goes on from `Inv` and proves that the state a run touches
belongs to the contract or to a module that is initialized once in all, and that where the
constructors are straight each has run exactly once when the contract can be called
(`AlwaysInitializedOnce`). The invariant `OwnInv` adds three parts. `OwnAnalysis`: what a
function reads of the state, itself or through calls, is among the reads found out for it,
and every import on the way to what it reads or calls is one that an analysed module uses or
initializes (`Held`). What the contract does not initialize, none of its modules may use, so
a way that begins in the contract stays among the modules initialized below it.
`OwnRun`: whatever is on the stack is in such a module or touches no state below. `Constructing`,
during deployment: the constructor called at a place has begun, once, exactly if the one
that calls it has begun and has that place behind it wherever it is on the stack. In a straight constructor no
jump goes over such a place or back before it; and only one constructor calls a third, at
one place, because a module is initialized by one declaration. That the sets
`_collect_initialized_modules_r` walks are complete after as many rounds as there are
modules, so that chains of imports of any length are covered, is `GrowsToAll`.

Where an argument is an induction (over prefixes of a sequence, or the steps of
a recursive function), it is by a least counterexample: `LeastNumber` in `CallGraphProofs` and
`SelectorTableProofs` derives from the well-foundedness of subsets of a finite interval that
a set of numbers has a least element. `Recursion` in the latter derives from it that a
recursive function on the numbers has the values that its definition says.

Only model-checked, and why:

- `LockReleased`: liveness is out of the prover's reach.
- The code generation chain and the Venom chain, that is, all invariants of `CodegenPipeline` and
  `VenomPipeline`: passes and evaluators are recursive on programs (`RECURSIVE`
  operators), and what they compute for every program is an induction over data.
- `OrderIrrelevant`: it compares the verdicts of two whole analyses, one of which has long
  finished. An invariant would have to say what the first one found out without its state.

## Findings

`venom_dead_branch` (`UsesAreDefined`, `simplify_cfg.py:40`): when simplify_cfg bypasses an empty block
between a branch and a join, the phi of the join loses that edge, and a variable
is read that no instruction defined on the way. An `if` whose first branch only
assigns a local that nobody reads is enough. The properties of `venom_pipeline`
therefore except the compilations in which such a block was bypassed;
`st.bypassed` says which.

`venom_dload_scratch` (`BehaviourPreserved`, `effects.py:75`): `sha3_64` writes the
scratch space, which the table of effects does not say, and a load of an immutable is
lowered to a copy to that space and a load from it. The order of instructions may put
the hash between the two. `self.n[k][IMM] = self.m[j]` is enough.

`venom_shared_literal` (`BehaviourPreserved`, `literals_codesize.py:46`): the pass that
shortens literals changes a literal in place, and another instruction may hold the same
object. A folded large constant that is stored twice is enough, compiled for size.

`venom_loop_phis` (`BehaviourPreserved`, `phi_elimination.py:59`): phi_elimination replaces the phi at the
exit of a loop by a copy of one operand, if phis inside the loop feed each other.
This one needs a function written in Venom itself (`cli/venom_main.py`
compiles them); the front end does not make this shape.

The empty byte literal converted to a signed integer is -1 (`convert(b"", int256)`, `x""` too):
`_signextend` (`_convert.py:213`) asks for the sign of a number of no bits, and
`unsigned_to_signed` (`utils.py:283`) finds that 0 is more than 2 ** -1 - 1. A `Bytes` variable that is empty
gives 0, and `docs/types.rst:673` has the input preserved. `Arithmetic!AsSigned` computes what the
code does and `SourceMeaning!Conversion` what it should; the contract is left out of the
corpus of `codegen` (`MCCodegen!Casted` says where), because `ConversionsExact` and `ImplementsPromise` do not
hold of it: put in, TLC shows the call that returns -1.

`InitializedOnce` excepts programs in which a module outside the contract names what another
one imports (`uses: lib1.lib2` or `initializes: lib1.lib2`, `Lends`). The ownership of an import
is kept with the import itself (`set_ownership`, `analysis/base.py:112`, on the object that
`types/module.py:348` hands to every module that gets there), so once `lib3` has said
`initializes: lib1.lib2`, the contract may touch `lib1.lib2.x` although nobody initializes
`lib2` for it. Only the module itself is asked whether it says `uses` or `initializes` (`check_module_uses`).

`AnalysesCorrect` excepts functions in which an instruction reads the variable it
assigns: there `LivenessAnalysis` forgets that the variable is live. The front
end's own functions are in SSA form where it matters.

Slips without a run, as nothing breaks by them or they are outside the models:

- `deallocate_memory` says it merges slots "where possible"; an entry of no bytes
  that lies behind another at the same position keeps that one and the next apart
  (`Coalesced` says that no two entries touch at all only where no entry is empty).
- `venom/README.md` says `assert` reverts if its operand is not zero (the code
  reverts if it is), and lists the operands of `alloca` as size, offset, id (the
  code has offset first).
- `make_ssa.py:66` places phis without the edge from a block to itself; the front end makes no such edge.
- `function_inliner.py` means to demote `calloca` to `alloca` and never does: it looks an
  operand up among integers. An optimization is missed.
- `docs/using-modules.rst:101` and `:160` speak of initializers called once; the analysis
  accepts the call inside a `for`, in one branch of an `if`, or behind an early `return`.
  `InitializedOnce` says what holds: each initializer is called at one place, and runs once if
  the constructor is straight.
- `convert` of a literal byte string to `decimal` stops the compiler with a
  `CodegenPanic` (`_convert.py:242`), and so does that of a literal address to a signed
  integer (`_convert.py:209` asks the address for the size that only `bytesM` has): the
  branch for literals is taken before the check that has a message for the pair
  (`_convert.py:320`). `docs/types.rst:676` says the second is not allowed, so only the
  message is wrong; the first is allowed for a byte string in a variable.
  `FailsForAReason` names both (`Crashes`), and the corpus holds them.

## Not modelled

- `SyntaxTree` starts from typed trees: parsing, folding of constants, and inference of
  types are left out, as are interfaces.
- Builtins: `isqrt`, `addmod` and `mulmod`, `create_*`, the precompiles, and most of the
  environment variables. The Venom front end is modelled without calls of
  internal functions and deployment; the multi-function contexts of
  `MCVenomPipeline` are written by hand in the shape `ir_node_to_venom` gives them.
- Legacy deployment code, the data section of both back ends, source maps, gas estimates.
- The parser of Venom text, `check_venom`, dynamic jumps.
- The `Settings` and the phases of the driver beyond the choice of optimizer and
  back end; the command line (files and printing); the LLVM translator
  (its output is executed by tools outside the repository); output formats and the text
  of error messages.
