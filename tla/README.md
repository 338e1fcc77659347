# A verification development for the Jianmu compiler

`cminusfc` (under `2024ustc-jianmu-compiler-main/`) compiles Cminusf, a small C with `int`, `float`,
arrays, functions, `if` and `while`, to LLVM-like IR and on to LoongArch assembly. It is one
sequential C++ process without threads, files to recover or messages. What is hard in it is not
interleaving but long sequences of legal steps over shared, hand-maintained structures: use lists
and operand vectors, edge lists, one analysis object used for several functions, value stacks that
are pushed and popped around a recursion, register and stack offsets that two sides count
separately. The iteration order of `std::set<T *>` is the one real source of nondeterminism: it
follows heap addresses and changes from run to run. The models leave such choices open.

The models are of three kinds: transition systems of the compiler's data structures and algorithms;
machines that run the code which is emitted; and reference definitions (`FlowGraph`, `LocalMemory`,
`Meaning`) that say what the result should be.

## 1. Inventory

`main.cpp` runs the phases in order: parse, `AST`, `CminusfBuilder`, then with `-mem2reg` the passes
`Mem2Reg` and `DeadCode`, with `-licm` also `LICM` and `DeadCode`, and then `CodeGen` or the IR
printer. All phases share one `Module`, edited in place.

| Component | State it keeps | Operations | What makes it correct |
|---|---|---|---|
| Use-def chains (`Value.cpp`, `User.cpp`, phi operations of `Instruction.hpp`) | `operands_` of a user, `use_list_` of a value | `add/set/remove_operand`, `remove_all_operands`, `replace_all_use_with`, `add_phi_pair_operand`, `remove_phi_operand`, destructors | every operand is recorded once at its value and nothing else is; no dangling operand; the replacing loop ends |
| IR generation (`cminusf_builder.cpp`, constructors in `Instruction.cpp`, `BasicBlock.cpp`) | insertion point, current function, scopes, `pre_bbs_`/`succ_bbs_`, terminators | one `visit` per AST node | every block ends in one terminator, edge lists agree, cycles come from `while` only; types converted as the language says |
| Dominator analysis (`Dominators.cpp`) | post order, `idom_`, frontiers, tree, interval numbers; one object for all functions | `run`, `dfs`, `create_idom`, `intersect`, `create_dominance_frontier`, `create_dom_tree_succ`, `create_dom_dfs_order`, `is_dominate` | results equal the definition of dominance for every function; the loops end; no null is followed |
| Mem2Reg (`Mem2Reg.cpp`) | `var_val_stack`, `phi_lval`, `bb_rename` | `generate_phi`, `rename` | the function computes what it computed with its variables in memory |
| Dead code elimination (`DeadCode.cpp`) | marks, work list | `mark`, `sweep`, `clear_basic_blocks` | only what cannot be observed is removed |
| Purity (`FuncInfo.cpp`) | `is_pure`, work list of callers | `trivial_mark`, `process` | a function called pure has no effect, recursion included |
| Loop detection (`LoopDetection.cpp`) | loops, header and sub-loop maps | `discover_loop_and_sub_loops` | natural loops and their nesting |
| Loop invariant code motion (`LICM.cpp`) | per loop: invariants, stored variables, preheader | `traverse_loop`, `run_on_loop` | a hoisted instruction has one value in the loop; CFG and phis stay consistent |
| Code generator, frames and calls (`CodeGen.cpp`, `CodeGenUtil.hpp`) | `offset_map`, `frame_size`; at run time sp, fp, ra, argument registers, stack | `allocate`, `gen_prologue/epilogue/call/alloca/store` | slots are disjoint, arguments arrive, calls restore sp, fp, ra |
| Code generator, phis (`copy_stmt`) | slots of phis | copies before a branch | a phi gets the value of its operand on the edge taken |
| Code generator, arithmetic, comparisons, addresses | registers | `gen_binary`, `gen_icmp`, `gen_fcmp`, `gen_br`, `gen_gep`, constants | values and branch decisions as in the IR |
| IR containers, types and constants | owning lists, interning maps | insert, find, erase | one object per type and constant |
| Parser, AST, IR printer, runtime library, driver | trees, text, I/O | | functions of their input, or plain I/O |

How they interact: the builder and every pass call the use-def operations; branch constructors and
passes both write the edge lists; `Dominators` reads the edge lists and is read by `Mem2Reg` and
`LoopDetection`; `DeadCode` asks `FuncInfo`, `LICM` asks `LoopDetection` and `FuncInfo`; `CodeGen`
reads the phis that `Mem2Reg` made, whose operands are kept by the use-def operations. `hazards` in
`PROJECT.json` lists, line by line, where this can go wrong.

## 2. Modules

Each phase that keeps state has a module. Some phases meet in a composition, which is what the runs
check: `Analysis` (builder, dominators, loops), `PhiCopies` (Mem2Reg and the code generator's phis),
`DeadCode` (purity and elimination), `Compiled` (front end, code generator, machine).

| Module | Code | How state and actions correspond |
|---|---|---|
| `UseDef` | `Value`, `User`, `PhiInst` operands | `operands`, `use_list`, `alive`; one action per public operation. The loop of `replace_all_use_with` is a sequence of `ReplaceUse` steps, so the middle of a replacement is visible. A use list is a bag. `MCUseDef` gives values |
| `UseDefProofs` | | the proofs about it |
| `FlowGraph` | | reference definitions: reachability, dominance, frontier, dominator-tree children, natural loops |
| `FlowGraphProofs` | | lemmas about these definitions |
| `CminusfBuilder` | `visit` of functions, statements and indexed variables; branch, return and block constructors | the control flow graph only. The syntax tree is the input: each choice of a next statement is an action. `visiting` is the C++ call stack of `visit` |
| `Dominators` | all of `run_on_func` | one step per turn of a loop that follows pointers, `pc` says which loop runs. The members survive from function to function as they do in the object |
| `LoopDetection` | `run`, `run_on_func`, `discover_loop_and_sub_loops` | `work_list`, `bb_to_loop`, `loops`, and the members of `Loop`; one step per turn of the work list. A loop is named by its header |
| `Analysis` | `main.cpp`, `LoopDetection::run` | composes the three: `Analyse` and `Detect` work on the builder's graphs. `MCAnalysis` bounds the programs, `MCStaleNumbers` fixes one |
| `DominatorProofs`, `LoopProofs` | | the proofs about the graphs the builder emits and about `Dominators` run on them, then about `LoopDetection` run after that, with the proof that all cycles of the graphs go through headers |
| `Licm` | `LICM.cpp` | `traverse_loop`, the rounds that mark, the edits of phis, edge lists and branches, the motion. Then the function before and the function after are executed block by block along one path. `MCLicm` gives functions |
| `LicmProofs` | | the proofs about it |
| `StackFrames` | `allocate`, `gen_prologue`, `gen_epilogue`, `gen_ret`, `gen_call`, `gen_alloca`, slot loads and stores | `allocate` one value at a time, for every layout, then a machine with byte addresses: `mem`, sp, fp, ra, argument registers. `calls` is a history of what every activation has stored |
| `StackFramesProofs` | | the proofs about it: layouts, argument registers, frames and returns |
| `LocalMemory` | | abstract specification: a function walks along its graph, a store writes a variable, a load reads what was written last |
| `Mem2Reg` | `generate_phi`, `rename` | program written, phis placed one work-list item per step, blocks renamed one recursive call per step (`path` is the recursion), then the function executed without variables. Implements `LocalMemory` |
| `Mem2RegProofs` | | the proofs about it |
| `PhiCopies` | `copy_stmt`, called by `run` and by `gen_br` | `Mem2Reg`, and in its execution the choice (`copied`) between phis and the copies of the code generator. Either way it is to implement `LocalMemory` |
| `FuncInfo` | `trivial_mark`, `process` | the input is a module (`graph`, `code`, `arrays`); `is_pure`, `worklist` as in the code, one step per element taken from the list. `Effective`, the functions that write outside or call one that does, is the reference |
| `DeadCode` | `clear_basic_blocks`, `mark`, `sweep`, the rounds of `run` | goes on from `FuncInfo`, as `run` does. `insts` and `operands` are what is left, `todo` and `changed` the rounds. `Needed` and `Useful` are the references. `MCDeadCode` gives programs |
| `DeadCodeProofs` | | the proofs about both |
| `SyntaxTree` | `AST::transform_node_iter` | a function from syntax trees (`node`, as the grammar's actions call it) to ASTs, one operator per production |
| `IrGeneration` | every `visit` of `CminusfBuilder`, `Scope`, `IRBuilder`, the constructors of all instructions with their assertions, `Type::get_size` | a context is threaded through the visitors: `builder`, `scope`, `global_val`, `require_lvalue`, the functions so far. `ok` becomes false when an assertion fails |
| `CodeGenerator` | every `gen_` handler, `allocate`, loads and stores of slots, constants, `.space` of globals | a function from an IR instruction to the list of assembly instructions it appends |
| `LoongArch` | `io.c`; the processor, assembler and loader (external) | registers, byte-addressed memory, `$fcc0`, inputs and outputs; `Step` executes one instruction. `Assembles` is the range of immediates |
| `Compiled` | `main.cpp`, `CodeGen::run` | the phases as actions: `Visit`, one action per case of the switch in `run`, `Link`, `Execute`. `MCCompiled` writes programs |
| `Meaning` | | reference: what a Cminusf program prints and returns, interpreted on the syntax tree. The order of the two sides of an assignment is a parameter |

A definition that begins with "Faulty" is a plausible bug; each property is checked to fail under
one of them (`mutants` in `PROJECT.json`).

Abstractions worth knowing:

* `CminusfBuilder` keeps what changes the graph; `IrGeneration` is the same visitor with values.
  The first is explored over all programs up to a number of blocks, the second on given programs.
* `Mem2Reg` and `PhiCopies` know scalar locals only; `is_valid_ptr` excludes globals and addresses
  computed by `getelementptr`, and the pass leaves those alone. All other computation stands behind
  the value that is stored. `back()` of an empty `std::vector` is undefined behaviour; the model
  stops there (phase `crash`) and claims nothing of what follows.
* `Mem2Reg` and `Licm` take dominance and loops from `FlowGraph`: that `Dominators` and
  `LoopDetection` compute them is shown in `analysis`.
* `Licm` knows an instruction by what the pass asks about it: load, store, phi, pure or impure call,
  or `plain`, whose result depends on its operands alone. Conditions decide nothing, so every path
  is taken. Functions come from `DeadCode`, so what is computed is used.
* `DeadCode` sees of an instruction its operation, its operands and its callee.
* `FuncInfo.hpp:12` calls a function impure if it writes a global, modifies an array it is given, or
  calls an impure one. The code also marks `main`, every function that reads memory outside of its
  own, and every one with an array parameter, written or not. `trivial` is what the code does, and
  `has_effect` what the remark says. `PuritySound` compares the two in the direction that matters to
  `DeadCode`: nothing with an effect counts as pure. That a function without one does is not claimed,
  and is false.
* A hoisted instruction keeps its old `parent_` (`LICM.cpp:232`), and the numbering of the dominator
  tree keeps a `visited` set that a tree does not need; neither is modelled, and no property depends
  on them.
* In `StackFrames` a result or argument is stored whole; a value read back is whatever the bytes
  hold. Calls of the runtime library are one external step that destroys ra and the argument
  registers.
* In `Compiled` widths are parameters: an immediate of `Imm` bits (9 in the runs, 12 in the
  processor), a word of `Imm + High` bits (12 for 32), a double of twice that. The ratio of the
  constants in the programs to these widths is what matters: constants below, at and above an
  immediate, and words that wrap. Floats are exact multiples of 1/4, kept as a word.
  Memory and temporaries start with `Junk`, library calls leave `Junk` in the temporaries, and
  `$fcc0` starts with either value.
* `Compiled` has no passes: what they do is the subject of `PhiCopies`, `DeadCode` and `Licm`.

## 3. Runs

| Run | Question | Bounds |
|---|---|---|
| `usedef` | Are the use lists exact after any sequence of edits and deletions? | a phi of 2 pairs, an instruction of 2 operands, 2 blocks: the smallest at which a pair is trimmed before another one and one value is used twice |
| `analysis` | Which graphs does the builder emit, and are idoms, frontiers, tree, numbers and loops right on them, for both functions that one object analyses? | 2 functions, 7 blocks in all, nesting 5, all programs: an `if`/`else` in a `while`, two loops in sequence, an indexed variable in a condition. Programs that nest or sequence `while` only, up to 11 blocks: three loops inside one another take 10 |
| `stale_numbers` (violation) | Does the analysis end for every function? | one program of 11 blocks |
| `mem2reg` | Does the promoted function do what its loads and stores did, with phis and with copies? | 3 loads and stores of 2 variables with 2 values, anywhere in 5 graphs: branch, loop, branch in a loop, loop in a branch, and an unreachable block |
| `phi_copies` (violation) | ... with copies also where a phi takes over another one? | one loop, `x = y; y = ..;` |
| `dead_code` | Does no function with an effect count as pure, does elimination keep what is needed, remove the rest and end? | `main`, two functions and a library function; 5 blocks, 6 instructions: calls in a circle, a phi that uses itself, a chain of dead blocks that takes two rounds, effects through a call, a global and an array |
| `licm` | Does the function do after the motion what it did before, are edges, branches and phis consistent, is everything invariant gone from the loops? | 289 functions over 4 shapes (an `if` or an indexed variable in a `while`, two and three loops inside one another), three to four free instructions, every order of marking; two globals, values modulo 3. Loops that store what they load are left out |
| `licm_updates` (violation) | ... also in loops that store what they load? | one loop, `while (..) g = g + 1` |
| `frames` | Do frames, slots and calls fit together? | 2 functions, up to 2 arguments, one result, i1/float/pointer (1, 4 and 8 bytes), nesting 2. Every misalignment and both register files occur |
| `large_frame` (violation) | Does the epilogue release every frame? | one function with up to three results, arrays of 1008 bytes among them, as far as it assembles |
| `compiled` | Does the machine code do what the source program means? | 146 programs, each written out in `MCCompiled`: chains of two operators of either level over int and float operands, all comparisons in every position, arrays local, global and passed on with nested and negative indices, calls with mixed arguments and recursion, shadowed names and early returns, indices and right sides that affect each other |
| `float_flag` (violation) | ... also for comparisons of floats anywhere? | two programs |

Deadlock is checked in `compiled`, where an instruction without a handler or without an
execution would be one. The other systems may stop: a builder whose bound is used up, an analysis that is
done, a function that has returned.

The frames of `compiled` stay below 2^(`Imm` - 1) bytes, because the epilogue of larger ones is
wrong (`large_frame`) and one of exactly that size does not assemble: `-2048` fits the `addi.d` of
the prologue, `+2048` does not fit that of the epilogue. Nor does a function assemble whose array
begins more than 2048 bytes under `fp`, because `gen_alloca` has no long form (`CodeGen.cpp:381`).
`StackFrames` runs no program of either kind (`assembles`). So the long forms of slot addresses are in
the model but are not reached by programs that pass. Comparisons of floats occur as conditions of
float functions that have no other condition, where `$fcc0` is the condition (`float_flag`).

What the violations show (the quotes are in `findings`):

* `stale_numbers`: `post_order_vec_` and `post_order_` are never cleared between functions. After a
  function with loops in both branches of an `if`, the next function's sweep recomputes the idoms
  of the earlier blocks from a lost entry, and `intersect` runs in a circle for ever. `analysis`
  shows that up to 7 blocks every result that is produced is right for both functions, and that the
  analysis of the first function ends; that it ends for the second one is what fails here.
* `phi_copies`: the phis of a block are copied one after the other, and the whole series twice, so
  `x = y; y = ..;` in a loop gives `x` the new `y`. The run `mem2reg` says that this entanglement
  is the only thing wrong with the copies.
* `large_frame`: for frames above 2048 bytes the epilogue adds to `$fp` where it should move `$sp`.
  The function has two arrays of 1008 bytes, the second of which begins exactly 2048 bytes under
  `fp`, and one more pointer: 2064 bytes, in which every instruction assembles. `SmallReturnsRestore` says that smaller frames are released properly.
* `licm_updates`: `updated_global` is filled and never read. A load of a global variable leaves a
  loop that stores to it. (Pure calls are safe: a function that reads a global is not pure,
  `FuncInfo.cpp:72-75`.)
* `float_flag`: `gen_fcmp` leaves its result in `$fcc0` and a stale `$t0` in the slot; `gen_br` asks
  the return type of the function which of the two to test.

What the models show besides, without a run of its own:

* `while (c) { if (d) return 1; else return 2; }` leaves a predecessor the entry does not reach, and
  `create_dominance_frontier` follows its null idom (`Dominators.cpp:161`). `CrashOnlyAtDeadPred`
  says that this is the only null the analysis follows.
* An unreachable loop keeps its predecessors, so `clear_basic_blocks` leaves it, but an unreachable
  block in front of it goes, with the `alloca` whose address the loop uses (`DeadCode.cpp:26`). Its
  users stay with a null operand. `NeededStays` says that only code that is never reached is
  affected.
* The language has the address on the left of an assignment come first, its index included, then the
  right side (`cminusf_builder.cpp:392-394`). `visit(ASTAssignExpression)` visits the right side first
  (`:508-511`), so `a[i] = i = i + 1` with `i` at -1 stores `a[0]` instead of ending the program.
  `Meaning` can evaluate in either order. `ResultsAgree` takes the language's, and speaks of the
  programs for which the two orders mean the same; `AssignmentsTurned` speaks of the others, and says
  that the program does what the opposite order means: the departure is real, it is the same in every
  assignment, and it is the only one.
* `run_on_loop` enters the header twice into the successors of a preheader (by hand and by the
  branch), and leaves an empty block without terminator where nothing is invariant; `DeadCode`,
  which always follows, removes the block.

### Fairness

`UseDef`: weak fairness of the loop of `replace_all_use_with` only; nobody is obliged to call it.
`Dominators`, `Analysis`, `DeadCode`: weak fairness of the steps of the pass; a sequential
program that can take its next step takes it. The builder's input owes nothing. The other modules
have safety properties only and assume none; that compilation and execution do not stop in between
is the deadlock check of `compiled`.

## 4. Proofs

`UseDefProofs` proves, for all finite or infinite sets of values, users, phis and blocks and all
operand bounds that satisfy `UseDefAssumption` (users are values, phis are users, blocks are values
and not users, the bounds are natural numbers):

* `TypeCorrect`, `UseListsExact`, `NothingDangles`, `PhisAlternate`: `Spec => []P` for the four
  state properties of run `usedef`.

The inductive invariant is `IInv == TypeOK /\ PhiShape /\ UseListExact /\ NoDangling /\ CallOK`.
The parts need one another. `UseListExact` alone is not preserved by `remove_operand`: that shifts
the later operands one at a time through `remove_use` and `add_use`, and a use moved into the gap is
removed again if the next operand is the same value. Only phis call it, and in a phi neighbours
differ (`PhiShape`). `NoDangling` needs `UseListExact`, because a destructor only nulls the operands
its use list names, and `CallOK`, which says that a running replacement has a live target, or is a
destructor's with target null. Below the invariant there are lemmas about the pure operators (what an edit does to a
vector's type, that removing a use and adding another keeps the lists exact, which users are
untouched), then one lemma per action, and `NextInv` puts them together.

`DeadCodeProofs` proves, for every module that is well formed (edges and operands stay in their
function, what a reachable block uses is computed in a reachable one) and every order in which
functions, blocks and work lists are visited:

* `PurityKnown`: `Spec => []PuritySound`, `FuncInfo` ends with no function marked pure that has an
  effect, directly or through calls;
* `NothingNeededGoes`: `Spec => []NeededStays`, no reachable block, and nothing that something
  reachable and critical depends on, is deleted or loses an operand or an edge.

The references (`Live`, `Effective`, `Needed`) are least closed sets, so no induction over data is
needed: each comes with a lemma that it is contained in every closed set. `PurityInv` says that what
is `trivial`, hence whatever has an effect, is marked and that a marked function off the work list
has marked callers only; with an empty list the marked functions are closed, and contain
`Effective`. `KeepInv` is
`NeededStays` with the edge lists. Blocks: a reachable block is an entry or has a reachable
predecessor (`LiveReached`), which is still there, so its predecessor list is not empty. Sweep:
`MarkInv` says that the marks are closed but for the work list; with an empty list, the needed
instructions that are marked or of another function are a closed set, so they are all of `Needed`
(`NeededMarked`). This uses purity only as something that stays the same, which is why the two
theorems do not depend on each other.

`StackFramesProofs` proves about run `frames`, for any number of
functions, values, array sizes, nesting depth and stack, under `StackAssumption` (at most eight
arguments, which is what the registers hold; the top of the stack is aligned):

* `LayoutsSound`: `Spec => []LayoutSound`. `LayoutInv` says that the running offset is the end of
  everything given out so far, so the next slot lies below all others, and that the frame is rounded
  up from it.
* `ArgumentsArrive`: `Spec => []ArgsArrive`. Caller and callee count the registers of the two files
  in two loops, each with two counters that are passed over the same parameters. `CallInv` says what
  the counters are: the number of float, and of other, parameters before the present one
  (a cardinality, so no induction is needed). Different parameters of one file then have different
  registers, all below eight, and both loops name the same.
* `ActivationsKeep`: `Spec => []FramesIntact`, and `SmallFramesReturn`: `Spec => SmallReturnsRestore`.
  `StackInv` says that the frames on the stack lie one under another (`Stacked`), that every
  activation holds the sp and fp of the one before it (`Linked`), where sp and fp are now
  (`Current`), and that memory holds what every activation that has made its prologue has stored,
  with ra and fp in the two words on top (`Frames`). A write is into a slot or array of the running
  activation, or, in a prologue, into the two words of a frame that is just made; a lemma about
  bytes says that a write leaves every place beside it alone, and `LayoutSound` and `Stacked` that
  all others are beside it. A store through an array's address needs that the pointer in the slot
  is the one `gen_alloca` put there, which is part of `Frames`.

`StackInv` is stated for `SmallFrames`, and so are the two properties: with the long form of
`gen_epilogue` both are false (`large_frame`). The other two theorems hold for frames of any size.

`DeadCodeProofs` also proves `TypesKept` and `NothingDeadStays`: `Spec => []DeadGone`. `RoundInv` says
what the rounds know: a function whose turn in the present round is over without a change has no
block to remove, and nothing unmarked; `changed` records whether any turn of the round changed
something. The last round is one in which nothing did, so what holds of each function at its turn
still holds of all of them at the end. It also says that the marks lie in every set that is closed
under usefulness, the other half of `MarkInv`, so what sweep leaves is useful.

`FlowGraphProofs` is about graphs alone. `Reach` is a recursive function (blocks are added once per
block); `ReachIsLeast` says that for every finite graph it is the least set with the start that is
closed under the edges: the sets the function goes through grow until they stay the same, and they
cannot grow more often than there are blocks. From there dominance is a partial order with the
entry at its bottom, the dominators of a block form a chain, so that every reachable block but the
entry has one parent in the dominator tree, and an edge leads to a child, or into the frontier. Where
an induction is needed it is a least counterexample (`LeastNumber`), a set of numbers instead of an
operator.

`Mem2RegProofs` proves about run `mem2reg`, for every graph, every program of loads and stores, every
order of variables, work lists and children:

* `PhisPlacedRight`: `Spec => []PhisAtFrontier`. `PlacedInv` says of the variable in turn that
  blocks with a phi, or a store, whose frontier is not yet covered are on the work list, and that
  every phi lies in every closed set.
* `StacksBalanced`, `NothingLeft`: `Spec => []StackDepth`, `Spec => []VariablesGone`. `RenameInv` says
  that `path` is a path in the dominator tree whose subtrees to the left are renamed and whose others
  are not, that a stack holds what the blocks on `path` pushed, one above the other, and that every
  load of a renamed block is replaced by a value that is not a load itself. At the end all blocks that
  can be reached are renamed, because a set that holds the entry and the tree's children of its
  members holds everything reachable.
* `CrashesUnset`: `Spec => []CrashOnlyUnset`. When `back()` finds nothing, no block above has a store
  or a phi; then the load's block is not in the iterated frontier of any store that can be reached,
  and a path from the entry to it that meets no store exists (`SilentReach`).
* `NewFormImplements`: `Spec => ImplementsMemory`, the refinement of `LocalMemory`: the writing of the
  program and the pass map to stutters, `Call`, `Execute` and `Branch` to the steps of the same names.
  The mapping is that the value of a variable is the value of the definition that reaches this point
  of the code. `OutSame` is the heart: without a phi in a block, a variable comes with the same
  definition from every predecessor, as it does from the dominator-tree parent; with a phi, `OperandInv` says
  that the operand for the predecessor is the definition at its end. `RunInv` adds that what is
  defined at this point of the execution is in `env`.

The assumption on the graphs (`Mem2RegAssumption`) is that they are lists of successor lists
whose members are blocks, and that nothing leads back to the entry. `EdgesMirror`, the builder's
theorem, includes that.

`DominatorProofs` begins with the builder. It proves, for any number of functions and blocks and every program:

* `EdgesAgree`: `Spec => []EdgesMirror`, and `NoBlockLeftOpen`: `Spec => []CompleteIsTerminated`.
  `GraphsAsBuilt` says the same of `SpecAnalysis`, because the analyses read the graph and change
  none of it.

The inductive invariant is `BuilderInv == Core /\ VisitInv`. `Core` is about the graph: blocks are
numbered as they are made and belong to one function each, edge lists mirror each other without
doubles, a block has edges just if it ends in a branch, what is not made yet has neither. `VisitInv`
is about `visiting`, the stack of calls of `visit`: the blocks a frame has still to fill are new,
different from one another and from those of the other frames, and every block of the current
function without a terminator is the insertion point or is such a block of some frame. The second
half is what `CompleteIsTerminated` needs, since with an empty stack only the insertion point can be
open, and the end of a function closes that one. The first half is what `EdgesMirror` needs, because
a branch must not be put into a block that has one already: its targets would be entered a second
time.

It goes on from there with `SpecAnalysis`: the analysis of every function of every
program, with one object for all of them. Its invariants are proved one on top of the other:

1. `Placed`: the iterators of the loops of `run_on_func` stand inside their lists.
2. `Searched`: the depth first search numbers each reachable block once, a finished block has
   finished successors unless they are on the path, and so each reachable block but the entry has a
   predecessor with a larger number (`OwnNumbers`), which is what the sweep, going from the end,
   relies on.
3. `Linked` and `Fresh`: a link leads to a larger number, and whatever is above a block by links, or
   will be when the merge in progress is over, leaves out no dominator. `LinksClimb`:
   `SpecAnalysis => []IdomClimbs`, and `ChainsKeepDominators`: `SpecAnalysis => []DominatorsOnChain`.
4. `Fixed`: while `changed` is false, each block passed in this sweep is below its link in
   every predecessor that has one. A whole sweep without a change is thus a solution of the
   equations, and in a solution everything above a block dominates it (`LinksDominate`). With 3, the
   chains are exactly the dominators. `IdomIsDominator`: `SpecAnalysis => []IdomCorrect`.
5. `Frontiers`: for the join whose predecessors are visited, the runner has added it to just the
   blocks on the chain between each predecessor passed and the link of the join. A
   block with a single predecessor is in no frontier (`SinglePredecessor`), for which the entry must
   have no predecessor. `FrontiersAreExact`: `SpecAnalysis => []FrontierExact`.
6. `Trees`: in the numbering of the dominator tree, the blocks still open enclose one another, and
   finished ones enclose exactly what they dominate. `NumbersAreDominance`:
   `SpecAnalysis => []OrderDecidesDominance`.
7. `FailsAtDeadPred` is about the step that follows a null pointer, as an action property of
   `SpecAnalysis`: it is a step of the runner at a predecessor that cannot be reached, with `new_idom`
   reset and the join reachable (`AtDeadPred`), or one of `intersect` at a block of an earlier function
   (`AtEarlierBlock`). So on the blocks of the function that is analysed `intersect` never fails.

What the object keeps from earlier functions is part of the argument: frontiers and children of
blocks not analysed yet are empty, and the links of a new function's blocks are set by its own sweeps.
`IdomClimbs` is about the function being analysed only. For the blocks of earlier functions it is
false (run `stale_numbers`).

`LoopProofs` goes on from there again, with `LoopDetection`:

1. `Living`: a function whose analysis has not failed has no reachable block with an unreachable
   predecessor; the runner would have followed its null link. Without this the loops of such a
   function could not be natural ones, because the work list goes along predecessors.
2. `Ranked`: a block has a number of the dominator tree, above zero, just if it can be reached.
   Headers are taken from the highest number down, which puts the inner of two nested ones first.
3. `Books`: what the tables say of one another. `bb_to_loop` names the outermost loop found so far
   around a block (`Membership`), parents and sub-loops are two sides of one relation, and a loop inside
   another has a parent, which is that loop or lies inside it (`Nesting`).
4. `Looped`: loops that are finished are the natural loops of their headers (`NaturalFor`). For the
   one in work (`Working`), everything on the list is in the natural loop, and the latches, and the
   predecessors of every block taken in but the header, are taken in or on the list. The search jumps
   over a loop found before, taking in all of its blocks and going on at the predecessors of its header.
   That keeps `Working`, because only the header of a natural loop has predecessors outside, and takes in
   nothing too much, because two loops that share a block are one inside the other (`NaturalNested`).

From these, `AnalysisTyped`: `SpecAnalysis => []Typed`, `LoopsAreNatural`: `SpecAnalysis =>
[]LoopsNatural`, and `LoopsAreNested`: `SpecAnalysis => []LoopsNested`.

The rest of `LoopProofs` is why it is enough to look for loops that way. `HeadersOnCycles`:
`Spec => []CyclesHaveHeaders` of the builder, and `HeadersForLoops` says the same of `SpecAnalysis`. The
invariant `Structured` says how statements nest: there are ranks for the blocks such that an edge goes
up in rank or is a branch back (`Latch`), and such that the blocks a frame of `visiting` has still to
fill are above the insertion point, those of the outer frames above those of the inner (`Within`). New
blocks get ranks between the insertion point and what is above it (`Moved`). A branch back leads to
the header of a set of blocks with two properties (`Sealed`): no function begins in it, and no edge
enters it but at the header. While a `while` is being visited, all blocks made since its header, but
for the one behind the loop, are such a set (`Region`), because only the insertion point gets new
edges, and when the loop is done no frame that is left can branch into it. So a header dominates the
sources of its branches back (`GraphClimbs`). Conversely an edge up in rank never leads to a block that
dominates its source: of the blocks dominated, the one with the least rank would be entered from none
but itself and those it dominates (`OnlyLatches`). What is left when the branches back are taken away
goes up in rank, and has no cycle (`NoOtherCycle`).

`LicmProofs` proves about run `licm`, for every set of functions that satisfies `LicmAssumption` and
every order in which loops and instructions are taken:

* `EdgesAlwaysAgree`: `Spec => []EdgesAgree`, and `NothingIsLeft`: `Spec => []NothingInvariantLeft`;
* `EffectsAlwaysSame`: `Spec => []SameEffects` if all functions are `Quiet`, that is, no loop stores
  to what a load of that loop reads. The hypothesis cannot be dropped: `licm_updates`
  shows what happens in a loop that is not quiet. The functions of run `licm` are all quiet.

What `LicmAssumption` asks of a function is what the passes before leave: edges are those of the
terminators (`Branches`, the constructors of `BranchInst`), a loop is entered by the one
unconditional branch that `visit(ASTIterationStmt)` emits (`EnteredOnce`), the code is in static
single assignment form with one pair of a phi for each predecessor (`SingleAssignment`, `Mem2Reg`).
Blocks that cannot be reached are not part of it; LICM sees loops of reachable blocks only. Memory
cells are finitely many, as the variables of a program are.

The inductive invariant of the first two is `Linked /\ Marks`. `Linked` says what every table is at any point of the
pass, in terms of the original graph and the set `Rewired` of loops that have a preheader in use:
the entry of such a loop leads to the preheader alone and the preheader to the header, in the
successor lists (`SuccsAre`), the terminators (`TermsAre`), the predecessor lists (`PredsAre`) and
the phis (`PhisAre`), and a loop consists of its natural loop and the preheaders of the loops inside
it (`BlocksAre`). Between `Rewire` and `Move` the lists disagree for the loop in work, and each part
says how. It needs that the entry of a loop has one successor, since operand 0 of its branch is
overwritten, and that two loops have different entries. From it follows that the new graph is the
old one with some edges divided in two (`Divided`). Lemmas about such graphs say that reachability,
dominance and natural loops are those of the old graph with the new blocks put in
(`DividedReach`, `DividedDom`, `DividedLoop`), so a loop in the sense of the tables is the natural
loop of the new graph. `Marks` says that inner loops are done first, that what is found invariant in
a loop is in none of its inner loops, because it would have been found there, and that a finished
loop is `Settled`. A preheader that joins the loop around brings back what has been moved out of the
inner loop, so the loop around has the same instructions as before and is judged when its turn comes.

`EffectsAlwaysSame` adds `Hoists`, `Simulates` and `Returned`. `Hoists` is about the code: what has
moved is gone from its block and nothing else is (`CodeWas`), operands come before their uses in a
preheader (`InOrder`), what stands in a preheader came out of the loop behind it, takes nothing from
inside that loop, and that loop has no impure call (`Left`), and the pairs of phis are the original
ones with renamed sources (`PhisWere`). `Simulates` relates the two machines (`Along`). They are at the
same block, or the second is in the preheader that the first does not have (`Beside`). Memory and
results are equal, and so is the value of each instruction in the blocks that dominate the block
they come from. The values of other instructions may differ, because the second machine computes what has
been moved also when the loop is left before its turn. The part that makes this an induction is
`Steady`: inside a loop, each instruction in its preheader has the value it would get if it were
evaluated now. That holds on entry, since the preheader has just been executed in order
(`PreheaderRun`), and a block of the loop keeps it, since the operands are not computed there and, the
loop being quiet and without impure calls, the cells that are read are not stored to
(`PreheaderKeeps`). So when the first machine comes to an instruction that has been moved,
it computes what the second already has (`BlockAlong`). A phi takes the same pair in both,
although the second may come from a preheader (`EnterAlike`).

Only model-checked:

* `CrashOnlyAtDeadPred` beyond `FailsAtDeadPred`, which depends on how `while` and `if` nest. The
  sweep visits the blocks of earlier functions again, whose entry has lost its link to itself; that
  none of these visits fails depends on the shape of the earlier graph;
* the copies of `PhiCopies`;
* `Compiled`: what `SyntaxTree`, `IrGeneration` and `Meaning` compute for every input would need
  induction over data, and they use RECURSIVE operators, which the prover does not support;
* liveness (`ReplaceEnds`, `FirstFunctionEnds`, `DeadCodeEnds`), which is out of the
  prover's reach.

## 5. Not modelled

* The flex scanner and the bison parser are generated; the tree that the grammar's actions build is
  the input of `SyntaxTree`. The AST printer, the IR printer, logging and option parsing are
  formatting or plain I/O. `1.cpp` is an earlier builder that no build file names.
* `Type`/`Constant`/`Module` interning: insert-or-find on a map, without history.
* `replace_use_with_if`, `sweep_globally`, `visit(ASTParam)`: never called.
* A ninth argument of a register class: an assertion in `Register::a` ends the compilation, and
  `StackAssumption` and the programs stay below it.

## 6. What is left

In this order:

* `CrashOnlyAtDeadPred`: what `FailsAtDeadPred` leaves open is what the links of an earlier function
  become in a later sweep, for the graphs that `Structured` describes.
* The passes inside `Compiled`, so that the composition of all phases is executed, not only pairs.
* `analysis` with more blocks, which takes a run of more than a few minutes.
