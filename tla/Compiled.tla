------------------------------ MODULE Compiled ------------------------------
(* The compiler without its passes, and the program it makes: the syntax    *)
(* tree becomes an AST, the visitors build the IR, CodeGen::run translates  *)
(* it instruction by instruction, and the machine executes the output.      *)
EXTENDS CodeGenerator
CONSTANTS Programs \* syntax trees, each with the numbers its input gives

Source == INSTANCE Meaning

VARIABLES
  program,  \* which program is compiled
  phase,    \* "parsed", "module", "function", "block", "linked", "aborted"
  ir,       \* the module the visitors built
  context,  \* CodeGen's context
  rest,     \* the instructions of the block still to be translated
  output,   \* the instructions emitted
  machine   \* the machine the output runs on

vars == <<program, phase, ir, context, rest, output, machine>>

NoModule == [ok |-> TRUE, globals |-> <<>>, code |-> <<>>]
NoContext == [bb |-> 0]
NoMachine == [pc |-> 0, out |-> <<>>]

Init ==
  /\ program \in DOMAIN Programs
  /\ phase = "parsed"
  /\ ir = NoModule /\ context = NoContext /\ rest = <<>> /\ output = <<>>
  /\ machine = NoMachine

(* The front end: AST(tree), then the visitors; an assertion aborts.        *)
Visit ==
  /\ phase = "parsed"
  /\ ir' = Build(transform_node_iter(Programs[program].tree))
  /\ phase' = IF ir'.ok THEN "module" ELSE "aborted"
  /\ output' = gen_globals(ir'.globals)
  /\ UNCHANGED <<program, context, rest, machine>>

(* CodeGen::run takes the functions in order.                               *)
StartFunction ==
  /\ phase = "module" /\ ir.code # <<>>
  /\ context' = allocate(Head(ir.code))
  /\ ir' = [ir EXCEPT !.code = Tail(@)]
  /\ output' = output \o << <<"label", Head(ir.code).name, 0>> >> \o gen_prologue(context')
  /\ phase' = "function"
  /\ UNCHANGED <<program, rest, machine>>

StartBlock ==
  /\ phase = "function" /\ context.bb <= Len(context.func.bbs)
  /\ output' = Append(output, <<"label", context.func.name, context.bb>>)
  /\ rest' = context.func.bbs[context.bb]
  /\ phase' = "block"
  /\ UNCHANGED <<program, ir, context, machine>>

EndBlock ==
  /\ phase = "block" /\ rest = <<>>
  /\ context' = [context EXCEPT !.bb = @ + 1]
  /\ phase' = "function"
  /\ UNCHANGED <<program, ir, rest, output, machine>>

(* Every function is followed by one more epilogue.                         *)
EndFunction ==
  /\ phase = "function" /\ context.bb > Len(context.func.bbs)
  /\ output' = output \o gen_epilogue(context)
  /\ phase' = "module"
  /\ UNCHANGED <<program, ir, context, rest, machine>>

(* One case of the switch over the kinds of instructions; a failed          *)
(* assertion of CodeGen aborts.                                             *)
Emit(kinds, gen(_, _)) ==
  /\ phase = "block" /\ rest # <<>> /\ Head(rest).op \in kinds
  /\ LET code == gen(context, Head(rest)) IN
       /\ output' = output \o code
       /\ phase' = IF \E i \in DOMAIN code : code[i][1] = "assert" THEN "aborted" ELSE phase
  /\ rest' = Tail(rest)
  /\ UNCHANGED <<program, ir, context, machine>>

GenRet == Emit({"ret"}, gen_ret)
GenBr == Emit({"br"}, gen_br)
GenBinary == Emit({"add", "sub", "mul", "sdiv"}, gen_binary)
GenFloatBinary == Emit({"fadd", "fsub", "fmul", "fdiv"}, gen_float_binary)
GenAlloca == Emit({"alloca"}, gen_alloca)
GenLoad == Emit({"load"}, gen_load)
GenStore == Emit({"store"}, gen_store)
GenICmp == Emit({"ge", "gt", "le", "lt", "eq", "ne"}, gen_icmp)
GenFCmp == Emit({"fge", "fgt", "fle", "flt", "feq", "fne"}, gen_fcmp)
GenZext == Emit({"zext"}, gen_zext)
GenCall == Emit({"call"}, gen_call)
GenGep == Emit({"getelementptr"}, gen_gep)
GenSiToFp == Emit({"sitofp"}, gen_sitofp)
GenFpToSi == Emit({"fptosi"}, gen_fptosi)

(* The output is assembled, linked with the library and started; what the   *)
(* flag register holds then is unknown.                                     *)
Link ==
  /\ phase = "module" /\ ir.code = <<>>
  /\ \E flag \in {0, 1} : machine' = Started(output, Programs[program].inputs, flag)
  /\ phase' = "linked"
  /\ UNCHANGED <<program, ir, context, rest, output>>

Execute ==
  /\ phase = "linked" /\ machine.pc # 0
  /\ machine' = Step(machine, output)
  /\ UNCHANGED <<program, phase, ir, context, rest, output>>

CodeGen ==
  \/ StartFunction \/ StartBlock \/ EndBlock \/ EndFunction
  \/ GenRet \/ GenBr \/ GenBinary \/ GenFloatBinary \/ GenAlloca \/ GenLoad \/ GenStore
  \/ GenICmp \/ GenFCmp \/ GenZext \/ GenCall \/ GenGep \/ GenSiToFp \/ GenFpToSi

Halted == phase = "linked" /\ machine.pc = 0

(* Only a program that has ended, or a compiler that has aborted, stands    *)
(* still: an instruction without a handler would be a deadlock.             *)
Ended == (Halted \/ phase = "aborted") /\ UNCHANGED vars

Next == Visit \/ CodeGen \/ Link \/ Execute \/ Ended

Spec == Init /\ [][Next]_vars
-----------------------------------------------------------------------------

(* What the run has shown so far: the outputs, and main's result at the end.*)
Shown ==
  IF machine.out # <<>> /\ Last(machine.out)[1] = "neg_idx_except" THEN machine.out
  ELSE Append(machine.out, <<"exit", machine.x["$a0"]>>)

(* What the source programs mean, for either order in which the address on  *)
(* the left and the value on the right of an assignment are found.          *)
Meant ==
  [p \in DOMAIN Programs |-> [order \in {Source!AddressFirst, Source!ValueFirst} |->
     Source!Behaviour(Programs[p].tree, Programs[p].inputs, order)]]

(* The order does not matter: no index on the left of an assignment and its *)
(* right side affect each other.                                            *)
EitherOrder(meant) == meant[Source!AddressFirst] = meant[Source!ValueFirst]
Agrees(meant)      == EitherOrder(meant) => Shown = meant[Source!AddressFirst]
Turned(meant)      == ~EitherOrder(meant) => Shown = meant[Source!ValueFirst]

(* The compiled program prints what the source program means, in the same   *)
(* order, stops at the same negative index, and returns the same value:     *)
(* where the order within assignments does not matter.                      *)
ResultsAgree == Halted => Agrees(Meant[program])

(* Where it does, the compiled program departs from the language, which     *)
(* finds the address first (cminusf_builder.cpp:392-394): visit of          *)
(* ASTAssignExpression evaluates the right side first.  The order is the    *)
(* whole difference: every assignment of the program turns the same way,    *)
(* its effects, its negative indices and all that depends on them included. *)
AssignmentsTurned == Halted => Turned(Meant[program])

(* No assertion of the IR classes or of CodeGen fails on a program that     *)
(* keeps to the language: every value has the type its user wants, nothing  *)
(* follows a terminator.                                                    *)
AssertionsHold == phase # "aborted"

(* Every immediate number the generator writes fits its instruction.        *)
CodeAssembles == \A i \in DOMAIN output : Assembles(output[i])

(* A value is stored to its slot before any instruction loads it, whatever  *)
(* path the program took: no execution reads what was never written.        *)
Address(a, x) == x[a[3]] + a[4]
ReadsWritten ==
  phase = "linked" /\ machine.pc # 0 =>
    LET a == output[machine.pc]
    IN a[1] \in DOMAIN Loads => Address(a, machine.x) \in DOMAIN machine.mem
=============================================================================
