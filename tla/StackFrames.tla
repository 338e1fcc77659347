----------------------------- MODULE StackFrames -----------------------------
(***************************************************************************)
(* The stack of a compiled program: the frame layout that CodeGen computes *)
(* (codegen/CodeGen.cpp, allocate), and the machine that runs the prologue,*)
(* the epilogue and the calls it emits.                                    *)
(*                                                                         *)
(* First every function gets its layout, one argument or instruction at a  *)
(* time; then the program runs.  Memory is a function from byte addresses, *)
(* and a store writes every byte of the value, so that slots that overlap  *)
(* corrupt one another here as they would on the machine.                  *)
(***************************************************************************)
EXTENDS Integers, Sequences

CONSTANTS
    Funcs,        \* the functions that are compiled
    MaxArgs,      \* bound: arguments of a function
    MaxInstrs,    \* bound: instructions of a function with a result
    Types,        \* the types of values, of "i1", "i32", "float" and "ptr"
    AllocaSizes,  \* sizes in bytes of the types that are alloca'd
    Vals,         \* values that are computed
    StackTop,     \* sp when the program starts
    MaxDepth      \* bound: activations of compiled functions

ASSUME StackAssumption ==
    /\ Types \subseteq {"i1", "i32", "float", "ptr"}
    /\ AllocaSizes \subseteq Nat \ {0}
    /\ Vals \subseteq Int
    /\ StackTop \in Nat /\ StackTop % 16 = 0
    /\ MaxArgs \in 0 .. 8        \* arguments travel in registers only
    /\ MaxInstrs \in Nat /\ MaxDepth \in Nat

PROLOGUE_OFFSET_BASE == 16
PROLOGUE_ALIGN       == 16
IMM_12_MAX           == 2047
IMM_12_MIN           == -2048
IS_IMM_12(x)         == x \in IMM_12_MIN .. IMM_12_MAX

ArgTypes == Types \ {"i1"}   \* no parameter of Cminusf is an i1

(* Type::get_size *)
get_size(t) == CASE t = "i1" -> 1 [] t \in {"i32", "float"} -> 4 [] t = "ptr" -> 8

(* Faulty: rounds down. *)
ALIGN_down(x) == (x \div PROLOGUE_ALIGN) * PROLOGUE_ALIGN

(* ALIGN(x, 16) *)
ALIGN(x) == ((x + 15) \div PROLOGUE_ALIGN) * PROLOGUE_ALIGN

(* A slot: n bytes from fp + off, and under them the bytes of an alloca. *)
Slots == [type : Types, off : Int, extra : Nat]
size(s) == get_size(s.type)
base(s) == s.off - s.extra     \* where the alloca'd bytes begin

VARIABLES
    offset,       \* allocate: the running offset of each function
    offset_map,   \* ... the slots given out, arguments first
    nargs,        \* ... how many of them belong to arguments
    frame_size,   \* 0 until allocate has ended
    pc,           \* what the machine does next
    sp, fp, ra,   \* registers
    areg, freg,   \* argument registers $a0 .. $a7 and $fa0 .. $fa7
    arg,          \* the argument that is passed or stored next
    garg_cnt, farg_cnt,  \* the registers of either file already used
    mem,          \* memory below StackTop, byte by byte
    calls         \* history: the activations, and what each must find again

layout_vars == <<offset, offset_map, nargs, frame_size>>
arg_vars    == <<areg, freg, arg, garg_cnt, farg_cnt>>
vars        == <<layout_vars, pc, sp, fp, ra, arg_vars, mem, calls>>

Running == UNCHANGED layout_vars
Layout  == UNCHANGED <<pc, sp, fp, ra, arg_vars, mem, calls>>

(* The functions are laid out one after the other. *)
allocating(f) ==
    /\ frame_size[f] = 0
    /\ \A g \in Funcs \ {f} : frame_size[g] = 0 => offset_map[g] = <<>>

compiled == \A f \in Funcs : frame_size[f] > 0

(* The addi.d of gen_alloca and of a short epilogue take 12 bits; all other *)
(* offsets are built in a register when they are larger.                    *)
assembles ==
    \A f \in Funcs :
        /\ IS_IMM_12(0 - frame_size[f]) => IS_IMM_12(frame_size[f])
        /\ \A i \in DOMAIN offset_map[f] :
              offset_map[f][i].extra > 0 => IS_IMM_12(base(offset_map[f][i]))

-----------------------------------------------------------------------------
(* allocate                                                                 *)

(* An argument. *)
AllocateArg(f, t) ==
    LET o == offset[f] + get_size(t)
    IN  /\ allocating(f)
        /\ nargs[f] < MaxArgs
        /\ Len(offset_map[f]) = nargs[f]     \* arguments come first
        /\ offset' = [offset EXCEPT ![f] = o]
        /\ offset_map' = [offset_map EXCEPT
               ![f] = Append(@, [type |-> t, off |-> 0 - o, extra |-> 0])]
        /\ nargs' = [nargs EXCEPT ![f] = @ + 1]
        /\ UNCHANGED frame_size
        /\ Layout

(* Faulty: the bytes that are alloca'd are not counted. *)
no_space(alloc_size) == 0

(* offset += alloc_size *)
alloca_space(alloc_size) == alloc_size

(* An instruction with a result; alloc_size is 0 unless it is an alloca. *)
AllocateInstr(f, t, alloc_size) ==
    LET o == offset[f] + get_size(t)
    IN  /\ allocating(f)
        /\ Len(offset_map[f]) < nargs[f] + MaxInstrs
        /\ alloc_size # 0 => t = "ptr"
        /\ offset' = [offset EXCEPT ![f] = o + alloca_space(alloc_size)]
        /\ offset_map' = [offset_map EXCEPT
               ![f] = Append(@, [type |-> t, off |-> 0 - o, extra |-> alloc_size])]
        /\ UNCHANGED <<nargs, frame_size>>
        /\ Layout

AllocateEnd(f) ==
    /\ allocating(f)
    /\ frame_size' = [frame_size EXCEPT ![f] = ALIGN(offset[f])]
    /\ UNCHANGED <<offset, offset_map, nargs>>
    /\ Layout

-----------------------------------------------------------------------------
(* Memory.  A byte knows the value it is part of and where that begins.     *)
cell(w, x) == [what |-> w, v |-> x, at |-> -1]
Junk       == cell("junk", 0)
Garbage    == -1        \* what a register holds after loading junk

Write(m, a, n, c) ==
    [x \in DOMAIN m |-> IF x \in a .. a + n - 1 THEN [c EXCEPT !.at = a] ELSE m[x]]

Holds(m, a, n, c) == \A x \in a .. a + n - 1 : m[x] = [c EXCEPT !.at = a]

(* A load of n bytes: the value, if the bytes are those of one value of the *)
(* expected kind.                                                           *)
Load(m, a, n, w) ==
    IF \A x \in a .. a + n - 1 : m[x] = m[a] /\ m[x].what = w /\ m[x].at = a
    THEN m[a].v ELSE Garbage

top      == calls[Len(calls)]
slots(i) == offset_map[calls[i].func]
None     == Junk

(* Stores of generated code address their slot from fp.                     *)
StoreSlot(i, c) ==
    /\ mem' = Write(mem, fp + slots(Len(calls))[i].off, size(slots(Len(calls))[i]), c)
    /\ calls' = [calls EXCEPT ![Len(calls)].val[i] = c]

-----------------------------------------------------------------------------
(* Calls                                                                    *)

(* A loop over the arguments starts: int garg_cnt = 0, farg_cnt = 0. *)
first_arg == arg' = 1 /\ garg_cnt' = 0 /\ farg_cnt' = 0

(* A call of g begins, from the runtime or from a compiled function; bl     *)
(* will leave the return address, named here by the depth of the caller.    *)
Call(g, args) ==
    /\ \/ pc = "body"
       \/ pc = "start" /\ compiled /\ assembles
    /\ Len(calls) < MaxDepth
    /\ sp >= frame_size[g]              \* bound: the stack does not overflow
    /\ Len(args) = nargs[g]
    /\ calls' = Append(calls,
           [func |-> g, args |-> args, sp |-> sp, fp |-> fp, ra |-> Len(calls),
            val |-> [i \in DOMAIN offset_map[g] |-> None],
            elem |-> [i \in DOMAIN offset_map[g] |-> None]])
    /\ pc' = "pass"
    /\ first_arg
    /\ Running
    /\ UNCHANGED <<sp, fp, ra, areg, freg, mem>>

(* Is argument arg of the running call a float? *)
float_arg == slots(Len(calls))[arg].type = "float"

Count == IF float_arg THEN farg_cnt' = farg_cnt + 1 /\ UNCHANGED garg_cnt
                      ELSE garg_cnt' = garg_cnt + 1 /\ UNCHANGED farg_cnt

(* gen_call: the next argument goes to the next register of its kind. *)
PassArg ==
    /\ pc = "pass"
    /\ arg <= nargs[top.func]
    /\ IF float_arg
       THEN freg' = [freg EXCEPT ![farg_cnt] = top.args[arg]] /\ UNCHANGED areg
       ELSE areg' = [areg EXCEPT ![garg_cnt] = top.args[arg]] /\ UNCHANGED freg
    /\ Count
    /\ arg' = arg + 1
    /\ Running
    /\ UNCHANGED <<pc, sp, fp, ra, mem, calls>>

(* bl, and gen_prologue up to the arguments: ra and fp are saved under the  *)
(* old sp, which becomes fp.                                                *)
Prologue ==
    /\ pc = "pass"
    /\ arg > nargs[top.func]
    /\ ra' = top.ra
    /\ mem' = Write(Write(mem, sp - 8, 8, cell("ra", top.ra)), sp - 16, 8, cell("fp", fp))
    /\ fp' = sp
    /\ sp' = sp - frame_size[top.func]
    /\ pc' = "args"
    /\ first_arg
    /\ Running
    /\ UNCHANGED <<areg, freg, calls>>

(* Faulty: one counter for both register files. *)
farg_shared == garg_cnt + farg_cnt

(* The number of the next floating-point argument register. *)
farg_next == farg_cnt

(* gen_prologue: the next argument is stored to its slot. *)
StoreArg ==
    /\ pc = "args"
    /\ arg <= nargs[top.func]
    /\ StoreSlot(arg, cell("val", IF float_arg THEN freg[farg_next] ELSE areg[garg_cnt]))
    /\ Count
    /\ arg' = arg + 1
    /\ Running
    /\ UNCHANGED <<pc, sp, fp, ra, areg, freg>>

PrologueEnd ==
    /\ pc = "args"
    /\ arg > nargs[top.func]
    /\ pc' = "body"
    /\ Running
    /\ UNCHANGED <<sp, fp, ra, arg_vars, mem, calls>>

-----------------------------------------------------------------------------
(* The body                                                                 *)

(* An instruction stores its result to its slot. *)
Compute(i, v) ==
    /\ pc = "body"
    /\ i \in DOMAIN slots(Len(calls))
    /\ i > nargs[top.func]
    /\ slots(Len(calls))[i].extra = 0
    /\ StoreSlot(i, cell("val", v))
    /\ Running
    /\ UNCHANGED <<pc, sp, fp, ra, arg_vars>>

(* gen_alloca: the address of the space under the slot. *)
Alloca(i) ==
    LET s == slots(Len(calls))[i]
    IN  /\ pc = "body"
        /\ i \in DOMAIN slots(Len(calls))
        /\ s.extra > 0
        /\ StoreSlot(i, cell("ptr", fp + base(s)))
        /\ Running
        /\ UNCHANGED <<pc, sp, fp, ra, arg_vars>>

(* gen_store through the pointer an alloca left, to its first n bytes. *)
StoreThrough(i, v) ==
    LET s == slots(Len(calls))[i]
        a == Load(mem, fp + s.off, size(s), "ptr")
    IN  /\ pc = "body"
        /\ i \in DOMAIN slots(Len(calls))
        /\ top.val[i].what = "ptr"
        /\ mem' = Write(mem, a, s.extra, cell("val", v))
        /\ calls' = [calls EXCEPT ![Len(calls)].elem[i] = cell("val", v)]
        /\ Running
        /\ UNCHANGED <<pc, sp, fp, ra, arg_vars>>

(* A function of the runtime library is called: it may use the stack under  *)
(* sp and the argument registers, and returns as the convention says.       *)
ExternalCall ==
    /\ pc = "body"
    /\ mem' = [x \in DOMAIN mem |-> IF x < sp THEN Junk ELSE mem[x]]
    /\ ra' = Garbage
    /\ Running
    /\ UNCHANGED <<pc, sp, fp, arg_vars, calls>>

(* Faulty: fp is taken from the place of ra. *)
saved_fp_swapped(a) == Load(mem, a - 8, 8, "fp")

(* ld.d $fp, $sp, -16 *)
saved_fp(a) == Load(mem, a - 16, 8, "fp")

(* gen_epilogue.  In a small frame sp is moved up and ra and fp are loaded  *)
(* from under it; in a large one the sum goes to fp, sp stays where it is.  *)
Epilogue ==
    LET fs == frame_size[top.func]
        s  == IF IS_IMM_12(0 - fs) THEN sp + fs ELSE sp
    IN  /\ pc = "body"
        /\ sp' = s
        /\ fp' = IF s < 16 THEN Garbage ELSE saved_fp(s)
        /\ ra' = IF s < 8 THEN Garbage ELSE Load(mem, s - 8, 8, "ra")
        /\ calls' = SubSeq(calls, 1, Len(calls) - 1)
        /\ pc' = IF ra' # Len(calls) - 1 THEN "wild"
                 ELSE IF ra' = 0 THEN "exit" ELSE "body"
        /\ Running
        /\ UNCHANGED <<arg_vars, mem>>

-----------------------------------------------------------------------------
Init ==
    /\ offset = [f \in Funcs |-> PROLOGUE_OFFSET_BASE]
    /\ offset_map = [f \in Funcs |-> <<>>]
    /\ nargs = [f \in Funcs |-> 0]
    /\ frame_size = [f \in Funcs |-> 0]
    /\ pc = "start"
    /\ sp = StackTop /\ fp = 0 /\ ra = 0
    /\ areg = [r \in 0 .. 7 |-> 0] /\ freg = [r \in 0 .. 7 |-> 0]
    /\ arg = 1 /\ garg_cnt = 0 /\ farg_cnt = 0
    /\ mem = [x \in 0 .. StackTop - 1 |-> Junk]
    /\ calls = <<>>

Args == UNION {[1 .. n -> Vals] : n \in 0 .. MaxArgs}

Next ==
    \/ \E f \in Funcs, t \in ArgTypes : AllocateArg(f, t)
    \/ \E f \in Funcs, t \in Types, n \in AllocaSizes \cup {0} : AllocateInstr(f, t, n)
    \/ \E f \in Funcs : AllocateEnd(f)
    \/ \E g \in Funcs, args \in Args : Call(g, args)
    \/ PassArg
    \/ Prologue
    \/ StoreArg
    \/ PrologueEnd
    \/ \E i \in 1 .. MaxArgs + MaxInstrs, v \in Vals : Compute(i, v)
    \/ \E i \in 1 .. MaxArgs + MaxInstrs : Alloca(i)
    \/ \E i \in 1 .. MaxArgs + MaxInstrs, v \in Vals : StoreThrough(i, v)
    \/ ExternalCall
    \/ Epilogue

Spec == Init /\ [][Next]_vars

-----------------------------------------------------------------------------
(* A layout that is complete gives every value bytes of its own, alloca'd   *)
(* space included: below the saved registers, above the end of the frame,   *)
(* which keeps sp a multiple of 16 as the calling convention demands.       *)
LayoutSound ==
    \A f \in Funcs : \A i \in DOMAIN offset_map[f] :
        LET s == offset_map[f][i]
        IN  /\ s.off + size(s) <= -16
            /\ frame_size[f] > 0 => /\ base(s) >= 0 - frame_size[f]
                                   /\ frame_size[f] % 16 = 0
            /\ \A j \in 1 .. i - 1 : s.off + size(s) <= base(offset_map[f][j])

(* Frames that gen_epilogue can release.  From 2064 bytes on it takes its   *)
(* other branch; a frame of 2048 does not assemble.                         *)
SmallFrames == \A f \in Funcs : frame_size[f] <= IMM_12_MAX

(* While calls nest and return, every activation keeps what it has stored:  *)
(* its results and arguments, in their slots, and its arrays.  Only a frame *)
(* that is too large for the epilogue's short form endangers that.          *)
FramesIntact ==
    SmallFrames =>
        \A k \in DOMAIN calls : \A i \in DOMAIN slots(k) :
            LET s == slots(k)[i]
                a == calls[k].sp
            IN  /\ calls[k].val[i] # None =>
                      Holds(mem, a + s.off, size(s), calls[k].val[i])
                /\ calls[k].elem[i] # None =>
                      Holds(mem, a + base(s), s.extra, calls[k].elem[i])

(* Callee and caller count the argument registers alike: each parameter     *)
(* slot receives the argument it was called with.                           *)
ArgsArrive ==
    \A k \in DOMAIN calls : \A i \in 1 .. nargs[calls[k].func] :
        calls[k].val[i] \in {None, cell("val", calls[k].args[i])}

(* What the comments on gen_epilogue and gen_ret promise: the frame is      *)
(* released, ra and fp are what they were, control goes back to the caller. *)
Returned == sp' = top.sp /\ fp' = top.fp /\ ra' = top.ra

ReturnsRestore      == [][Len(calls') < Len(calls) => Returned]_vars
SmallReturnsRestore == [][Len(calls') < Len(calls) /\ SmallFrames => Returned]_vars

=============================================================================
