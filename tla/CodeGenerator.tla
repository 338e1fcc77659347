--------------------------- MODULE CodeGenerator ----------------------------
(* CodeGen's handlers: the instructions each emits for one IR instruction.  *)
(* g is the generator's context: the function and block being translated,   *)
(* the instruction, offset_map and frame_size.                              *)
EXTENDS IrGeneration, LoongArch

PROLOGUE_OFFSET_BASE == 16
PROLOGUE_ALIGN == 16
ALIGN(x, alignment) == ((x + alignment - 1) \div alignment) * alignment
(* Faulty: one too many at the upper end.                                   *)
IS_IMM_12_off_by_one(x) == x <= 2 ^ (Imm - 1) /\ x >= -(2 ^ (Imm - 1))
(* A value fits the immediate field of addi, ld and st. *)
IS_IMM_12(x) == x <= 2 ^ (Imm - 1) - 1 /\ x >= -(2 ^ (Imm - 1))

Slot(v) == <<v.kind, v.val>>
Result(inst) == Value("inst", inst.type, inst.id)

(* Every argument and every result gets a slot, an alloca the room for its  *)
(* contents below its own slot.                                             *)
Instructions(f) == FlattenSeq(f.bbs)
Taking(a, v, room) ==
  LET offset == a.offset + get_size(v.type)
  IN [offset |-> offset + room, map |-> a.map @@ (Slot(v) :> -offset)]
alloc_size(inst) ==
  LET type == get_pointer_element_type(inst.type)
  IN inst.operands[1].val * get_size(type)
allocate_inst(a, inst) ==
  CASE inst.type = VOID_T -> a
    [] inst.op = "alloca" -> Taking(a, Result(inst), alloc_size(inst))
    [] OTHER -> Taking(a, Result(inst), 0)
allocate(f) ==
  LET args == [i \in DOMAIN f.params |-> Value("arg", f.params[i], i)]
      with_args == FoldLeft(LAMBDA a, v : Taking(a, v, 0),
                            [offset |-> PROLOGUE_OFFSET_BASE, map |-> <<>>], args)
      all == FoldLeft(allocate_inst, with_args, Instructions(f))
  IN [offset_map |-> all.map, frame_size |-> ALIGN(all.offset, PROLOGUE_ALIGN),
      func |-> f, bb |-> 1]

(* A constant that does not fit an immediate is put together from its high  *)
(* and its low bits.                                                        *)
load_large_int32(v, reg) ==
  << <<"lu12i.w", reg, v \div 2 ^ Imm>>, <<"ori", reg, reg, v % 2 ^ Imm>> >>

load_large_int64(v, reg) ==
  LET high_32 == v \div 2 ^ Word
  IN load_large_int32(Signed(v, Word), reg)
     \o << <<"lu32i.d", reg, Signed(high_32, High)>>,
           <<"lu52i.d", reg, reg, high_32 \div 2 ^ High>> >>

(* A slot is addressed from $fp directly or through a computed address.     *)
Access(op, g, v, reg, address) ==
  LET offset == g.offset_map[Slot(v)]
  IN IF IS_IMM_12(offset)
     THEN << <<op, reg, "$fp", offset>> >>
     ELSE load_large_int64(offset, address)
          \o << <<"add.d", address, "$fp", address>>, <<op, reg, address, 0>> >>

Suffix(type) == CASE type = INT1_T -> "b" [] type = INT32_T -> "w" [] OTHER -> "d"

load_from_stack_to_greg(g, v, reg) == Access("ld." \o Suffix(v.type), g, v, reg, reg)
store_from_greg(g, v, reg) == Access("st." \o Suffix(v.type), g, v, reg, "$t8")
store_from_freg(g, v, reg) == Access("fst.s", g, v, reg, "$t8")

(* An assertion that fails ends the compiler.                               *)
assert(condition) == IF condition THEN <<>> ELSE << <<"assert">> >>

load_to_greg(g, v, reg) ==
  assert(is_integer_type(v.type) \/ is_pointer_type(v.type))
  \o CASE v.kind = "int" /\ IS_IMM_12(v.val) -> << <<"addi.w", reg, "$zero", v.val>> >>
       [] v.kind = "int" /\ ~IS_IMM_12(v.val) -> load_large_int32(v.val, reg)
       [] v.kind = "global" -> << <<"la.local", reg, v.val>> >>
       [] OTHER -> load_from_stack_to_greg(g, v, reg)

load_to_freg(g, v, reg) ==
  assert(v.type = FLOAT_T)
  \o IF v.kind = "float"
     THEN load_large_int32(v.val, "$t8") \o << <<"movgr2fr.w", reg, "$t8">> >>
     ELSE Access("fld.s", g, v, reg, "$t8")

load(g, v, greg, freg) ==
  IF v.type = FLOAT_T THEN load_to_freg(g, v, freg) ELSE load_to_greg(g, v, greg)

(* The arguments of each register class are numbered on their own.          *)
IsFloat(v) == v.type = FLOAT_T
class_number(args, i) ==
  ToString(Cardinality({j \in 1..(i - 1) : IsFloat(args[j]) = IsFloat(args[i])}))

gen_prologue(g) ==
  LET size == g.frame_size
      args == [i \in DOMAIN g.func.params |-> Value("arg", g.func.params[i], i)]
      saved == << <<"st.d", "$ra", "$sp", -8>>, <<"st.d", "$fp", "$sp", -16>> >>
      spilled == [i \in DOMAIN args |->
                    LET k == class_number(args, i) IN
                    IF IsFloat(args[i]) THEN store_from_freg(g, args[i], "$fa" \o k)
                    ELSE store_from_greg(g, args[i], "$a" \o k)]
  IN (IF IS_IMM_12(-size)
      THEN saved \o << <<"addi.d", "$fp", "$sp", 0>>, <<"addi.d", "$sp", "$sp", -size>> >>
      ELSE load_large_int64(size, "$t0") \o saved
           \o << <<"sub.d", "$sp", "$sp", "$t0">>, <<"add.d", "$fp", "$sp", "$t0">> >>)
     \o FlattenSeq(spilled)

(* The long form puts the frame's end into $fp, not into $sp.               *)
gen_epilogue(g) ==
  (IF IS_IMM_12(-g.frame_size)
   THEN << <<"addi.d", "$sp", "$sp", g.frame_size>> >>
   ELSE load_large_int64(g.frame_size, "$t0") \o << <<"add.d", "$fp", "$sp", "$t0">> >>)
  \o << <<"ld.d", "$ra", "$sp", -8>>, <<"ld.d", "$fp", "$sp", -16>>, <<"jr", "$ra">> >>

gen_ret(g, inst) ==
  (CASE g.func.ret = FLOAT_T -> load_to_freg(g, inst.operands[1], "$fa0")
     [] g.func.ret = INT32_T -> load_to_greg(g, inst.operands[1], "$a0")
     [] OTHER -> << <<"addi.w", "$a0", "$zero", 0>> >>)
  \o gen_epilogue(g)

(* A function of type float takes its conditions from $fcc0, any other      *)
(* from the condition's slot.                                               *)
gen_br(g, inst) ==
  LET target(i) == inst.operands[i].val
      jump(op, reg, i) == <<op, reg, g.func.name, target(i)>>
  IN IF Len(inst.operands) = 1 THEN << <<"b", g.func.name, target(1)>> >>
     ELSE load_to_greg(g, inst.operands[1], "$t0")
          \o IF g.func.ret = FLOAT_T
             THEN << jump("bcnez", "$fcc0", 2), jump("bceqz", "$fcc0", 3) >>
             ELSE << jump("bnez", "$t0", 2), jump("beqz", "$t0", 3) >>

IntOps == [op \in {"add", "sub", "mul", "sdiv"} |->
             CASE op = "add" -> "add.w" [] op = "sub" -> "sub.w"
               [] op = "mul" -> "mul.w" [] op = "sdiv" -> "div.w"]

gen_binary(g, inst) ==
  load_to_greg(g, inst.operands[1], "$t0") \o load_to_greg(g, inst.operands[2], "$t1")
  \o << <<IntOps[inst.op], "$t2", "$t0", "$t1">> >>
  \o store_from_greg(g, Result(inst), "$t2")

gen_float_binary(g, inst) ==
  load_to_freg(g, inst.operands[1], "$ft0") \o load_to_freg(g, inst.operands[2], "$ft1")
  \o << <<inst.op \o ".s", "$ft2", "$ft0", "$ft1">> >>
  \o store_from_freg(g, Result(inst), "$ft2")

(* The offset of the contents is written as an immediate of any size.       *)
gen_alloca(g, inst) ==
  << <<"addi.d", "$t0", "$fp", g.offset_map[Slot(Result(inst))] - alloc_size(inst)>> >>
  \o store_from_greg(g, Result(inst), "$t0")

gen_load(g, inst) ==
  load_to_greg(g, inst.operands[1], "$t0")
  \o IF inst.type = FLOAT_T
     THEN << <<"fld.s", "$ft0", "$t0", 0>> >> \o store_from_freg(g, Result(inst), "$ft0")
     ELSE << <<"ld." \o Suffix(inst.type), "$t1", "$t0", 0>> >>
          \o store_from_greg(g, Result(inst), "$t1")

gen_store(g, inst) ==
  LET v == inst.operands[1] IN
  load_to_greg(g, inst.operands[2], "$t0") \o load(g, v, "$t1", "$ft0")
  \o IF IsFloat(v) THEN << <<"fst.s", "$ft0", "$t0", 0>> >>
     ELSE << <<"st." \o Suffix(v.type), "$t1", "$t0", 0>> >>

(* slt is the only comparison of words: the others swap its operands,       *)
(* negate it, or add up both directions.                                    *)
gen_icmp(g, inst) ==
  LET less(r, a, b) == <<"slt", r, a, b>>
      not == <<"xori", "$t2", "$t2", 1>>
      either == << less("$t2", "$t0", "$t1"), less("$t3", "$t1", "$t0"),
                   <<"add.w", "$t2", "$t2", "$t3">> >>
  IN load_to_greg(g, inst.operands[1], "$t0") \o load_to_greg(g, inst.operands[2], "$t1")
     \o (CASE inst.op = "ge" -> << less("$t2", "$t0", "$t1"), not >>
           [] inst.op = "gt" -> << less("$t2", "$t1", "$t0") >>
           [] inst.op = "le" -> << less("$t2", "$t1", "$t0"), not >>
           [] inst.op = "lt" -> << less("$t2", "$t0", "$t1") >>
           [] inst.op = "eq" -> Append(either, not)
           [] inst.op = "ne" -> either)
     \o store_from_greg(g, Result(inst), "$t2")

(* Only the flag is written by the comparison; what is stored as its result *)
(* is what $t0 happens to hold.                                             *)
gen_fcmp(g, inst) ==
  load_to_freg(g, inst.operands[1], "$ft0") \o load_to_freg(g, inst.operands[2], "$ft1")
  \o << CASE inst.op = "fge" -> <<"fcmp.sle.s", "$ft1", "$ft0">>
          [] inst.op = "fgt" -> <<"fcmp.slt.s", "$ft1", "$ft0">>
          [] inst.op = "fle" -> <<"fcmp.sle.s", "$ft0", "$ft1">>
          [] inst.op = "flt" -> <<"fcmp.slt.s", "$ft0", "$ft1">>
          [] inst.op = "feq" -> <<"fcmp.seq.s", "$ft0", "$ft1">>
          [] inst.op = "fne" -> <<"fcmp.sne.s", "$ft0", "$ft1">> >>
  \o store_from_greg(g, Result(inst), "$t0")

(* Only a zext to i32 is ever built.                                        *)
gen_zext(g, inst) ==
  load_to_greg(g, inst.operands[1], "$t0") \o << <<"bstrpick.w", "$t0", "$t0", 0, 0>> >>
  \o store_from_greg(g, Result(inst), "$t0")

(* Faulty: a float result is left in its register.                          *)
store_result_int_only(g, inst) ==
  IF is_integer_type(inst.type) THEN store_from_greg(g, Result(inst), "$a0") ELSE <<>>
(* The result of a call is in the first register of its class.              *)
store_result(g, inst) ==
  CASE inst.type = FLOAT_T -> store_from_freg(g, Result(inst), "$fa0")
    [] is_integer_type(inst.type) -> store_from_greg(g, Result(inst), "$a0")
    [] OTHER -> <<>>

gen_call(g, inst) ==
  LET args == Tail(inst.operands)
      f == inst.operands[1].val
      passed == [i \in DOMAIN args |->
                   load(g, args[i], "$a" \o class_number(args, i), "$fa" \o class_number(args, i))]
  IN FlattenSeq(passed) \o << <<"bl", f, f \in DOMAIN Library>> >> \o store_result(g, inst)

(* Elements of four bytes, counted from the last index.                     *)
gen_gep(g, inst) ==
  load_to_greg(g, inst.operands[1], "$t0") \o load_to_greg(g, Last(inst.operands), "$t2")
  \o << <<"addi.d", "$t1", "$zero", 4>>, <<"mul.d", "$t1", "$t2", "$t1">>,
        <<"add.d", "$t0", "$t0", "$t1">> >>
  \o store_from_greg(g, Result(inst), "$t0")

gen_sitofp(g, inst) ==
  load_to_greg(g, inst.operands[1], "$t0")
  \o << <<"movgr2fr.w", "$ft1", "$t0">>, <<"ffint.s.w", "$ft0", "$ft1">> >>
  \o store_from_freg(g, Result(inst), "$ft0")

gen_fptosi(g, inst) ==
  load_to_freg(g, inst.operands[1], "$ft0")
  \o << <<"ftintrz.w.s", "$ft1", "$ft0">>, <<"movfr2gr.s", "$t0", "$ft1">> >>
  \o store_from_greg(g, Result(inst), "$t0")

(* The globals are laid out before the code.                                *)
gen_globals(globals) ==
  [i \in DOMAIN globals |-> <<".space", globals[i].name, globals[i].size>>]
=============================================================================
