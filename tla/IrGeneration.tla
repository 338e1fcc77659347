---------------------------- MODULE IrGeneration ----------------------------
(* CminusfBuilder's visitors over the whole AST, on values: a visit is an   *)
(* operator from the context before it to the context after it. The context *)
(* holds the code built so far, the insert block, the scopes and the two    *)
(* fields the visitors talk through, global_val and require_lvalue; "new"   *)
(* is what the last create_ function returned, and ok says that no          *)
(* assertion of the IR classes has failed.                                  *)
EXTENDS SyntaxTree

(* A type is a sequence read from the outside in; the length of an array    *)
(* is kept with the alloca or the global that has the type.                 *)
INT1_T == <<"i1">>
INT32_T == <<"i32">>
FLOAT_T == <<"float">>
VOID_T == <<"void">>
PointerTo(type) == <<"pointer">> \o type
ArrayOf(type) == <<"array">> \o type
is_pointer_type(type) == type # <<>> /\ Head(type) = "pointer"
is_array_type(type) == type # <<>> /\ Head(type) = "array"
is_integer_type(type) == type \in {INT1_T, INT32_T}
get_pointer_element_type(type) == Tail(type)
TypeOf(name) ==
  CASE name = "int" -> INT32_T [] name = "float" -> FLOAT_T [] name = "void" -> VOID_T

get_size(type) ==
  CASE type = INT1_T -> 1 [] is_pointer_type(type) -> 8 [] OTHER -> 4

Value(kind, type, val) == [kind |-> kind, type |-> type, val |-> val]
CONST_INT(v) == Value("int", INT32_T, v)
CONST_FP(v) == Value("float", FLOAT_T, v)
BlockValue(b) == Value("bb", <<"label">>, b)
FunctionValue(f) == Value("function", <<"function">>, f)

(* The functions of the run-time library, declared before the program.      *)
Library ==
  [f \in {"input", "output", "outputFloat", "neg_idx_except"} |->
     [ret |-> IF f = "input" THEN INT32_T ELSE VOID_T,
      params |-> CASE f = "output" -> <<INT32_T>>
                   [] f = "outputFloat" -> <<FLOAT_T>>
                   [] OTHER -> <<>>]]

is_terminated(c) ==
  c.bbs[c.bb] # <<>> /\ Last(c.bbs[c.bb]).op \in {"ret", "br"}

create(c, op, type, operands, valid) ==
  [c EXCEPT !.bbs[c.bb] = Append(@, [id |-> c.next, op |-> op, type |-> type,
                                     operands |-> operands]),
            !.next = @ + 1,
            !.new = Value("inst", type, c.next),
            !.ok = @ /\ valid /\ ~is_terminated(c)]

(* The constructors of the instruction classes with what they assert.       *)
create_ibinary(c, op, l, r) ==
  create(c, op, INT32_T, <<l, r>>, l.type = INT32_T /\ r.type = INT32_T)
create_fbinary(c, op, l, r) ==
  create(c, op, FLOAT_T, <<l, r>>, l.type = FLOAT_T /\ r.type = FLOAT_T)
create_icmp(c, op, l, r) ==
  create(c, op, INT1_T, <<l, r>>, l.type = INT32_T /\ r.type = INT32_T)
create_fcmp(c, op, l, r) ==
  create(c, op, INT1_T, <<l, r>>, l.type = FLOAT_T /\ r.type = FLOAT_T)
create_call(c, f, args) ==
  create(c, "call", c.functions[f].ret, <<FunctionValue(f)>> \o args,
         c.functions[f].params = [i \in DOMAIN args |-> args[i].type])
create_br(c, b) == create(c, "br", VOID_T, <<BlockValue(b)>>, TRUE)
create_cond_br(c, cond, t, f) ==
  create(c, "br", VOID_T, <<cond, BlockValue(t), BlockValue(f)>>,
         cond.type = INT1_T)
create_ret(c, v) ==
  create(c, "ret", VOID_T, <<v>>, c.functions[c.func].ret = v.type)
create_void_ret(c) ==
  create(c, "ret", VOID_T, <<>>, c.functions[c.func].ret = VOID_T)
create_gep(c, ptr, idxs) ==
  LET element == get_pointer_element_type(ptr.type)
      type == IF is_array_type(element) /\ Len(idxs) > 1 THEN Tail(element) ELSE element
  IN create(c, "getelementptr", PointerTo(type), <<ptr>> \o idxs,
            /\ is_pointer_type(ptr.type) /\ ~is_pointer_type(element)
            /\ \A i \in DOMAIN idxs : is_integer_type(idxs[i].type))
create_store(c, v, ptr) ==
  create(c, "store", VOID_T, <<v, ptr>>, PointerTo(v.type) = ptr.type)
create_load(c, ptr) ==
  LET type == get_pointer_element_type(ptr.type)
  IN create(c, "load", type, <<ptr>>,
            is_pointer_type(ptr.type) /\ ~is_array_type(type))
create_alloca(c, type, length) ==
  create(c, "alloca", PointerTo(type), <<CONST_INT(length)>>, TRUE)
create_zext(c, v) == create(c, "zext", INT32_T, <<v>>, v.type = INT1_T)
create_fptosi(c, v) == create(c, "fptosi", INT32_T, <<v>>, v.type = FLOAT_T)
create_sitofp(c, v) == create(c, "sitofp", FLOAT_T, <<v>>, is_integer_type(v.type))

(* Scopes: the innermost declaration of a name is found, and a second one   *)
(* in the same scope is not inserted.                                       *)
enter(c) == [c EXCEPT !.scope = Append(@, <<>>)]
exit(c) == [c EXCEPT !.scope = Front(@)]
in_global(c) == Len(c.scope) = 1
push(c, id, value) ==
  [c EXCEPT !.scope[Len(c.scope)] = @ @@ (id :> value)]
Declaring(c, id) == {i \in DOMAIN c.scope : id \in DOMAIN c.scope[i]}
find(c, id) == c.scope[Max(Declaring(c, id))][id]

set_insert_point(c, b) == [c EXCEPT !.bb = b]
new_block(c) == [c EXCEPT !.bbs = Append(@, <<>>)]
last_block(c) == Len(c.bbs)
fall_through(c, b) == IF is_terminated(c) THEN c ELSE create_br(c, b)

RECURSIVE visit(_, _)

visit_Num(c, n) ==
  [c EXCEPT !.val = IF n.type = "int" THEN CONST_INT(n.val) ELSE CONST_FP(n.val)]

visit_VarDeclaration(c, n) ==
  LET elem == TypeOf(n.type)
      type == IF n.num = <<>> THEN elem ELSE ArrayOf(elem)
      length == IF n.num = <<>> THEN 1 ELSE n.num[1]
      local == create_alloca(c, type, length)
  IN IF in_global(c)
     THEN [push(c, n.id, Value("global", PointerTo(type), n.id))
             EXCEPT !.globals = Append(@, [name |-> n.id, size |-> 4 * length])]
     ELSE push(local, n.id, local.new)

(* A parameter is copied into an alloca of its own.                         *)
param_type(p) == IF p.isarray THEN PointerTo(TypeOf(p.type)) ELSE TypeOf(p.type)
spill_param(c, p) ==
  LET type == param_type(p)
      a == create_alloca(c, type, 1)
      arg == Value("arg", type, a.args + 1)
  IN [push(create_store(a, arg, a.new), p.id, a.new) EXCEPT !.args = @ + 1]

(* The default value of a function that ends without a return statement,    *)
(* and what follows a call of neg_idx_except.                               *)
default_ret(c) ==
  LET type == c.functions[c.func].ret
  IN CASE type = VOID_T -> create_void_ret(c)
       [] type = FLOAT_T -> create_ret(c, CONST_FP(0))
       [] OTHER -> create_ret(c, CONST_INT(0))

visit_FunDeclaration(c, n) ==
  LET signature == [ret |-> TypeOf(n.type),
                    params |-> [i \in DOMAIN n.params |-> param_type(n.params[i])]]
      start == enter([push(c, n.id, FunctionValue(n.id))
                        EXCEPT !.functions = @ @@ (n.id :> signature),
                               !.func = n.id, !.bbs = << <<>> >>, !.bb = 1, !.args = 0])
      body == visit(FoldLeft(spill_param, start, n.params), n.compound_stmt)
      ended == IF is_terminated(body) THEN body ELSE default_ret(body)
  IN exit([ended EXCEPT !.code = Append(@, [name |-> n.id, bbs |-> ended.bbs] @@ signature)])

(* The statements after a terminated one are skipped.                       *)
visit_CompoundStmt(c, n) ==
  exit(FoldLeft(LAMBDA d, s : IF is_terminated(d) THEN d ELSE visit(d, s),
                FoldLeft(visit, enter(c), n.local_declarations),
                n.statement_list))

visit_ExpressionStmt(c, n) == FoldLeft(visit, c, n.expression)

not_zero(c) ==
  IF is_integer_type(c.val.type)
  THEN create_icmp(c, "ne", c.val, CONST_INT(0))
  ELSE create_fcmp(c, "fne", c.val, CONST_FP(0))

visit_SelectionStmt(c, n) ==
  LET value == visit(c, n.expression)
      trueBB == last_block(value) + 1
      falseBB == trueBB + 1
      contBB == trueBB + 1 + Len(n.else_statement)
      blocks == [value EXCEPT !.bbs = @ \o [i \in 1..(contBB - trueBB + 1) |-> <<>>]]
      cond == not_zero(blocks)
      branch == create_cond_br(cond, cond.new, trueBB, falseBB)
      then == fall_through(visit(set_insert_point(branch, trueBB), n.if_statement), contBB)
      else == IF n.else_statement = <<>> THEN then
              ELSE fall_through(visit(set_insert_point(then, falseBB),
                                      n.else_statement[1]), contBB)
  IN set_insert_point(else, contBB)

visit_IterationStmt(c, n) ==
  LET exprBB == last_block(c) + 1
      value == visit(set_insert_point(fall_through(new_block(c), exprBB), exprBB),
                     n.expression)
      trueBB == last_block(value) + 1
      contBB == trueBB + 1
      cond == not_zero(new_block(new_block(value)))
      branch == create_cond_br(cond, cond.new, trueBB, contBB)
      body == visit(set_insert_point(branch, trueBB), n.statement)
  IN set_insert_point(fall_through(body, exprBB), contBB)

(* A conversion of the value to the type wanted of it.                      *)
convert(c, type) ==
  IF is_integer_type(type) THEN create_fptosi(c, c.val) ELSE create_sitofp(c, c.val)

visit_ReturnStmt(c, n) ==
  LET type == c.functions[c.func].ret
      value == visit(c, n.expression[1])
      as_type == convert(value, type)
      converted == IF value.val.type = type THEN value
                   ELSE [as_type EXCEPT !.val = as_type.new]
  IN IF n.expression = <<>> THEN create_void_ret(c)
     ELSE create_ret(converted, converted.val)

(* The right operand is evaluated while the left one is held in a local of  *)
(* the visitor; the integer one of two different types becomes a float.     *)
check_type(c, l, r) ==
  LET left == create_sitofp(c, l)
      right == create_sitofp(c, r)
  IN CASE l.type = r.type -> [c |-> c, l |-> l, r |-> r, is_int |-> is_integer_type(l.type)]
       [] l.type # r.type /\ is_integer_type(l.type) ->
            [c |-> left, l |-> left.new, r |-> r, is_int |-> FALSE]
       [] OTHER -> [c |-> right, l |-> l, r |-> right.new, is_int |-> FALSE]

Opcodes ==
  [op \in {"+", "-", "*", "/", "<", "<=", ">", ">=", "==", "!="} |->
     CASE op = "+" -> <<"add", "fadd">> [] op = "-" -> <<"sub", "fsub">>
       [] op = "*" -> <<"mul", "fmul">> [] op = "/" -> <<"sdiv", "fdiv">>
       [] op = "<" -> <<"lt", "flt">>   [] op = "<=" -> <<"le", "fle">>
       [] op = ">" -> <<"gt", "fgt">>   [] op = ">=" -> <<"ge", "fge">>
       [] op = "==" -> <<"eq", "feq">>  [] op = "!=" -> <<"ne", "fne">>]

operands(c, l, r) ==
  LET left == visit(c, l)
      right == visit(left, r)
  IN check_type(right, left.val, right.val)

visit_SimpleExpression(c, n) ==
  LET t == operands(c, n.l, n.r[1])
      cmp == IF t.is_int THEN create_icmp(t.c, Opcodes[n.op][1], t.l, t.r)
                         ELSE create_fcmp(t.c, Opcodes[n.op][2], t.l, t.r)
      int == create_zext(cmp, cmp.new)
  IN IF n.r = <<>> THEN visit(c, n.l) ELSE [int EXCEPT !.val = int.new]

visit_Binary(c, n) ==
  LET t == operands(c, n.l[1], n.r)
      result == IF t.is_int THEN create_ibinary(t.c, Opcodes[n.op][1], t.l, t.r)
                            ELSE create_fbinary(t.c, Opcodes[n.op][2], t.l, t.r)
  IN IF n.l = <<>> THEN visit(c, n.r) ELSE [result EXCEPT !.val = result.new]

(* Faulty: an index of zero is taken for a negative one.                    *)
checked_index_zero(c) ==
  LET exceptBB == last_block(c) + 1
      contBB == last_block(c) + 2
      blocks == new_block(new_block(c))
      whole == IF c.val.type = FLOAT_T THEN create_fptosi(blocks, c.val) ELSE blocks
      index == IF c.val.type = FLOAT_T THEN whole.new ELSE c.val
      is_neg == create_icmp(whole, "le", index, CONST_INT(0))
      branch == create_cond_br(is_neg, is_neg.new, exceptBB, contBB)
      except == default_ret(create_call(set_insert_point(branch, exceptBB),
                                        "neg_idx_except", <<>>))
  IN [set_insert_point(except, contBB) EXCEPT !.val = index]

(* What visit(ASTVar) does with the index: check it, then step over it.     *)
checked_index(c) ==
  LET exceptBB == last_block(c) + 1
      contBB == last_block(c) + 2
      blocks == new_block(new_block(c))
      whole == IF c.val.type = FLOAT_T THEN create_fptosi(blocks, c.val) ELSE blocks
      index == IF c.val.type = FLOAT_T THEN whole.new ELSE c.val
      is_neg == create_icmp(whole, "lt", index, CONST_INT(0))
      branch == create_cond_br(is_neg, is_neg.new, exceptBB, contBB)
      except == default_ret(create_call(set_insert_point(branch, exceptBB),
                                        "neg_idx_except", <<>>))
  IN [set_insert_point(except, contBB) EXCEPT !.val = index]

element_pointer(c, var) ==
  LET elem == get_pointer_element_type(var.type)
      array == create_load(c, var)
  IN CASE elem \in {INT32_T, FLOAT_T} -> create_gep(c, var, <<c.val>>)
       [] is_pointer_type(elem) -> create_gep(array, array.new, <<c.val>>)
       [] OTHER -> create_gep(c, var, <<CONST_INT(0), c.val>>)

(* Faulty: require_lvalue still stands when the index is visited.           *)
visit_Var_leaking(c, n) ==
  LET var == find(c, n.id)
      lvalue == c.require_lvalue
      elem == get_pointer_element_type(var.type)
      read == IF is_array_type(elem) THEN create_gep(c, var, <<CONST_INT(0), CONST_INT(0)>>)
              ELSE create_load(c, var)
      pointer == element_pointer(checked_index(visit(c, n.expression[1])), var)
      element == create_load(pointer, pointer.new)
      result == CASE n.expression = <<>> /\ lvalue -> [c EXCEPT !.new = var]
                  [] n.expression = <<>> /\ ~lvalue -> read
                  [] n.expression # <<>> /\ lvalue -> pointer
                  [] OTHER -> element
  IN [result EXCEPT !.val = result.new, !.require_lvalue = FALSE]

(* require_lvalue is taken down before the index is visited.                *)
visit_Var(c, n) ==
  LET var == find(c, n.id)
      lvalue == c.require_lvalue
      d == [c EXCEPT !.require_lvalue = FALSE]
      elem == get_pointer_element_type(var.type)
      read == IF is_array_type(elem) THEN create_gep(d, var, <<CONST_INT(0), CONST_INT(0)>>)
              ELSE create_load(d, var)
      pointer == element_pointer(checked_index(visit(d, n.expression[1])), var)
      element == create_load(pointer, pointer.new)
      result == CASE n.expression = <<>> /\ lvalue -> [d EXCEPT !.new = var]
                  [] n.expression = <<>> /\ ~lvalue -> read
                  [] n.expression # <<>> /\ lvalue -> pointer
                  [] OTHER -> element
  IN [result EXCEPT !.val = result.new]

(* The right side is visited before the variable it is assigned to.         *)
visit_AssignExpression(c, n) ==
  LET right == visit(c, n.expression)
      address == visit([right EXCEPT !.require_lvalue = TRUE], n.var)
      type == get_pointer_element_type(address.val.type)
      value == [address EXCEPT !.val = right.val]
      as_type == IF right.val.type = INT32_T THEN create_sitofp(value, right.val)
                 ELSE create_fptosi(value, right.val)
      converted == IF right.val.type = type THEN value
                   ELSE [as_type EXCEPT !.val = as_type.new]
  IN create_store(converted, converted.val, address.val)

visit_Call(c, n) ==
  LET params == c.functions[n.id].params
      pass(a, arg) ==
        LET value == visit(a.c, arg)
            as_type == IF is_integer_type(value.val.type) THEN create_sitofp(value, value.val)
                       ELSE create_fptosi(value, value.val)
            converted == IF \/ is_pointer_type(value.val.type)
                            \/ params[Len(a.args) + 1] = value.val.type
                         THEN value ELSE [as_type EXCEPT !.val = as_type.new]
        IN [c |-> converted, args |-> Append(a.args, converted.val)]
      passed == FoldLeft(pass, [c |-> c, args |-> <<>>], n.args)
      call == create_call(passed.c, n.id, passed.args)
  IN [call EXCEPT !.val = call.new]

visit(c, n) ==
  CASE n.k = "Program" -> FoldLeft(visit, c, n.declarations)
    [] n.k = "Num" -> visit_Num(c, n)
    [] n.k = "VarDeclaration" -> visit_VarDeclaration(c, n)
    [] n.k = "FunDeclaration" -> visit_FunDeclaration(c, n)
    [] n.k = "CompoundStmt" -> visit_CompoundStmt(c, n)
    [] n.k = "ExpressionStmt" -> visit_ExpressionStmt(c, n)
    [] n.k = "SelectionStmt" -> visit_SelectionStmt(c, n)
    [] n.k = "IterationStmt" -> visit_IterationStmt(c, n)
    [] n.k = "ReturnStmt" -> visit_ReturnStmt(c, n)
    [] n.k = "AssignExpression" -> visit_AssignExpression(c, n)
    [] n.k = "SimpleExpression" -> visit_SimpleExpression(c, n)
    [] n.k \in {"AdditiveExpression", "Term"} -> visit_Binary(c, n)
    [] n.k = "Var" -> visit_Var(c, n)
    [] n.k = "Call" -> visit_Call(c, n)

(* The context of a fresh builder and the module it builds of a program.    *)
NoValue == Value("none", VOID_T, 0)
Fresh ==
  [code |-> <<>>, globals |-> <<>>, functions |-> Library, func |-> "none",
   bbs |-> << <<>> >>, bb |-> 1, args |-> 0, next |-> 1, new |-> NoValue, val |-> NoValue,
   require_lvalue |-> FALSE, ok |-> TRUE,
   scope |-> << [f \in DOMAIN Library |-> FunctionValue(f)] >>]

Build(ast) ==
  LET c == visit(Fresh, ast)
  IN [ok |-> c.ok, globals |-> c.globals, code |-> c.code, functions |-> c.functions]
=============================================================================
