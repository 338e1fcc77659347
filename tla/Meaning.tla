------------------------------ MODULE Meaning -------------------------------
(* What a Cminusf program means, read off its syntax tree production by     *)
(* production: the reference the compiled program is compared with. Scopes  *)
(* map a name to a variable: its type, and the object it stands for. The    *)
(* order in which the sides of an assignment are evaluated is a parameter.  *)
EXTENDS LoongArch, SequencesExt

IntValue(v) == [t |-> "int", v |-> v]
FloatValue(v) == [t |-> "float", v |-> v]
Array(base) == [t |-> "array", v |-> base]

As(type, x) ==
  CASE x.t = type \/ x.t = "array" -> x
    [] type = "int" /\ x.t = "float" -> IntValue(ToInt(x.v))
    [] OTHER -> FloatValue(ToFloat(x.v))

Common(x, y) == IF x.t = y.t THEN x.t ELSE "float"

Operate(op, x, y) ==
  LET type == Common(x, y)
      name == CASE op = "+" -> "add" [] op = "-" -> "sub" [] op = "*" -> "mul" [] op = "/" -> "div"
      a == As(type, x).v
      b == As(type, y).v
  IN IF type = "int" THEN IntValue(Arithmetic(name, a, b)) ELSE FloatValue(Arithmetic("f" \o name, a, b))

Relate(op, x, y) ==
  LET a == As(Common(x, y), x).v
      b == As(Common(x, y), y).v
  IN IntValue(Bit(CASE op = "<" -> a < b [] op = "<=" -> a <= b [] op = ">" -> a > b
               [] op = ">=" -> a >= b [] op = "==" -> a = b [] op = "!=" -> a # b))

(* s is the state of the execution: running, returned from the function, or *)
(* stopped by a negative index.                                             *)
Running(s) == s.status = "running"
Visible(s, id) == {i \in DOMAIN s.env : id \in DOMAIN s.env[i]}
Lookup(s, id) == s.env[CHOOSE i \in Visible(s, id) : \A j \in Visible(s, id) : j <= i][id]

Declare(s, id, type, base) ==
  [s EXCEPT !.env[Len(s.env)] = @ @@ (id :> [type |-> type, base |-> base]),
            !.objects = @ + 1]

At(s, base, i) == IF <<base, i>> \in DOMAIN s.store THEN s.store[<<base, i>>] ELSE 0
Put(s, base, i, v) == [s EXCEPT !.store = (<<base, i>> :> v) @@ @]

List(n) == (* the elements of a left recursive list *)
  LET RECURSIVE items(_)
      items(list) ==
        CASE Len(list.children) = 0 -> <<>>
          [] Len(list.children) = 1 ->
               IF list.children[1].name = "epsilon" THEN <<>> ELSE list.children
          [] OTHER -> Append(items(list.children[1]), list.children[Len(list.children)])
  IN items(n)

RECURSIVE Run(_, _)

(* A variable, or the element its index selects: "base" and "index" of it.  *)
Locate(s, n) ==
  LET id == n.children[1].name
      var == Lookup(s, id)
      indexed == Run(s, n.children[3])
      index == As("int", indexed.val).v
      result == [indexed EXCEPT !.base = var.base, !.index = index, !.type = var.type]
  IN CASE Len(n.children) = 1 ->
            [s EXCEPT !.base = var.base, !.index = 0, !.type = var.type]
       [] Len(n.children) # 1 /\ ~Running(indexed) -> indexed
       [] Len(n.children) # 1 /\ Running(indexed) /\ index < 0 ->
            [indexed EXCEPT !.status = "stopped", !.out = Append(@, <<"neg_idx_except", 0>>)]
       [] OTHER -> result

Fetch(s, n) ==
  LET at == Locate(s, n)
      whole == Len(n.children) = 1 /\ at.type \in {"int array", "float array"}
      v == At(at, at.base, at.index)
  IN IF ~Running(at) THEN at
     ELSE [at EXCEPT !.val = CASE whole -> Array(at.base)
                               [] ~whole /\ at.type \in {"int", "int array"} -> IntValue(v)
                               [] OTHER -> FloatValue(v)]

(* An assignment: one of its sides is evaluated, into a, when its turn      *)
(* comes; at last the value is stored, if nothing has ended the program.    *)
Side(a, n, side) ==
  IF side = "address" THEN LET t == Locate(a.s, n.children[1]) IN [a EXCEPT !.s = t, !.at = t]
                      ELSE LET t == Run(a.s, n.children[3]) IN [a EXCEPT !.s = t, !.value = t.val]

Assigned(a) ==
  LET v == As(IF a.at.type \in {"int", "int array"} THEN "int" ELSE "float", a.value)
  IN IF Running(a.s) THEN [Put(a.s, a.at.base, a.at.index, v.v) EXCEPT !.val = v] ELSE a.s

AssignTo(s, n) ==
  Assigned(FoldLeft(LAMBDA a, side : IF Running(a.s) THEN Side(a, n, side) ELSE a,
                    [s |-> s, at |-> s, value |-> s.val], s.order))

Both(s, n, F(_, _, _)) ==
  LET left == Run(s, n.children[1])
      right == Run(left, n.children[3])
      op == n.children[2].children[1].name
  IN CASE Len(n.children) = 1 -> left
       [] Len(n.children) # 1 /\ ~Running(left) -> left
       [] Len(n.children) # 1 /\ Running(left) /\ ~Running(right) -> right
       [] OTHER -> [right EXCEPT !.val = F(op, left.val, right.val)]

ElementType(n) == n.children[1].children[1].name

(* A call evaluates its arguments from left to right, then runs the body in *)
(* a scope of its own.                                                      *)
Bind(s, params, args) ==
  LET one(d, i) ==
        LET type == ElementType(params[i])
            array == Len(params[i].children) > 2
            v == As(type, args[i])
        IN IF array
           THEN Declare(d, params[i].children[2].name, type \o " array", v.v)
           ELSE Declare(Put(d, d.objects + 1, 0, v.v), params[i].children[2].name,
                        type, d.objects + 1)
  IN FoldLeft(one, s, [i \in DOMAIN params |-> i])

Invoke(s, f, args) ==
  LET params == IF f.children[4].children[1].children = <<>> THEN <<>>
                ELSE List(f.children[4].children[1])
      inside == Bind([s EXCEPT !.env = << s.env[1], <<>> >>], params, args)
      after == Run(inside, f.children[6])
      type == ElementType(f)
      result == CASE type = "void" -> IntValue(0)
                  [] type # "void" /\ after.status = "returned" -> As(type, after.val)
                  [] OTHER -> As(type, IntValue(0))
  IN [after EXCEPT !.env = s.env, !.val = result,
                   !.status = IF @ = "returned" THEN "running" ELSE @]

Apply(s, id, args) ==
  CASE id = "input" -> [s EXCEPT !.val = IntValue(Head(s.inputs)), !.inputs = Tail(@)]
    [] id = "output" -> [s EXCEPT !.out = Append(@, <<id, As("int", args[1]).v>>)]
    [] id = "outputFloat" -> [s EXCEPT !.out = Append(@, <<id, As("float", args[1]).v>>)]
    [] OTHER -> Invoke(s, s.functions[id], args)

CallOf(s, n) ==
  LET one(a, arg) ==
        LET value == Run(a.s, arg)
        IN IF ~Running(a.s) THEN a ELSE [s |-> value, args |-> Append(a.args, value.val)]
      passed == FoldLeft(one, [s |-> s, args |-> <<>>], List(n.children[3].children[1]))
      called == IF n.children[3].children[1].name = "epsilon" THEN [s |-> s, args |-> <<>>]
                ELSE passed
  IN IF Running(called.s) THEN Apply(called.s, n.children[1].name, called.args) ELSE called.s

If(s, n) ==
  LET condition == Run(s, n.children[3])
  IN CASE ~Running(condition) -> condition
       [] Running(condition) /\ condition.val.v # 0 -> Run(condition, n.children[5])
       [] OTHER -> IF Len(n.children) = 7 THEN Run(condition, n.children[7]) ELSE condition

While(s, n) ==
  LET condition == Run(s, n.children[3])
      body == Run(condition, n.children[5])
  IN IF Running(condition) /\ condition.val.v # 0
     THEN (IF Running(body) THEN Run(body, n) ELSE body)
     ELSE condition

Return(s, n) ==
  LET value == Run(s, n.children[2])
  IN CASE Len(n.children) = 2 -> [s EXCEPT !.status = "returned"]
       [] Len(n.children) # 2 /\ Running(value) -> [value EXCEPT !.status = "returned"]
       [] OTHER -> value

Local(s, n) ==
  LET array == Len(n.children) = 6
  IN Declare(s, n.children[2].name,
             IF array THEN ElementType(n) \o " array" ELSE ElementType(n), s.objects + 1)

Block(s, n) ==
  LET inside == FoldLeft(Run, [s EXCEPT !.env = Append(@, <<>>)], List(n.children[2]))
      after == FoldLeft(Run, inside, List(n.children[3]))
  IN [after EXCEPT !.env = s.env]

Run(s, n) ==
  CASE ~Running(s) -> s
    [] Running(s) /\ n.name \in {"integer", "float"} ->
         [s EXCEPT !.val = IF n.name = "integer" THEN IntValue(n.children[1].name)
                                                 ELSE FloatValue(n.children[1].name)]
    [] Running(s) /\ n.name = "factor" ->
         Run(s, n.children[IF Len(n.children) = 3 THEN 2 ELSE 1])
    [] Running(s) /\ n.name \in {"term", "additive-expression"} -> Both(s, n, Operate)
    [] Running(s) /\ n.name = "simple-expression" -> Both(s, n, Relate)
    [] Running(s) /\ n.name = "expression" /\ Len(n.children) = 3 -> AssignTo(s, n)
    [] Running(s) /\ n.name = "expression" /\ Len(n.children) = 1 -> Run(s, n.children[1])
    [] Running(s) /\ n.name = "var" -> Fetch(s, n)
    [] Running(s) /\ n.name = "call" -> CallOf(s, n)
    [] Running(s) /\ n.name = "statement" -> Run(s, n.children[1])
    [] Running(s) /\ n.name = "expression-stmt" ->
         IF Len(n.children) = 2 THEN Run(s, n.children[1]) ELSE s
    [] Running(s) /\ n.name = "compound-stmt" -> Block(s, n)
    [] Running(s) /\ n.name = "selection-stmt" -> If(s, n)
    [] Running(s) /\ n.name = "iteration-stmt" -> While(s, n)
    [] Running(s) /\ n.name = "return-stmt" -> Return(s, n)
    [] Running(s) /\ n.name = "var-declaration" -> Local(s, n)

(* The language finds the address first, the index evaluated for it, and    *)
(* then evaluates the right side (cminusf_builder.cpp:392-394).             *)
AddressFirst == <<"address", "value">>
ValueFirst   == <<"value", "address">>

(* A program declares its globals, which start as zero, and runs main.      *)
Declarations(program) == [i \in DOMAIN List(program.children[1]) |->
                            List(program.children[1])[i].children[1]]
Functions(program) ==
  LET decls == Declarations(program)
      named(i, id) == decls[i].name = "fun-declaration" /\ decls[i].children[2].name = id
      ids == {decls[i].children[2].name :
                i \in {j \in DOMAIN decls : decls[j].name = "fun-declaration"}}
  IN [id \in ids |-> decls[CHOOSE i \in DOMAIN decls : named(i, id)]]

Behaviour(program, inputs, order) ==
  LET vars == SelectSeq(Declarations(program), LAMBDA d : d.name = "var-declaration")
      start == [env |-> << <<>> >>, objects |-> 0, store |-> <<>>, inputs |-> inputs,
                order |-> order, out |-> <<>>, status |-> "running", val |-> IntValue(0), base |-> 0, index |-> 0,
                type |-> "int", functions |-> Functions(program)]
      end == Invoke(FoldLeft(Local, start, vars), Functions(program)["main"], <<>>)
  IN IF Running(end) THEN Append(end.out, <<"exit", end.val.v>>) ELSE end.out
=============================================================================
