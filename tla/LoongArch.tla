----------------------------- MODULE LoongArch ------------------------------
(* The machine the emitted instructions run on, with scaled widths: an      *)
(* immediate has Imm bits (12 on the machine), a word has Imm + High bits   *)
(* (12 + 20), a double word twice as many. A float is its word: a multiple  *)
(* of a quarter. Not code of the repository; modelled from the instructions *)
(* CodeGen emits and from src/io/io.c.                                      *)
EXTENDS Integers, Sequences, TLC
CONSTANTS Imm, High

WidthAssumption == Imm \in Nat \ {0} /\ High \in Nat \ {0}
ASSUME WidthAssumption

Word == Imm + High
Double == 2 * Word

(* The low bits of a number, as a signed number.                            *)
Signed(v, bits) == ((v + 2 ^ (bits - 1)) % 2 ^ bits) - 2 ^ (bits - 1)
Unsigned(v, bits) == v % 2 ^ bits
IsSigned(v, bits) == v = Signed(v, bits)

Truncate(a, b) ==
  LET quotient == (IF a < 0 THEN -a ELSE a) \div (IF b < 0 THEN -b ELSE b)
  IN IF (a < 0) = (b < 0) THEN quotient ELSE -quotient

Bit(condition) == IF condition THEN 1 ELSE 0

(* Arithmetic on words and on floats; dividing by zero gives some value.    *)
Arithmetic(op, a, b) ==
  CASE op = "add" -> Signed(a + b, Word)
    [] op = "sub" -> Signed(a - b, Word)
    [] op = "mul" -> Signed(a * b, Word)
    [] op = "div" -> IF b = 0 THEN 0 ELSE Signed(Truncate(a, b), Word)
    [] op = "fadd" -> Signed(a + b, Word)
    [] op = "fsub" -> Signed(a - b, Word)
    [] op = "fmul" -> Signed(Truncate(a * b, 4), Word)
    [] op = "fdiv" -> IF b = 0 THEN 0 ELSE Signed(Truncate(4 * a, b), Word)

ToFloat(v) == Signed(4 * v, Word)
ToInt(f) == Truncate(f, 4)

Compares(op, a, b) ==
  CASE op = "lt" -> a < b [] op = "le" -> a <= b [] op = "eq" -> a = b [] op = "ne" -> a # b

(* A computation writes its first operand from the registers and immediate  *)
(* numbers that follow.  The low bits of the register of an ori are clear.  *)
Computes ==
  {"addi.w", "addi.d", "add.w", "sub.w", "mul.w", "div.w", "add.d", "sub.d",
   "mul.d", "slt", "xori", "ori", "lu12i.w", "lu32i.d", "lu52i.d",
   "bstrpick.w", "movgr2fr.w", "movfr2gr.s", "ffint.s.w", "ftintrz.w.s",
   "fadd.s", "fsub.s", "fmul.s", "fdiv.s"}

Computed(a, x) ==
  LET op == a[1] IN
  CASE op = "addi.w" -> Signed(x[a[3]] + a[4], Word)
    [] op = "addi.d" -> Signed(x[a[3]] + a[4], Double)
    [] op = "add.w" -> Arithmetic("add", x[a[3]], x[a[4]])
    [] op = "sub.w" -> Arithmetic("sub", x[a[3]], x[a[4]])
    [] op = "mul.w" -> Arithmetic("mul", x[a[3]], x[a[4]])
    [] op = "div.w" -> Arithmetic("div", x[a[3]], x[a[4]])
    [] op = "add.d" -> Signed(x[a[3]] + x[a[4]], Double)
    [] op = "sub.d" -> Signed(x[a[3]] - x[a[4]], Double)
    [] op = "mul.d" -> Signed(x[a[3]] * x[a[4]], Double)
    [] op = "slt" -> Bit(x[a[3]] < x[a[4]])
    [] op = "xori" -> IF x[a[3]] % 2 = 0 THEN x[a[3]] + 1 ELSE x[a[3]] - 1
    [] op = "ori" -> x[a[3]] + a[4]
    [] op = "lu12i.w" -> Signed(a[3] * 2 ^ Imm, Word)
    [] op = "lu32i.d" -> a[3] * 2 ^ Word + Unsigned(x[a[2]], Word)
    [] op = "lu52i.d" -> Signed(a[4] * 2 ^ (Word + High)
                                + Unsigned(x[a[3]], Word + High), Double)
    [] op = "bstrpick.w" -> x[a[3]] % 2
    [] op \in {"movgr2fr.w", "movfr2gr.s"} -> Signed(x[a[3]], Word)
    [] op = "ffint.s.w" -> ToFloat(x[a[3]])
    [] op = "ftintrz.w.s" -> ToInt(x[a[3]])
    [] op = "fadd.s" -> Arithmetic("fadd", x[a[3]], x[a[4]])
    [] op = "fsub.s" -> Arithmetic("fsub", x[a[3]], x[a[4]])
    [] op = "fmul.s" -> Arithmetic("fmul", x[a[3]], x[a[4]])
    [] op = "fdiv.s" -> Arithmetic("fdiv", x[a[3]], x[a[4]])

(* The immediate number of an instruction has to fit its field.             *)
Assembles(a) ==
  CASE a[1] \in {"addi.w", "addi.d"} -> IsSigned(a[4], Imm)
    [] a[1] \in {"ld.b", "ld.w", "ld.d", "st.b", "st.w", "st.d", "fld.s", "fst.s"} ->
         IsSigned(a[4], Imm)
    [] a[1] = "ori" -> a[4] = Unsigned(a[4], Imm)
    [] a[1] \in {"lu12i.w", "lu32i.d"} -> IsSigned(a[3], High)
    [] a[1] = "lu52i.d" -> IsSigned(a[4], Imm)
    [] OTHER -> TRUE

Registers ==
  {"$zero", "$ra", "$sp", "$fp"} \cup {"$a" \o ToString(i) : i \in 0..7}
  \cup {"$t0", "$t1", "$t2", "$t3", "$t8"} \cup {"$fcc0"}
  \cup {"$fa" \o ToString(i) : i \in 0..7} \cup {"$ft0", "$ft1", "$ft2"}
Temporaries == Registers \ {"$zero", "$ra", "$sp", "$fp"}

(* What memory and temporaries hold before anything is written to them.     *)
Junk == 5

Label(output, name, bb) ==
  CHOOSE i \in DOMAIN output :
    output[i][1] = "label" /\ output[i][2] = name /\ output[i][3] = bb
Static(output) == {i \in DOMAIN output : output[i][1] = ".space"}
RECURSIVE AddressOf(_, _)
AddressOf(output, i) ==
  IF i = 1 THEN 0
  ELSE AddressOf(output, i - 1) + (IF output[i - 1][1] = ".space" THEN output[i - 1][3] ELSE 0)
SymbolAddress(output, name) ==
  AddressOf(output, CHOOSE i \in Static(output) : output[i][2] = name)

Read(mem, address) == IF address \in DOMAIN mem THEN mem[address] ELSE Junk
Write(mem, address, v) == [i \in DOMAIN mem \cup {address} |-> IF i = address THEN v ELSE mem[i]]

Loads == [op \in {"ld.b", "ld.w", "ld.d", "fld.s"} |->
            CASE op = "ld.b" -> Imm [] op = "ld.d" -> Double [] OTHER -> Word]
Stores == [op \in {"st.b", "st.w", "st.d", "fst.s"} |->
             CASE op = "st.b" -> Imm [] op = "st.d" -> Double [] OTHER -> Word]
FloatCompares ==
  [op \in {"fcmp.slt.s", "fcmp.sle.s", "fcmp.seq.s", "fcmp.sne.s"} |->
     CASE op = "fcmp.slt.s" -> "lt" [] op = "fcmp.sle.s" -> "le"
       [] op = "fcmp.seq.s" -> "eq" [] op = "fcmp.sne.s" -> "ne"]

(* A library call leaves nothing in the temporaries but its result.         *)
LibraryCall(m, name) ==
  LET after == [r \in Registers |-> IF r \in Temporaries THEN Junk ELSE m.x[r]]
  IN CASE name = "input" ->
            [m EXCEPT !.x = [after EXCEPT !["$a0"] = Head(m.inputs)],
                      !.inputs = Tail(@), !.pc = @ + 1]
       [] name = "output" ->
            [m EXCEPT !.x = after, !.out = Append(@, <<"output", m.x["$a0"]>>), !.pc = @ + 1]
       [] name = "outputFloat" ->
            [m EXCEPT !.x = after, !.out = Append(@, <<"outputFloat", m.x["$fa0"]>>), !.pc = @ + 1]
       [] name = "neg_idx_except" ->
            [m EXCEPT !.out = Append(@, <<"neg_idx_except", 0>>), !.pc = 0]

(* One instruction of the program, on the machine m.                        *)
Jumps(m, taken, output, a) ==
  [m EXCEPT !.pc = IF taken THEN Label(output, a[3], a[4]) ELSE @ + 1]

Step(m, output) ==
  LET a == output[m.pc]
      op == a[1]
      x == m.x
      set(r, v) == [m EXCEPT !.x[r] = v, !.pc = @ + 1]
  IN CASE op \in Computes -> set(a[2], Computed(a, x))
       [] op \in DOMAIN Loads ->
            set(a[2], Signed(Read(m.mem, x[a[3]] + a[4]), Loads[op]))
       [] op \in DOMAIN Stores ->
            [m EXCEPT !.mem = Write(@, x[a[3]] + a[4], Signed(x[a[2]], Stores[op])),
                      !.pc = @ + 1]
       [] op = "la.local" -> set(a[2], SymbolAddress(output, a[3]))
       [] op \in DOMAIN FloatCompares ->
            set("$fcc0", Bit(Compares(FloatCompares[op], x[a[2]], x[a[3]])))
       [] op \in {"bnez", "bcnez"} -> Jumps(m, x[a[2]] # 0, output, a)
       [] op \in {"beqz", "bceqz"} -> Jumps(m, x[a[2]] = 0, output, a)
       [] op = "b" -> [m EXCEPT !.pc = Label(output, a[2], a[3])]
       [] op = "jr" -> [m EXCEPT !.pc = x["$ra"]]
       [] op = "bl" /\ a[3] -> LibraryCall(m, a[2])
       [] op = "bl" /\ ~a[3] ->
            [m EXCEPT !.x["$ra"] = m.pc + 1, !.pc = Label(output, a[2], 0)]
       [] OTHER -> [m EXCEPT !.pc = @ + 1]

(* The program starts in main with a return address that ends it, its       *)
(* globals zero.                                                            *)
Started(output, inputs, flag) ==
  [pc |-> Label(output, "main", 0),
   x |-> [r \in Registers |-> CASE r \in {"$zero", "$ra", "$sp", "$fp"} -> 0
                                [] r = "$fcc0" -> flag
                                [] OTHER -> Junk],
   mem |-> [i \in {4 * k : k \in 0..(AddressOf(output, Len(output)) \div 4 - 1)} |-> 0],
   inputs |-> inputs, out |-> <<>>]
=============================================================================
