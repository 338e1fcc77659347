---------------------------- MODULE UseDefProofs ----------------------------
(***************************************************************************)
(* The use lists are exact, for every set of values and every arity.       *)
(***************************************************************************)
EXTENDS UseDef, TLAPS

(* What the rest of the proof needs to know of a running replace loop:      *)
(* it never replaces a value by itself, a block only ever by null, and a    *)
(* destructor has dropped its own operands before it starts.                *)
CallOK ==
    /\ call.this \in alive \cup {NoValue}
    /\ call.new_val \in alive \cup {NoValue}
    /\ call.this # NoValue => call.new_val # call.this
    /\ ~call.dtor => call.this \notin Blocks /\ call.new_val \notin Blocks
    /\ call.dtor => call.this \in Values /\ call.new_val = NoValue
    /\ call.dtor /\ call.this \in Users => operands[call.this] = <<>>

IInv == TypeOK /\ PhiShape /\ UseListExact /\ NoDangling /\ CallOK

-----------------------------------------------------------------------------
(* Erasing an element of a vector leaves a vector one shorter. *)
LEMMA EraseType ==
    ASSUME NEW S, NEW ops \in Seq(S), NEW idx \in DOMAIN ops
    PROVE  /\ erase(ops, idx) \in Seq(S)
           /\ Len(erase(ops, idx)) = Len(ops) - 1
           /\ DOMAIN erase(ops, idx) = 1 .. Len(ops) - 1
           /\ \A i \in 1 .. Len(ops) - 1 :
                erase(ops, idx)[i] = IF i < idx THEN ops[i] ELSE ops[i + 1]
  <1>1. Len(ops) \in Nat /\ DOMAIN ops = 1 .. Len(ops)
    OBVIOUS
  <1>2. \A i \in 1 .. Len(ops) - 1 : (IF i < idx THEN ops[i] ELSE ops[i + 1]) \in S
    BY <1>1
  <1>3. Len(ops) - 1 \in Nat
    BY <1>1
  <1>4. erase(ops, idx) \in [1 .. Len(ops) - 1 -> S]
    BY <1>2 DEF erase
  <1>5. erase(ops, idx) \in Seq(S)
    BY <1>3, <1>4
  <1>6. Len(erase(ops, idx)) = Len(ops) - 1
    BY <1>3, <1>4, <1>5
  <1>. QED
    BY <1>4, <1>5, <1>6 DEF erase

(* The four ways the use lists are edited keep them use lists. *)
LEMMA EditType ==
    ASSUME UseDefAssumption,
           NEW ul \in [Values -> [Uses -> Nat]],
           NEW u \in Users, NEW i \in ArgNo
    PROVE  /\ \A v \in Values : add_use(ul, v, u, i) \in [Values -> [Uses -> Nat]]
           /\ \A v \in Values : remove_use(ul, v, u, i) \in [Values -> [Uses -> Nat]]
           /\ \A ops : remove_all_uses(ul, u, ops) \in [Values -> [Uses -> Nat]]
           /\ \A ops : remove_operand_uses(ul, u, ops, i) \in [Values -> [Uses -> Nat]]
  <1>1. <<u, i>> \in Uses
    BY DEF Uses
  <1>2. \A v \in Values : add_use(ul, v, u, i) \in [Values -> [Uses -> Nat]]
    BY <1>1 DEF add_use
  <1>3. \A v \in Values : remove_use(ul, v, u, i) \in [Values -> [Uses -> Nat]]
    BY <1>1 DEF remove_use
  <1>4. \A ops : remove_all_uses(ul, u, ops) \in [Values -> [Uses -> Nat]]
    BY DEF remove_all_uses
  <1>5. ASSUME NEW ops PROVE remove_operand_uses(ul, u, ops, i) \in [Values -> [Uses -> Nat]]
    <2>1. ASSUME NEW v \in Values, NEW w \in Uses, w[1] = u
          PROVE  ul[v][<<u, w[2]>>] \in Nat
      <3>1. w = <<u, w[2]>>
        BY <2>1 DEF Uses
      <3>. QED
        BY <3>1
    <2>. QED
      BY <2>1 DEF remove_operand_uses
  <1>. QED
    BY <1>2, <1>3, <1>4, <1>5

(* The number of times operand i of a user with operands ops uses v. *)
Recorded(ops, i, v) == IF i \in DOMAIN ops /\ ops[i] = v THEN 1 ELSE 0

(* ul records the operands ops of u, and them only. *)
Exact(ul, u, ops) ==
    \A v \in Values, i \in ArgNo : ul[v][<<u, i>>] = Recorded(ops, i, v)

(* remove_operand keeps the list exact because the operand after the erased *)
(* one is another value: its use idx is recorded before that of the erased  *)
(* operand is dropped, and remove_use drops every equal entry.              *)
LEMMA RemoveOperandExact ==
    ASSUME UseDefAssumption,
           NEW ul \in [Values -> [Uses -> Nat]],
           NEW u \in Users,
           NEW ops \in Seq(Values \cup {NoValue}), Len(ops) <= MaxOperands,
           NEW idx \in DOMAIN ops,
           idx + 1 \in DOMAIN ops => ops[idx + 1] # ops[idx],
           Exact(ul, u, ops)
    PROVE  Exact(remove_operand_uses(ul, u, ops, idx), u, erase(ops, idx))
  <1>. DEFINE new == erase(ops, idx)
              nul == remove_operand_uses(ul, u, ops, idx)
  <1>1. /\ Len(ops) \in Nat
        /\ DOMAIN ops = 1 .. Len(ops)
        /\ DOMAIN new = 1 .. Len(ops) - 1
        /\ \A i \in 1 .. Len(ops) - 1 :
                new[i] = IF i < idx THEN ops[i] ELSE ops[i + 1]
    <2>1. Len(ops) \in Nat /\ DOMAIN ops = 1 .. Len(ops)
      OBVIOUS
    <2>. QED
      BY <2>1, EraseType
  <1>. HIDE DEF new
  <1>2. ASSUME NEW v \in Values, NEW i \in ArgNo
        PROVE  nul[v][<<u, i>>] = Recorded(new, i, v)
    <2>1. <<u, i>> \in Uses /\ i \in Nat /\ idx \in Nat /\ idx >= 1
      BY <1>1 DEF Uses, ArgNo
    <2>2. ul[v][<<u, i>>] = IF i \in DOMAIN ops /\ ops[i] = v THEN 1 ELSE 0
      BY DEF Exact, Recorded
    <2>3. nul[v][<<u, i>>] =
             IF i = idx /\ ops[idx] = v THEN 0
             ELSE (IF i \in DOMAIN ops /\ i > idx /\ ops[i] = v
                   THEN 0 ELSE ul[v][<<u, i>>])
                + (IF i \in idx .. Len(ops) - 1 /\ ops[i + 1] = v THEN 1 ELSE 0)
      BY <2>1 DEF remove_operand_uses
    <2>4. CASE i < idx
      BY <2>1, <2>2, <2>3, <2>4, <1>1 DEF Recorded
    <2>5. CASE i = idx
      BY <2>1, <2>2, <2>3, <2>5, <1>1 DEF Recorded
    <2>6. CASE i > idx
      BY <2>1, <2>2, <2>3, <2>6, <1>1 DEF Recorded
    <2>. QED
      BY <2>1, <2>4, <2>5, <2>6
  <1>. QED
    BY <1>2 DEF Exact, new

(* Removing an operand of u concerns no other user. *)
LEMMA RemoveOperandOthers ==
    ASSUME NEW ul, NEW u \in Users, NEW ops, NEW idx,
           NEW x \in Users \ {u}, NEW v \in Values, NEW i \in ArgNo
    PROVE  remove_operand_uses(ul, u, ops, idx)[v][<<x, i>>] = ul[v][<<x, i>>]
  <1>1. <<x, i>> \in Uses
    BY DEF Uses
  <1>. QED
    BY <1>1 DEF remove_operand_uses

(* Dropping all operands of u leaves no use by u. *)
LEMMA RemoveAllExact ==
    ASSUME UseDefAssumption,
           NEW ul \in [Values -> [Uses -> Nat]],
           NEW u \in Users, NEW ops,
           Exact(ul, u, ops)
    PROVE  /\ Exact(remove_all_uses(ul, u, ops), u, <<>>)
           /\ \A x \in Users \ {u}, v \in Values, i \in ArgNo :
                remove_all_uses(ul, u, ops)[v][<<x, i>>] = ul[v][<<x, i>>]
  <1>1. \A x \in Users, i \in ArgNo : <<x, i>> \in Uses
    BY DEF Uses
  <1>. QED
    BY <1>1 DEF Exact, Recorded, remove_all_uses

LEMMA ExactPerUser ==
    UseListExact <=> \A u \in Users : Exact(use_list, u, operands[u])
  BY DEF UseListExact, Exact, Recorded

-----------------------------------------------------------------------------
LEMMA InitInv ==
    ASSUME UseDefAssumption, Init
    PROVE  IInv
  <1>1. TypeOK
    <2>1. [u \in Users |-> <<>>] \in [Users -> Seq(Values \cup {NoValue})]
      OBVIOUS
    <2>. QED
      BY <2>1 DEF TypeOK, Init, Return, UseDefAssumption
  <1>2. PhiShape
    <2>1. \A u \in Phis : operands[u] = <<>>
      BY DEF Init, UseDefAssumption
    <2>2. /\ 0 % 2 = 0
          /\ Len(<<>>) = 0
          /\ DOMAIN <<>> = {}
      OBVIOUS
    <2>3. ASSUME NEW u \in Phis
          PROVE  /\ Len(operands[u]) % 2 = 0
                 /\ DOMAIN operands[u] = {}
      BY <2>1, <2>2
    <2>. QED
      BY <2>3 DEF PhiShape
  <1>3. UseListExact
    BY DEF Init, UseListExact, Uses
  <1>4. NoDangling
    BY DEF Init, NoDangling
  <1>5. CallOK
    BY DEF Init, CallOK, Return, UseDefAssumption
  <1>. QED
    BY <1>1, <1>2, <1>3, <1>4, <1>5 DEF IInv

(* A phi grows and shrinks by two. *)
LEMMA Parity ==
    /\ \A n \in Nat : n % 2 = 0 => (n + 1) % 2 = 1 /\ (n + 2) % 2 = 0
    /\ \A n \in Nat : n % 2 = 1 => (n + 1) % 2 = 0 /\ (n + 2) % 2 = 1
  OBVIOUS

(* A vector grown by one operand, and by the pair of a phi. *)
LEMMA AddOperandInv ==
    ASSUME UseDefAssumption, IInv,
           NEW u \in Users, NEW v \in Values, AddOperand(u, v)
    PROVE  IInv'
  <1>. USE DEF IInv
  <1>. DEFINE n == Len(operands[u]) + 1
  <1>1. /\ operands[u] \in Seq(Values \cup {NoValue})
        /\ Len(operands[u]) \in Nat
        /\ n \in ArgNo /\ n \in Nat
        /\ operands' = [operands EXCEPT ![u] = Append(operands[u], v)]
        /\ use_list' = add_use(use_list, v, u, n)
        /\ alive' = alive /\ call' = call
        /\ u \in alive /\ v \in alive /\ u \notin Phis
    BY DEF TypeOK, AddOperand, UseDefAssumption, ArgNo
  <1>2. /\ operands'[u] \in Seq(Values \cup {NoValue})
        /\ Len(operands'[u]) = n
        /\ DOMAIN operands'[u] = 1 .. n
        /\ \A i \in 1 .. n : operands'[u][i] = IF i = n THEN v ELSE operands[u][i]
        /\ \A x \in Users \ {u} : operands'[x] = operands[x]
    BY <1>1 DEF TypeOK
  <1>3. TypeOK'
    <2>1. use_list' \in [Values -> [Uses -> Nat]]
      BY <1>1, EditType DEF TypeOK
    <2>2. operands' \in [Users -> Seq(Values \cup {NoValue})]
      BY <1>1, <1>2 DEF TypeOK
    <2>3. \A x \in Users : Len(operands'[x]) <= MaxOperands
      BY <1>1, <1>2 DEF TypeOK, ArgNo
    <2>. QED
      BY <1>1, <2>1, <2>2, <2>3 DEF TypeOK
  <1>4. PhiShape'
    BY <1>1, <1>2 DEF PhiShape
  <1>5. UseListExact'
    <2>1. ASSUME NEW y \in Values, NEW x \in Users, NEW i \in ArgNo
          PROVE  use_list'[y][<<x, i>>] =
                   IF i \in DOMAIN operands'[x] /\ operands'[x][i] = y THEN 1 ELSE 0
      <3>1. <<x, i>> \in Uses /\ <<u, n>> \in Uses
        BY <1>1 DEF Uses
      <3>2. use_list[y][<<x, i>>] =
              IF i \in DOMAIN operands[x] /\ operands[x][i] = y THEN 1 ELSE 0
        BY DEF UseListExact
      <3>3. use_list'[y][<<x, i>>] =
              IF y = v /\ x = u /\ i = n THEN use_list[y][<<x, i>>] + 1
                                         ELSE use_list[y][<<x, i>>]
        BY <1>1, <3>1 DEF TypeOK, add_use
      <3>4. DOMAIN operands[u] = 1 .. Len(operands[u])
        BY <1>1
      <3>5. CASE x = u
        BY <3>2, <3>3, <3>4, <3>5, <1>1, <1>2 DEF ArgNo
      <3>6. CASE x # u
        BY <3>2, <3>3, <3>6, <1>2
      <3>. QED
        BY <3>5, <3>6
    <2>. QED
      BY <2>1 DEF UseListExact
  <1>6. NoDangling'
    BY <1>1, <1>2 DEF NoDangling
  <1>7. CallOK'
    BY <1>1, <1>2 DEF CallOK, AddOperand, Idle
  <1>. QED
    BY <1>3, <1>4, <1>5, <1>6, <1>7

LEMMA AddPhiPairInv ==
    ASSUME UseDefAssumption, IInv,
           NEW u \in Phis, NEW v \in Values, NEW bb \in Blocks, AddPhiPair(u, v, bb)
    PROVE  IInv'
  <1>. USE DEF IInv
  <1>. DEFINE n == Len(operands[u])
  <1>0. /\ operands' = [operands EXCEPT ![u] = Append(Append(operands[u], v), bb)]
        /\ use_list' = add_use(add_use(use_list, v, u, n + 1), bb, u, n + 2)
        /\ alive' = alive /\ call' = call
        /\ u \in alive /\ v \in alive \ Blocks /\ bb \in alive
    BY DEF AddPhiPair
  <1>1. /\ u \in Users /\ bb \in Values
        /\ operands[u] \in Seq(Values \cup {NoValue})
        /\ n \in Nat /\ n + 1 \in ArgNo /\ n + 2 \in ArgNo
    <2>1. u \in Users /\ bb \in Values /\ MaxOperands \in Nat
      BY DEF UseDefAssumption
    <2>2. operands[u] \in Seq(Values \cup {NoValue})
      BY <2>1 DEF TypeOK
    <2>3. n \in Nat
      BY <2>2
    <2>4. n + 2 <= MaxOperands
      BY DEF AddPhiPair
    <2>5. n + 1 \in ArgNo /\ n + 2 \in ArgNo
      BY <2>1, <2>3, <2>4 DEF ArgNo
    <2>. QED
      BY <2>1, <2>2, <2>3, <2>5
  <1>2. /\ operands'[u] \in Seq(Values \cup {NoValue})
        /\ Len(operands'[u]) = n + 2
        /\ DOMAIN operands'[u] = 1 .. n + 2
        /\ \A i \in 1 .. n : operands'[u][i] = operands[u][i]
        /\ operands'[u][n + 1] = v
        /\ operands'[u][n + 2] = bb
        /\ \A x \in Users \ {u} : operands'[x] = operands[x]
    <2>. DEFINE s1 == Append(operands[u], v)
    <2>1. /\ s1 \in Seq(Values \cup {NoValue})
          /\ Len(s1) = n + 1
          /\ \A i \in 1 .. n : s1[i] = operands[u][i]
          /\ s1[n + 1] = v
      BY <1>1
    <2>2. operands'[u] = Append(s1, bb)
      BY <1>0, <1>1 DEF TypeOK
    <2>. HIDE DEF s1
    <2>3. /\ Append(s1, bb) \in Seq(Values \cup {NoValue})
          /\ Len(Append(s1, bb)) = n + 2
          /\ DOMAIN Append(s1, bb) = 1 .. n + 2
          /\ \A i \in 1 .. n + 1 : Append(s1, bb)[i] = s1[i]
          /\ Append(s1, bb)[n + 2] = bb
      BY <1>1, <2>1
    <2>4. \A i \in 1 .. n : i \in 1 .. n + 1
      BY <1>1
    <2>5. n + 1 \in 1 .. n + 1
      BY <1>1
    <2>6. \A x \in Users \ {u} : operands'[x] = operands[x]
      BY <1>0, <1>1 DEF TypeOK
    <2>. QED
      BY <2>1, <2>2, <2>3, <2>4, <2>5, <2>6
  <1>3. TypeOK'
    <2>1. use_list' \in [Values -> [Uses -> Nat]]
      BY <1>0, <1>1, EditType DEF TypeOK
    <2>2. operands' \in [Users -> Seq(Values \cup {NoValue})]
      BY <1>0, <1>1, <1>2 DEF TypeOK
    <2>3. \A x \in Users : Len(operands'[x]) <= MaxOperands
      BY <1>1, <1>2, SMTT(30) DEF TypeOK, ArgNo
    <2>. QED
      BY <1>0, <1>1, <2>1, <2>2, <2>3 DEF TypeOK
  <1>4. PhiShape'
    <2>1. n % 2 = 0 /\ DOMAIN operands[u] = 1 .. n
      <3>1. n % 2 = 0
        BY DEF PhiShape
      <3>2. DOMAIN operands[u] = 1 .. n
        BY <1>1
      <3>. QED
        BY <3>1, <3>2
    <2>. HIDE DEF n
    <2>2. (n + 2) % 2 = 0 /\ (n + 1) % 2 = 1
      BY <1>1, <2>1, Parity
    <2>3. ASSUME NEW i \in 1 .. n + 2, operands'[u][i] # NoValue
          PROVE  (operands'[u][i] \in Blocks) <=> i % 2 = 0
      <3>1. CASE i \in 1 .. n
        BY <1>2, <2>1, <2>3, <3>1 DEF PhiShape
      <3>2. CASE i = n + 1
        BY <1>0, <1>2, <2>2, <3>2
      <3>3. CASE i = n + 2
        BY <1>2, <2>2, <3>3
      <3>. QED
        BY <1>1, <3>1, <3>2, <3>3
    <2>4. \A x \in Phis \ {u} : operands'[x] = operands[x]
      BY <1>2 DEF UseDefAssumption
    <2>. QED
      BY <1>2, <2>2, <2>3, <2>4, ZenonT(40) DEF PhiShape
  <1>5. UseListExact'
    <2>1. ASSUME NEW y \in Values, NEW x \in Users, NEW i \in ArgNo
          PROVE  use_list'[y][<<x, i>>] =
                   IF i \in DOMAIN operands'[x] /\ operands'[x][i] = y THEN 1 ELSE 0
      <3>1. <<x, i>> \in Uses /\ <<u, n + 1>> \in Uses /\ <<u, n + 2>> \in Uses
        BY <1>1 DEF Uses
      <3>2. use_list[y][<<x, i>>] =
              IF i \in DOMAIN operands[x] /\ operands[x][i] = y THEN 1 ELSE 0
        BY DEF UseListExact
      <3>3. use_list'[y][<<x, i>>] =
              IF x = u /\ ((y = v /\ i = n + 1) \/ (y = bb /\ i = n + 2))
              THEN use_list[y][<<x, i>>] + 1 ELSE use_list[y][<<x, i>>]
        <4>. DEFINE ul1 == add_use(use_list, v, u, n + 1)
        <4>1. use_list \in [Values -> [Uses -> Nat]]
          BY DEF TypeOK
        <4>2. ul1 \in [Values -> [Uses -> Nat]]
          BY <1>1, <4>1, EditType
        <4>3. ul1[y][<<x, i>>] = IF y = v /\ x = u /\ i = n + 1
                  THEN use_list[y][<<x, i>>] + 1 ELSE use_list[y][<<x, i>>]
          BY <1>1, <3>1, <4>1 DEF add_use
        <4>. HIDE DEF ul1
        <4>4. add_use(ul1, bb, u, n + 2)[y][<<x, i>>] =
                  IF y = bb /\ x = u /\ i = n + 2
                  THEN ul1[y][<<x, i>>] + 1 ELSE ul1[y][<<x, i>>]
          BY <1>1, <3>1, <4>2 DEF add_use
        <4>5. use_list' = add_use(ul1, bb, u, n + 2) /\ n + 1 # n + 2
          BY <1>0, <1>1 DEF ul1
        <4>. QED
          BY <4>3, <4>4, <4>5
      <3>4. DOMAIN operands[u] = 1 .. n
        BY <1>1
      <3>5. CASE x = u
        <4>1. /\ n \in Nat /\ i \in Nat /\ i >= 1
              /\ bb \in Blocks /\ v \notin Blocks
          BY <1>0, <1>1 DEF ArgNo
        <4>2. CASE i \in 1 .. n
          BY <3>2, <3>3, <3>4, <3>5, <1>2, <4>1, <4>2
        <4>3. CASE i = n + 1
          BY <3>2, <3>3, <3>4, <3>5, <1>2, <4>1, <4>3
        <4>4. CASE i = n + 2
          BY <3>2, <3>3, <3>4, <3>5, <1>2, <4>1, <4>4
        <4>5. CASE i > n + 2
          BY <3>2, <3>3, <3>4, <3>5, <1>2, <4>1, <4>5
        <4>. QED
          BY <4>1, <4>2, <4>3, <4>4, <4>5
      <3>6. CASE x # u
        BY <3>2, <3>3, <3>6, <1>2
      <3>. QED
        BY <3>5, <3>6
    <2>. QED
      BY <2>1 DEF UseListExact
  <1>6. NoDangling'
    <2>1. ASSUME NEW i \in 1 .. n + 2 PROVE operands'[u][i] \in alive \cup {NoValue}
      <3>1. i \in 1 .. n \/ i = n + 1 \/ i = n + 2
        BY <1>1
      <3>2. \A j \in 1 .. n : operands[u][j] \in alive \cup {NoValue}
        BY <1>1 DEF NoDangling
      <3>. QED
        BY <1>0, <1>2, <3>1, <3>2
    <2>. QED
      BY <1>0, <1>2, <2>1 DEF NoDangling
  <1>7. CallOK'
    BY <1>0, <1>1, <1>2 DEF CallOK, AddPhiPair, Idle
  <1>. QED
    BY <1>3, <1>4, <1>5, <1>6, <1>7

(* set_operand with any new value, null included, keeps the lists exact: it *)
(* is what SetOperand and every turn of the replace loop do.                *)
LEMMA SetOperandExact ==
    ASSUME UseDefAssumption, TypeOK, UseListExact,
           NEW u \in Users, NEW i \in DOMAIN operands[u],
           NEW new \in Values \cup {NoValue},
           use_list' = set_operand_uses(use_list, u, i, new),
           operands' = [operands EXCEPT ![u][i] = new]
    PROVE  /\ operands' \in [Users -> Seq(Values \cup {NoValue})]
           /\ \A x \in Users : /\ Len(operands'[x]) = Len(operands[x])
                               /\ DOMAIN operands'[x] = DOMAIN operands[x]
                               /\ \A j \in DOMAIN operands[x] :
                                    operands'[x][j] = IF x = u /\ j = i THEN new
                                                      ELSE operands[x][j]
           /\ use_list' \in [Values -> [Uses -> Nat]]
           /\ UseListExact'
  <1>. DEFINE old == operands[u][i]
  <1>1. /\ \A x \in Users : /\ operands[x] \in Seq(Values \cup {NoValue})
                            /\ Len(operands[x]) \in Nat
                            /\ DOMAIN operands[x] = 1 .. Len(operands[x])
        /\ i \in ArgNo /\ old \in Values \cup {NoValue}
        /\ use_list \in [Values -> [Uses -> Nat]]
        /\ <<u, i>> \in Uses
    <2>1. \A x \in Users : operands[x] \in Seq(Values \cup {NoValue})
      BY DEF TypeOK
    <2>2. \A x \in Users : /\ Len(operands[x]) \in Nat
                          /\ DOMAIN operands[x] = 1 .. Len(operands[x])
      BY <2>1
    <2>3. old \in Values \cup {NoValue}
      BY <2>1
    <2>4. i \in ArgNo
      BY <2>2 DEF TypeOK, ArgNo, UseDefAssumption
    <2>. QED
      BY <2>1, <2>2, <2>3, <2>4 DEF TypeOK, Uses
  <1>2. \A x \in Users : /\ operands'[x] \in Seq(Values \cup {NoValue})
                         /\ Len(operands'[x]) = Len(operands[x])
                         /\ DOMAIN operands'[x] = DOMAIN operands[x]
                         /\ \A j \in DOMAIN operands[x] :
                              operands'[x][j] = IF x = u /\ j = i THEN new
                                                ELSE operands[x][j]
    <2>1. operands'[u] = [operands[u] EXCEPT ![i] = new]
      BY <1>1 DEF TypeOK
    <2>2. \A x \in Users \ {u} : operands'[x] = operands[x]
      BY <1>1 DEF TypeOK
    <2>. DEFINE s == operands[u]
    <2>3. /\ s \in Seq(Values \cup {NoValue}) /\ i \in DOMAIN s
          /\ DOMAIN s = 1 .. Len(s) /\ Len(s) \in Nat
      BY <1>1
    <2>. HIDE DEF s
    <2>4. /\ [s EXCEPT ![i] = new] \in Seq(Values \cup {NoValue})
          /\ Len([s EXCEPT ![i] = new]) = Len(s)
          /\ DOMAIN [s EXCEPT ![i] = new] = DOMAIN s
          /\ \A j \in DOMAIN s : [s EXCEPT ![i] = new][j] = IF j = i THEN new ELSE s[j]
      BY <2>3
    <2>5. operands'[u] = [s EXCEPT ![i] = new] /\ s = operands[u]
      BY <2>1 DEF s
    <2>6. /\ operands'[u] \in Seq(Values \cup {NoValue})
          /\ Len(operands'[u]) = Len(operands[u])
          /\ DOMAIN operands'[u] = DOMAIN operands[u]
          /\ \A j \in DOMAIN operands[u] :
                operands'[u][j] = IF j = i THEN new ELSE operands[u][j]
      BY <2>4, <2>5
    <2>7. ASSUME NEW x \in Users, x # u
          PROVE  /\ operands'[x] \in Seq(Values \cup {NoValue})
                 /\ Len(operands'[x]) = Len(operands[x])
                 /\ DOMAIN operands'[x] = DOMAIN operands[x]
                 /\ \A j \in DOMAIN operands[x] :
                       operands'[x][j] = IF x = u /\ j = i THEN new ELSE operands[x][j]
      BY <1>1, <2>2, <2>7
    <2>. QED
      BY <2>6, <2>7
  <1>3. operands' \in [Users -> Seq(Values \cup {NoValue})]
    BY <1>2 DEF TypeOK
  <1>. DEFINE cut == IF old = NoValue THEN use_list ELSE remove_use(use_list, old, u, i)
  <1>4. cut \in [Values -> [Uses -> Nat]]
    BY <1>1, EditType
  <1>5. use_list' = IF new = NoValue THEN cut ELSE add_use(cut, new, u, i)
    BY DEF set_operand_uses
  <1>6. use_list' \in [Values -> [Uses -> Nat]]
    <2>. HIDE DEF cut
    <2>1. CASE new = NoValue
      BY <1>4, <1>5, <2>1
    <2>2. CASE new # NoValue
      <3>1. new \in Values
        BY <2>2
      <3>2. add_use(cut, new, u, i) \in [Values -> [Uses -> Nat]]
        BY <1>1, <1>4, <3>1, EditType
      <3>. QED
        BY <1>5, <2>2, <3>2
    <2>. QED
      BY <2>1, <2>2
  <1>7. ASSUME NEW y \in Values, NEW x \in Users, NEW j \in ArgNo
        PROVE  use_list'[y][<<x, j>>] =
                 IF j \in DOMAIN operands'[x] /\ operands'[x][j] = y THEN 1 ELSE 0
    <2>1. <<x, j>> \in Uses
      BY DEF Uses
    <2>2. use_list[y][<<x, j>>] =
              IF j \in DOMAIN operands[x] /\ operands[x][j] = y THEN 1 ELSE 0
      BY DEF UseListExact
    <2>3. cut[y][<<x, j>>] = IF y = old /\ x = u /\ j = i THEN 0
                             ELSE use_list[y][<<x, j>>]
      BY <1>1, <2>1, UseDefAssumption DEF remove_use, UseDefAssumption
    <2>4. use_list'[y][<<x, j>>] = IF y = new /\ x = u /\ j = i THEN cut[y][<<x, j>>] + 1
                                   ELSE cut[y][<<x, j>>]
      <3>. HIDE DEF cut
      <3>1. CASE new = NoValue
        BY <1>5, <3>1 DEF UseDefAssumption
      <3>2. CASE new # NoValue
        <4>1. add_use(cut, new, u, i)[y][<<x, j>>] =
                 IF y = new /\ x = u /\ j = i THEN cut[y][<<x, j>>] + 1
                 ELSE cut[y][<<x, j>>]
          BY <1>1, <1>4, <2>1, <3>2 DEF add_use
        <4>. QED
          BY <1>5, <3>2, <4>1
      <3>. QED
        BY <3>1, <3>2
    <2>. HIDE DEF cut
    <2>5. CASE x = u /\ j = i
      BY <1>2, <2>2, <2>3, <2>4, <2>5
    <2>6. CASE ~(x = u /\ j = i)
      BY <1>2, <2>2, <2>3, <2>4, <2>6
    <2>. QED
      BY <2>5, <2>6
  <1>. QED
    BY <1>2, <1>3, <1>6, <1>7 DEF UseListExact

LEMMA SetOperandInv ==
    ASSUME UseDefAssumption, IInv,
           NEW u \in Users, NEW i \in ArgNo, NEW bb \in Blocks, SetOperand(u, i, bb)
    PROVE  IInv'
  <1>. USE DEF IInv
  <1>1. /\ i \in DOMAIN operands[u] /\ operands[u][i] \in Blocks
        /\ bb \in Values /\ bb \in alive /\ bb # NoValue
        /\ use_list' = set_operand_uses(use_list, u, i, bb)
        /\ operands' = [operands EXCEPT ![u][i] = bb]
        /\ alive' = alive /\ call' = call /\ Idle
    BY DEF SetOperand, UseDefAssumption
  <1>2. /\ operands' \in [Users -> Seq(Values \cup {NoValue})]
        /\ \A x \in Users : /\ Len(operands'[x]) = Len(operands[x])
                            /\ DOMAIN operands'[x] = DOMAIN operands[x]
                            /\ \A j \in DOMAIN operands[x] :
                                 operands'[x][j] = IF x = u /\ j = i THEN bb
                                                   ELSE operands[x][j]
        /\ use_list' \in [Values -> [Uses -> Nat]]
        /\ UseListExact'
    BY <1>1, SetOperandExact
  <1>3. TypeOK'
    BY <1>1, <1>2 DEF TypeOK
  <1>4. PhiShape'
    <2>1. operands[u][i] # NoValue
      BY <1>1 DEF UseDefAssumption
    <2>2. Phis \subseteq Users
      BY DEF UseDefAssumption
    <2>3. ASSUME NEW x \in Phis, NEW j \in DOMAIN operands'[x], operands'[x][j] # NoValue
          PROVE  (operands'[x][j] \in Blocks) <=> j % 2 = 0
      <3>1. CASE x = u /\ j = i
        BY <1>1, <1>2, <2>1, <2>2, <3>1 DEF PhiShape
      <3>2. CASE ~(x = u /\ j = i)
        <4>1. j \in DOMAIN operands[x] /\ operands'[x][j] = operands[x][j]
          BY <1>2, <2>2, <3>2
        <4>. QED
          BY <2>3, <4>1 DEF PhiShape
      <3>. QED
        BY <3>1, <3>2
    <2>4. ASSUME NEW x \in Phis PROVE Len(operands'[x]) % 2 = 0
      BY <1>2, <2>2 DEF PhiShape
    <2>. QED
      BY <2>3, <2>4 DEF PhiShape
  <1>5. NoDangling'
    <2>1. ASSUME NEW x \in Users, NEW j \in DOMAIN operands'[x]
          PROVE  operands'[x][j] \in alive \cup {NoValue}
      BY <1>1, <1>2 DEF NoDangling
    <2>2. ASSUME NEW x \in Users \ alive PROVE operands'[x] = <<>>
      <3>1. x # u
        BY DEF SetOperand
      <3>. QED
        BY <1>1, <3>1 DEF NoDangling, TypeOK
    <2>. QED
      BY <1>1, <2>1, <2>2 DEF NoDangling
  <1>6. CallOK'
    <2>1. ~call.dtor
      BY <1>1 DEF Idle, CallOK, UseDefAssumption
    <2>. QED
      BY <1>1, <2>1 DEF CallOK
  <1>. QED
    BY <1>2, <1>3, <1>4, <1>5, <1>6

(* Dropping all operands of u, as remove_all_operands and ~User do. *)
LEMMA RemoveAllStep ==
    ASSUME UseDefAssumption, TypeOK, PhiShape, UseListExact, NEW u \in Users,
           use_list' = remove_all_uses(use_list, u, operands[u]),
           operands' = [operands EXCEPT ![u] = <<>>]
    PROVE  /\ operands' \in [Users -> Seq(Values \cup {NoValue})]
           /\ \A x \in Users : operands'[x] = IF x = u THEN <<>> ELSE operands[x]
           /\ \A x \in Users : Len(operands'[x]) <= MaxOperands
           /\ use_list' \in [Values -> [Uses -> Nat]]
           /\ PhiShape'
           /\ UseListExact'
  <1>1. \A x \in Users : operands'[x] = IF x = u THEN <<>> ELSE operands[x]
    BY DEF TypeOK
  <1>2. <<>> \in Seq(Values \cup {NoValue}) /\ Len(<<>>) = 0 /\ DOMAIN <<>> = {}
    OBVIOUS
  <1>3. operands' \in [Users -> Seq(Values \cup {NoValue})]
    BY <1>2 DEF TypeOK
  <1>4. \A x \in Users : Len(operands'[x]) <= MaxOperands
    BY <1>1, <1>2 DEF TypeOK, UseDefAssumption
  <1>5. use_list' \in [Values -> [Uses -> Nat]]
    BY DEF TypeOK, remove_all_uses
  <1>6. PhiShape'
    <2>1. 0 % 2 = 0
      OBVIOUS
    <2>2. ASSUME NEW x \in Phis
          PROVE  /\ Len(operands'[x]) % 2 = 0
                 /\ \A j \in DOMAIN operands'[x] : operands'[x][j] # NoValue =>
                       ((operands'[x][j] \in Blocks) <=> j % 2 = 0)
      <3>1. x \in Users
        BY DEF UseDefAssumption
      <3>2. CASE x = u
        <4>1. operands'[x] = <<>>
          BY <1>1, <3>1, <3>2
        <4>. QED
          BY <1>2, <2>1, <4>1
      <3>3. CASE x # u
        BY <1>1, <3>1, <3>3 DEF PhiShape
      <3>. QED
        BY <3>2, <3>3
    <2>. QED
      BY <2>2 DEF PhiShape
  <1>7. UseListExact'
    <2>1. \A x \in Users : Exact(use_list, x, operands[x])
      BY ExactPerUser
    <2>2. use_list \in [Values -> [Uses -> Nat]]
      BY DEF TypeOK
    <2>3. /\ Exact(use_list', u, <<>>)
          /\ \A x \in Users \ {u}, v \in Values, i \in ArgNo :
                use_list'[v][<<x, i>>] = use_list[v][<<x, i>>]
      BY <2>1, <2>2, RemoveAllExact
    <2>4. ASSUME NEW x \in Users PROVE Exact(use_list', x, operands'[x])
      <3>1. CASE x = u
        BY <1>1, <2>3, <3>1
      <3>2. CASE x # u
        BY <1>1, <2>1, <2>3, <3>2 DEF Exact
      <3>. QED
        BY <3>1, <3>2
    <2>. QED
      BY <2>4, ZenonT(40) DEF UseListExact, Exact, Recorded
  <1>. QED
    BY <1>1, <1>3, <1>4, <1>5, <1>6, <1>7

LEMMA RemoveAllOperandsInv ==
    ASSUME UseDefAssumption, IInv, NEW u \in Users, RemoveAllOperands(u)
    PROVE  IInv'
  <1>. USE DEF IInv
  <1>1. /\ use_list' = remove_all_uses(use_list, u, operands[u])
        /\ operands' = [operands EXCEPT ![u] = <<>>]
        /\ alive' = alive /\ call' = call /\ Idle
    BY DEF RemoveAllOperands
  <1>2. /\ operands' \in [Users -> Seq(Values \cup {NoValue})]
        /\ \A x \in Users : operands'[x] = IF x = u THEN <<>> ELSE operands[x]
        /\ \A x \in Users : Len(operands'[x]) <= MaxOperands
        /\ use_list' \in [Values -> [Uses -> Nat]]
        /\ PhiShape'
        /\ UseListExact'
    BY <1>1, RemoveAllStep
  <1>3. TypeOK'
    BY <1>1, <1>2 DEF TypeOK
  <1>4. NoDangling'
    <2>1. DOMAIN <<>> = {}
      OBVIOUS
    <2>2. ASSUME NEW x \in Users, NEW j \in DOMAIN operands'[x]
          PROVE  operands'[x][j] \in alive \cup {NoValue}
      <3>1. CASE x = u
        BY <1>2, <2>1, <3>1
      <3>2. CASE x # u
        BY <1>2, <3>2 DEF NoDangling
      <3>. QED
        BY <3>1, <3>2
    <2>3. ASSUME NEW x \in Users \ alive PROVE operands'[x] = <<>>
      BY <1>2 DEF NoDangling
    <2>. QED
      BY <1>1, <2>2, <2>3 DEF NoDangling
  <1>5. CallOK'
    <2>1. ~call.dtor
      BY <1>1 DEF Idle, CallOK, UseDefAssumption
    <2>. QED
      BY <1>1, <2>1 DEF CallOK
  <1>. QED
    BY <1>2, <1>3, <1>4, <1>5

(* remove_phi_operand erases a value and then the block that moved into its *)
(* place; both times the next operand is of the other kind.                 *)
LEMMA RemovePhiOperandInv ==
    ASSUME UseDefAssumption, IInv,
           NEW u \in Phis, NEW i \in ArgNo, RemovePhiOperand(u, i)
    PROVE  IInv'
  <1>. USE DEF IInv
  <1>. DEFINE ops  == operands[u]
              ops1 == erase(ops, i)
              ops2 == erase(ops1, i)
              ul1  == remove_operand_uses(use_list, u, ops, i)
              ul2  == remove_operand_uses(ul1, u, ops1, i)
              V    == Values \cup {NoValue}
  <1>1. /\ u \in alive /\ i \in DOMAIN ops /\ i % 2 = 1
        /\ \A j \in DOMAIN ops : ops[j] # NoValue
        /\ use_list' = ul2
        /\ operands' = [operands EXCEPT ![u] = ops2]
        /\ alive' = alive /\ call' = call /\ Idle
    BY DEF RemovePhiOperand
  <1>2. /\ u \in Users /\ MaxOperands \in Nat
        /\ ops \in Seq(V) /\ Len(ops) \in Nat /\ Len(ops) <= MaxOperands
        /\ DOMAIN ops = 1 .. Len(ops)
        /\ i \in Nat /\ i >= 1
    <2>1. u \in Users /\ MaxOperands \in Nat
      BY DEF UseDefAssumption
    <2>2. ops \in Seq(V) /\ Len(ops) <= MaxOperands
      BY <2>1 DEF TypeOK
    <2>. QED
      BY <2>1, <2>2 DEF ArgNo
  <1>3. /\ Len(ops) % 2 = 0
        /\ \A j \in DOMAIN ops : (ops[j] \in Blocks) <=> j % 2 = 0
    BY <1>1 DEF PhiShape
  <1>4. i + 1 \in DOMAIN ops
    <2>1. i # Len(ops)
      <3>1. i % 2 = 1
        BY <1>1
      <3>2. Len(ops) % 2 = 0
        BY <1>3
      <3>. HIDE DEF ops
      <3>. QED
        BY <3>1, <3>2
    <2>. QED
      BY <1>1, <1>2, <2>1
  <1>5. (i + 1) % 2 = 0 /\ (i + 2) % 2 = 1
    BY <1>1, <1>2, Parity
  <1>6. ops[i] # ops[i + 1] /\ (i + 2 \in DOMAIN ops => ops[i + 2] # ops[i + 1])
    BY <1>1, <1>3, <1>4, <1>5, SMTT(30)
  <1>7. /\ ops1 \in Seq(V) /\ Len(ops1) = Len(ops) - 1
        /\ DOMAIN ops1 = 1 .. Len(ops) - 1
        /\ \A j \in 1 .. Len(ops) - 1 : ops1[j] = IF j < i THEN ops[j] ELSE ops[j + 1]
    <2>. HIDE DEF ops
    <2>. QED
      BY <1>1, <1>2, EraseType
  <1>8. i \in DOMAIN ops1 /\ ops1[i] = ops[i + 1]
    BY <1>2, <1>4, <1>7
  <1>9. i + 1 \in DOMAIN ops1 => ops1[i + 1] # ops1[i]
    <2>1. ASSUME i + 1 \in DOMAIN ops1
          PROVE  ops1[i + 1] = ops[i + 2] /\ i + 2 \in DOMAIN ops
      <3>1. i + 1 \in 1 .. Len(ops) - 1 /\ ~(i + 1 < i) /\ (i + 1) + 1 = i + 2
        BY <1>2, <1>7, <2>1
      <3>2. ops1[i + 1] = ops[(i + 1) + 1]
        BY <1>7, <3>1
      <3>. QED
        BY <1>2, <3>1, <3>2
    <2>. QED
      BY <1>6, <1>8, <2>1
  <1>10. /\ ops2 \in Seq(V) /\ Len(ops2) = Len(ops) - 2
         /\ DOMAIN ops2 = 1 .. Len(ops) - 2
         /\ \A j \in 1 .. Len(ops) - 2 : ops2[j] = IF j < i THEN ops[j] ELSE ops[j + 2]
    <2>1. /\ ops2 \in Seq(V) /\ Len(ops2) = Len(ops1) - 1
          /\ DOMAIN ops2 = 1 .. Len(ops1) - 1
          /\ \A j \in 1 .. Len(ops1) - 1 :
                ops2[j] = IF j < i THEN ops1[j] ELSE ops1[j + 1]
      <3>. HIDE DEF ops1
      <3>. QED
        BY <1>7, <1>8, EraseType, ZenonT(40)
    <2>. HIDE DEF ops, ops1, ops2
    <2>. QED
      BY <1>2, <1>7, <2>1
  <1>11. use_list \in [Values -> [Uses -> Nat]] /\ Exact(use_list, u, ops)
    BY <1>2, ExactPerUser DEF TypeOK
  <1>12. /\ ul1 \in [Values -> [Uses -> Nat]]
         /\ Exact(ul1, u, ops1)
         /\ \A x \in Users \ {u}, v \in Values, j \in ArgNo :
               ul1[v][<<x, j>>] = use_list[v][<<x, j>>]
    <2>. HIDE DEF ops
    <2>1. ul1 \in [Values -> [Uses -> Nat]]
      BY <1>2, <1>11, EditType
    <2>2. i + 1 \in DOMAIN ops => ops[i + 1] # ops[i]
      BY <1>6
    <2>3. ops \in Seq(Values \cup {NoValue}) /\ Len(ops) <= MaxOperands /\ i \in DOMAIN ops
      BY <1>1, <1>2
    <2>4. u \in Users
      BY <1>2
    <2>. HIDE DEF ul1, ops1
    <2>5. Exact(remove_operand_uses(use_list, u, ops, i), u, erase(ops, i))
      BY <1>11, <2>2, <2>3, <2>4, RemoveOperandExact, Zenon
    <2>6. ASSUME NEW x \in Users \ {u}, NEW v \in Values, NEW j \in ArgNo
          PROVE  remove_operand_uses(use_list, u, ops, i)[v][<<x, j>>] = use_list[v][<<x, j>>]
      BY <2>4, RemoveOperandOthers
    <2>. QED
      BY <2>1, <2>5, <2>6 DEF ul1, ops1
  <1>13. /\ ul2 \in [Values -> [Uses -> Nat]]
         /\ Exact(ul2, u, ops2)
         /\ \A x \in Users \ {u}, v \in Values, j \in ArgNo :
               ul2[v][<<x, j>>] = ul1[v][<<x, j>>]
    <2>. HIDE DEF ops, ops1, ul1
    <2>1. ul2 \in [Values -> [Uses -> Nat]]
      BY <1>2, <1>12, EditType
    <2>2. Len(ops1) <= MaxOperands
      BY <1>2, <1>7
    <2>3. ops1 \in Seq(Values \cup {NoValue}) /\ i \in DOMAIN ops1
      BY <1>7, <1>8
    <2>4. u \in Users
      BY <1>2
    <2>. HIDE DEF ul2, ops2
    <2>5. Exact(remove_operand_uses(ul1, u, ops1, i), u, erase(ops1, i))
      BY <1>9, <1>12, <2>2, <2>3, <2>4, RemoveOperandExact, Zenon
    <2>6. ASSUME NEW x \in Users \ {u}, NEW v \in Values, NEW j \in ArgNo
          PROVE  remove_operand_uses(ul1, u, ops1, i)[v][<<x, j>>] = ul1[v][<<x, j>>]
      BY <2>4, RemoveOperandOthers
    <2>. QED
      BY <2>1, <2>5, <2>6 DEF ul2, ops2
  <1>. HIDE DEF ops, ops1, ops2, ul1, ul2
  <1>14. \A x \in Users : operands'[x] = IF x = u THEN ops2 ELSE operands[x]
    BY <1>1, <1>2 DEF TypeOK
  <1>15. TypeOK'
    <2>1. operands' \in [Users -> Seq(V)]
      BY <1>1, <1>10 DEF TypeOK
    <2>2. \A x \in Users : Len(operands'[x]) <= MaxOperands
      BY <1>2, <1>10, <1>14 DEF TypeOK
    <2>. QED
      BY <1>1, <1>13, <2>1, <2>2 DEF TypeOK
  <1>16. PhiShape'
    <2>1. Len(ops2) % 2 = 0
      BY <1>2, <1>3, <1>4, <1>10
    <2>2. ASSUME NEW j \in DOMAIN ops2 PROVE (ops2[j] \in Blocks) <=> j % 2 = 0
      <3>1. j \in Nat /\ j \in DOMAIN ops /\ j + 2 \in DOMAIN ops
        BY <1>2, <1>10
      <3>2. CASE j < i
        BY <1>3, <1>10, <3>1, <3>2
      <3>3. CASE ~(j < i)
        <4>1. ops2[j] = ops[j + 2]
          BY <1>10, <3>3
        <4>2. (j + 2) % 2 = 0 <=> j % 2 = 0
          BY <3>1
        <4>. QED
          BY <1>3, <3>1, <4>1, <4>2
      <3>. QED
        BY <3>2, <3>3
    <2>3. ASSUME NEW x \in Phis
          PROVE  /\ Len(operands'[x]) % 2 = 0
                 /\ \A j \in DOMAIN operands'[x] : operands'[x][j] # NoValue =>
                       ((operands'[x][j] \in Blocks) <=> j % 2 = 0)
      <3>1. x \in Users
        BY DEF UseDefAssumption
      <3>2. CASE x = u
        BY <1>14, <2>1, <2>2, <3>1, <3>2
      <3>3. CASE x # u
        BY <1>14, <3>1, <3>3 DEF PhiShape
      <3>. QED
        BY <3>2, <3>3
    <2>. QED
      BY <2>3 DEF PhiShape
  <1>17. UseListExact'
    <2>1. ASSUME NEW x \in Users PROVE Exact(use_list', x, operands'[x])
      <3>1. CASE x = u
        BY <1>1, <1>13, <1>14, <3>1
      <3>2. CASE x # u
        BY <1>1, <1>12, <1>13, <1>14, <3>2, ExactPerUser DEF Exact
      <3>. QED
        BY <3>1, <3>2
    <2>. QED
      BY <2>1 DEF UseListExact, Exact, Recorded
  <1>18. NoDangling'
    <2>1. ASSUME NEW j \in DOMAIN ops2 PROVE ops2[j] \in alive \cup {NoValue}
      <3>1. j \in Nat /\ j \in DOMAIN ops /\ j + 2 \in DOMAIN ops
        BY <1>2, <1>10
      <3>2. \A k \in DOMAIN ops : ops[k] \in alive \cup {NoValue}
        BY <1>2 DEF NoDangling, ops
      <3>. QED
        BY <1>10, <3>1, <3>2
    <2>2. ASSUME NEW x \in Users, NEW j \in DOMAIN operands'[x]
          PROVE  operands'[x][j] \in alive \cup {NoValue}
      <3>1. CASE x = u
        BY <1>14, <2>1, <3>1
      <3>2. CASE x # u
        BY <1>14, <3>2 DEF NoDangling
      <3>. QED
        BY <3>1, <3>2
    <2>3. \A x \in Users \ alive : operands'[x] = <<>>
      BY <1>1, <1>14 DEF NoDangling
    <2>. QED
      BY <1>1, <2>2, <2>3 DEF NoDangling
  <1>19. CallOK'
    <2>1. ~call.dtor
      BY <1>1 DEF Idle, CallOK, UseDefAssumption
    <2>. QED
      BY <1>1, <2>1 DEF CallOK
  <1>. QED
    BY <1>15, <1>16, <1>17, <1>18, <1>19

(* A step that leaves operands and lists alone leaves their relation alone. *)
LEMMA Untouched ==
    ASSUME IInv, UNCHANGED <<operands, use_list>>
    PROVE  /\ PhiShape'
           /\ UseListExact'
           /\ alive' = alive => NoDangling'
  <1>. USE DEF IInv
  <1>1. PhiShape'
    BY Zenon DEF PhiShape
  <1>2. UseListExact'
    <2>1. operands' = operands /\ use_list' = use_list
      OBVIOUS
    <2>2. ASSUME NEW v \in Values, NEW u \in Users, NEW i \in ArgNo
          PROVE  use_list'[v][<<u, i>>] =
                   IF i \in DOMAIN operands'[u] /\ operands'[u][i] = v THEN 1 ELSE 0
      <3>1. use_list[v][<<u, i>>] =
              IF i \in DOMAIN operands[u] /\ operands[u][i] = v THEN 1 ELSE 0
        BY DEF UseListExact
      <3>. QED
        BY <2>1, <3>1
    <2>. QED
      BY <2>2 DEF UseListExact
  <1>3. alive' = alive => NoDangling'
    BY Zenon DEF NoDangling
  <1>. QED
    BY <1>1, <1>2, <1>3

LEMMA ReplaceAllUseWithInv ==
    ASSUME UseDefAssumption, IInv,
           NEW v \in Values, NEW new_val \in Values, ReplaceAllUseWith(v, new_val)
    PROVE  IInv'
  <1>. USE DEF IInv, ReplaceAllUseWith
  <1>1. TypeOK'
    BY DEF TypeOK
  <1>2. PhiShape' /\ UseListExact' /\ NoDangling'
    BY Untouched
  <1>3. CallOK'
    BY DEF CallOK
  <1>. QED
    BY <1>1, <1>2, <1>3

LEMMA DeleteInv ==
    ASSUME UseDefAssumption, IInv, NEW v \in Values, Delete(v)
    PROVE  IInv'
  <1>. USE DEF IInv
  <1>1. /\ v \in alive /\ alive' = alive
        /\ call' = [this |-> v, new_val |-> NoValue, dtor |-> TRUE]
    BY DEF Delete
  <1>2. call' \in [this : Values \cup {NoValue},
                   new_val : Values \cup {NoValue}, dtor : BOOLEAN]
    BY <1>1
  <1>3. CASE v \in Users
    <2>1. /\ use_list' = remove_all_uses(use_list, v, operands[v])
          /\ operands' = [operands EXCEPT ![v] = <<>>]
      BY <1>3 DEF Delete
    <2>2. /\ operands' \in [Users -> Seq(Values \cup {NoValue})]
          /\ \A x \in Users : operands'[x] = IF x = v THEN <<>> ELSE operands[x]
          /\ \A x \in Users : Len(operands'[x]) <= MaxOperands
          /\ use_list' \in [Values -> [Uses -> Nat]]
          /\ PhiShape'
          /\ UseListExact'
      BY <1>3, <2>1, RemoveAllStep
    <2>3. TypeOK'
      BY <1>1, <1>2, <2>2 DEF TypeOK
    <2>4. NoDangling'
      <3>1. DOMAIN <<>> = {}
        OBVIOUS
      <3>2. ASSUME NEW x \in Users, NEW j \in DOMAIN operands'[x]
            PROVE  operands'[x][j] \in alive \cup {NoValue}
        <4>1. CASE x = v
          BY <2>2, <3>1, <4>1
        <4>2. CASE x # v
          BY <2>2, <4>2 DEF NoDangling
        <4>. QED
          BY <4>1, <4>2
      <3>3. ASSUME NEW x \in Users \ alive PROVE operands'[x] = <<>>
        BY <2>2 DEF NoDangling
      <3>. QED
        BY <1>1, <3>2, <3>3 DEF NoDangling
    <2>5. CallOK'
      BY <1>1, <2>2 DEF CallOK, UseDefAssumption
    <2>. QED
      BY <2>2, <2>3, <2>4, <2>5
  <1>4. CASE v \notin Users
    <2>1. operands' = operands /\ use_list' = use_list
      BY <1>4 DEF Delete
    <2>2. TypeOK'
      BY <1>1, <1>2, <2>1 DEF TypeOK
    <2>3. PhiShape' /\ UseListExact' /\ NoDangling'
      BY <1>1, <2>1, Untouched
    <2>4. CallOK'
      BY <1>1, <1>4, <2>1 DEF CallOK, UseDefAssumption
    <2>. QED
      BY <2>2, <2>3, <2>4
  <1>. QED
    BY <1>3, <1>4

(* The operand a use in the list of this names is this: overwriting it      *)
(* takes exactly that use off the list.                                     *)
LEMMA ReplaceUseInv ==
    ASSUME UseDefAssumption, IInv,
           NEW u \in Users, NEW i \in ArgNo, ReplaceUse(u, i)
    PROVE  IInv'
  <1>. USE DEF IInv
  <1>. DEFINE new == call.new_val
  <1>1. /\ i \in DOMAIN operands[u]
        /\ call.this \in Values /\ call.this # NoValue
        /\ new \in alive \cup {NoValue} /\ new \in Values \cup {NoValue}
        /\ use_list[call.this][<<u, i>>] > 0
        /\ use_list' = set_operand_uses(use_list, u, i, new)
        /\ operands' = [operands EXCEPT ![u][i] = new]
        /\ alive' = alive /\ call' = call
    BY DEF ReplaceUse, Idle, CallOK, TypeOK
  <1>2. operands[u][i] = call.this
    BY <1>1 DEF UseListExact
  <1>3. /\ operands' \in [Users -> Seq(Values \cup {NoValue})]
        /\ \A x \in Users : /\ Len(operands'[x]) = Len(operands[x])
                            /\ DOMAIN operands'[x] = DOMAIN operands[x]
                            /\ \A j \in DOMAIN operands[x] :
                                 operands'[x][j] = IF x = u /\ j = i THEN new
                                                   ELSE operands[x][j]
        /\ use_list' \in [Values -> [Uses -> Nat]]
        /\ UseListExact'
    BY <1>1, SetOperandExact
  <1>4. TypeOK'
    BY <1>1, <1>3 DEF TypeOK
  <1>5. PhiShape'
    <2>1. Phis \subseteq Users
      BY DEF UseDefAssumption
    <2>2. ASSUME NEW x \in Phis, NEW j \in DOMAIN operands'[x], operands'[x][j] # NoValue
          PROVE  (operands'[x][j] \in Blocks) <=> j % 2 = 0
      <3>1. CASE x = u /\ j = i
        <4>1. operands'[x][j] = new /\ new # NoValue
          BY <1>3, <2>1, <2>2, <3>1
        <4>2. call.this \notin Blocks /\ new \notin Blocks
          BY <4>1 DEF CallOK
        <4>3. ~(i % 2 = 0)
          BY <1>1, <1>2, <3>1, <4>2 DEF PhiShape
        <4>. QED
          BY <3>1, <4>1, <4>2, <4>3
      <3>2. CASE ~(x = u /\ j = i)
        <4>1. j \in DOMAIN operands[x] /\ operands'[x][j] = operands[x][j]
          BY <1>3, <2>1, <3>2
        <4>. QED
          BY <2>2, <4>1 DEF PhiShape
      <3>. QED
        BY <3>1, <3>2
    <2>3. ASSUME NEW x \in Phis PROVE Len(operands'[x]) % 2 = 0
      BY <1>3, <2>1 DEF PhiShape
    <2>. QED
      BY <2>2, <2>3 DEF PhiShape
  <1>6. NoDangling'
    <2>1. ASSUME NEW x \in Users, NEW j \in DOMAIN operands'[x]
          PROVE  operands'[x][j] \in alive \cup {NoValue}
      BY <1>1, <1>3 DEF NoDangling
    <2>2. ASSUME NEW x \in Users \ alive PROVE operands'[x] = <<>>
      <3>1. operands[x] = <<>> /\ DOMAIN <<>> = {}
        BY DEF NoDangling
      <3>2. x # u
        BY <1>1, <3>1
      <3>. QED
        BY <1>1, <3>1, <3>2 DEF TypeOK
    <2>. QED
      BY <1>1, <2>1, <2>2 DEF NoDangling
  <1>7. CallOK'
    <2>1. ASSUME call.dtor, call.this \in Users PROVE operands'[call.this] = <<>>
      <3>1. operands[call.this] = <<>> /\ DOMAIN <<>> = {}
        BY <2>1 DEF CallOK
      <3>2. call.this # u
        BY <1>1, <3>1
      <3>. QED
        BY <1>1, <2>1, <3>1, <3>2 DEF TypeOK
    <2>. QED
      BY <1>1, <2>1 DEF CallOK
  <1>. QED
    BY <1>3, <1>4, <1>5, <1>6, <1>7

(* An empty list means, by exactness, that nobody refers to this any more. *)
LEMMA ReplaceDoneInv ==
    ASSUME UseDefAssumption, IInv, ReplaceDone
    PROVE  IInv'
  <1>. USE DEF IInv
  <1>1. /\ \A w \in Uses : use_list[call.this][w] = 0
        /\ alive' = IF call.dtor THEN alive \ {call.this} ELSE alive
        /\ call' = Return
        /\ operands' = operands /\ use_list' = use_list
        /\ call.this \in Values /\ call.this # NoValue
    BY DEF ReplaceDone, Idle, TypeOK
  <1>2. TypeOK'
    BY <1>1 DEF TypeOK, Return
  <1>3. PhiShape' /\ UseListExact'
    BY <1>1, Untouched
  <1>4. ASSUME NEW x \in Users, NEW j \in DOMAIN operands[x]
        PROVE  operands[x][j] # call.this
    <2>1. operands[x] \in Seq(Values \cup {NoValue}) /\ Len(operands[x]) <= MaxOperands
      BY DEF TypeOK
    <2>2. j \in ArgNo
      BY <2>1 DEF ArgNo, UseDefAssumption
    <2>3. use_list[call.this][<<x, j>>] = 0
      BY <1>1, <2>2 DEF Uses
    <2>. QED
      BY <1>1, <2>2, <2>3 DEF UseListExact
  <1>5. NoDangling'
    <2>1. ASSUME NEW x \in Users, NEW j \in DOMAIN operands'[x]
          PROVE  operands'[x][j] \in alive' \cup {NoValue}
      BY <1>1, <1>4 DEF NoDangling
    <2>2. ASSUME NEW x \in Users \ alive' PROVE operands'[x] = <<>>
      BY <1>1 DEF NoDangling, CallOK
    <2>. QED
      BY <2>1, <2>2 DEF NoDangling
  <1>6. CallOK'
    BY <1>1 DEF CallOK, Return, UseDefAssumption
  <1>. QED
    BY <1>2, <1>3, <1>5, <1>6

-----------------------------------------------------------------------------
LEMMA NextInv ==
    ASSUME UseDefAssumption, IInv, [Next]_vars
    PROVE  IInv'
  <1>1. ASSUME NEW u \in Users, NEW v \in Values, AddOperand(u, v) PROVE IInv'
    BY <1>1, AddOperandInv
  <1>2. ASSUME NEW u \in Phis, NEW v \in Values, NEW bb \in Blocks, AddPhiPair(u, v, bb)
        PROVE  IInv'
    BY <1>2, AddPhiPairInv
  <1>3. ASSUME NEW u \in Users, NEW i \in ArgNo, NEW bb \in Blocks, SetOperand(u, i, bb)
        PROVE  IInv'
    BY <1>3, SetOperandInv
  <1>4. ASSUME NEW u \in Users, RemoveAllOperands(u) PROVE IInv'
    BY <1>4, RemoveAllOperandsInv
  <1>5. ASSUME NEW u \in Phis, NEW i \in ArgNo, RemovePhiOperand(u, i) PROVE IInv'
    BY <1>5, RemovePhiOperandInv
  <1>6. ASSUME NEW v \in Values, NEW new_val \in Values, ReplaceAllUseWith(v, new_val)
        PROVE  IInv'
    BY <1>6, ReplaceAllUseWithInv
  <1>7. ASSUME NEW v \in Values, Delete(v) PROVE IInv'
    BY <1>7, DeleteInv
  <1>8. ASSUME NEW u \in Users, NEW i \in ArgNo, ReplaceUse(u, i) PROVE IInv'
    BY <1>8, ReplaceUseInv
  <1>9. ASSUME ReplaceDone PROVE IInv'
    BY <1>9, ReplaceDoneInv
  <1>10. ASSUME UNCHANGED vars PROVE IInv'
    <2>1. UNCHANGED <<operands, use_list, alive, call>>
      BY <1>10 DEF vars
    <2>2. PhiShape' /\ UseListExact' /\ NoDangling'
      BY <2>1, Untouched
    <2>3. TypeOK'
      BY <2>1 DEF IInv, TypeOK
    <2>4. CallOK'
      BY <2>1 DEF IInv, CallOK
    <2>. QED
      BY <2>2, <2>3, <2>4 DEF IInv
  <1>. QED
    BY <1>1, <1>2, <1>3, <1>4, <1>5, <1>6, <1>7, <1>8, <1>9, <1>10 DEF Next

(* The inductive invariant holds in every reachable state. *)
THEOREM Invariance == Spec => []IInv
  <1>1. Init => IInv
    BY InitInv, UseDefAssumption
  <1>2. IInv /\ [Next]_vars => IInv'
    BY NextInv, UseDefAssumption
  <1>. QED
    BY <1>1, <1>2, PTL DEF Spec

(* lightir/User.cpp keeps operand vectors and use lists well formed. *)
THEOREM TypeCorrect == Spec => []TypeOK
  <1>1. IInv => TypeOK
    BY DEF IInv
  <1>. QED
    BY <1>1, Invariance, PTL

(* Every operand is recorded exactly once in the use list of its value, and *)
(* nowhere else, after any sequence of the operations of User and Value.    *)
THEOREM UseListsExact == Spec => []UseListExact
  <1>1. IInv => UseListExact
    BY DEF IInv
  <1>. QED
    BY <1>1, Invariance, PTL

(* Deleting values never leaves an operand or a use that points to one.     *)
THEOREM NothingDangles == Spec => []NoDangling
  <1>1. IInv => NoDangling
    BY DEF IInv
  <1>. QED
    BY <1>1, Invariance, PTL

(* The operands of a phi keep alternating between values and blocks.        *)
THEOREM PhisAlternate == Spec => []PhiShape
  <1>1. IInv => PhiShape
    BY DEF IInv
  <1>. QED
    BY <1>1, Invariance, PTL

=============================================================================
