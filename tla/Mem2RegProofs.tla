---------------------------- MODULE Mem2RegProofs ----------------------------
(***************************************************************************)
(* Mem2Reg leaves a function that does what the function as written does   *)
(* to its variables, for every graph, every number of variables and every  *)
(* program; and what that rests on: where the phis are, what the stacks    *)
(* hold, which blocks are renamed.                                         *)
(***************************************************************************)
EXTENDS Mem2Reg, FlowGraphProofs

-----------------------------------------------------------------------------
(* The function that is compiled.                                           *)
Instructions == [op : {"load", "store"}, var : Vars, rval : Nat]

CodeInv ==
    /\ succ_bbs \in Graphs
    /\ code \in [Blocks -> Seq(Instructions)]
    /\ \A b \in Blocks : \A i \in DOMAIN code[b] :
          LET l == code[b][i].rval
          IN  l # 0 => l \in DOMAIN code[b] /\ l < i /\ code[b][l].op = "load"

dom == DominatedBy(succ_bbs, Entry)
all == All(succ_bbs, Entry)

(* The phases: what has not begun is empty.                                 *)
PhaseInv ==
    /\ phase \in {"write", "phi", "rename", "done", "crash"}
    /\ phase \in {"write", "phi"} =>
          /\ path = <<>> /\ bb_rename = {} /\ erased = {} /\ replaced = <<>> /\ tops = <<>>
          /\ var_val_stack = [x \in Vars |-> <<>>]
          /\ \A p \in DOMAIN phi_args : phi_args[p] = <<>>
    /\ phase = "write" => phis = [b \in Blocks |-> <<>>] /\ work_list = {}
    /\ phase \in {"rename", "done", "crash"} => var_todo = {} /\ work_list = {}
    /\ at # NoBlock => phase = "done" /\ at \in all /\ done \in 0 .. Len(code[at])
    /\ at = NoBlock => done = 0 /\ env = <<>>

LEMMA Graph ==
    ASSUME CodeInv
    PROVE  /\ IsFlowGraph(succ_bbs, Entry)
           /\ Blocks = 1 .. Len(succ_bbs) /\ Len(succ_bbs) \in Nat /\ Entry \in Blocks
           /\ \A b \in Blocks : ToSet(succ_bbs[b]) \subseteq Blocks \ {Entry}
<1>1. succ_bbs \in Seq(Seq(Nat)) /\ succ_bbs # <<>>
  BY Mem2RegAssumption DEF CodeInv, Mem2RegAssumption
<1>2. Blocks = 1 .. Len(succ_bbs) /\ Len(succ_bbs) \in Nat /\ Entry \in Blocks
  BY <1>1 DEF Blocks, Entry
<1>3. \A b \in Blocks : ToSet(succ_bbs[b]) \subseteq Blocks \ {Entry}
  <2>1. \A b \in Blocks : ToSet(succ_bbs[b]) \subseteq 2 .. Len(succ_bbs)
    BY Mem2RegAssumption DEF CodeInv, Mem2RegAssumption, Blocks
  <2> QED
    BY <1>2, <2>1 DEF Entry
<1>4. IsFiniteSet(Blocks)
  BY <1>2, FS_Interval
<1> QED
  BY <1>2, <1>3, <1>4 DEF IsFlowGraph, IsGraph, Blocks

LEMMA Types ==
    ASSUME CodeInv, NEW b \in Blocks
    PROVE  /\ code[b] \in Seq(Instructions) /\ Len(code[b]) \in Nat
           /\ DOMAIN code[b] = 1 .. Len(code[b])
           /\ \A i \in DOMAIN code[b] : /\ code[b][i] \in Instructions
                                        /\ code[b][i].op \in {"load", "store"}
                                        /\ code[b][i].var \in Vars
                                        /\ code[b][i].rval \in Nat
<1>1. code[b] \in Seq(Instructions)
  BY DEF CodeInv
<1>2. Len(code[b]) \in Nat /\ DOMAIN code[b] = 1 .. Len(code[b])
  BY <1>1
<1>3. \A i \in DOMAIN code[b] : code[b][i] \in Instructions
  BY <1>1
<1> QED
  BY <1>1, <1>2, <1>3 DEF Instructions

-----------------------------------------------------------------------------
LEMMA CodeInit == Init => CodeInv /\ PhaseInv
<1> SUFFICES ASSUME Init PROVE CodeInv /\ PhaseInv
  OBVIOUS
<1>1. CodeInv
  <2>1. <<>> \in Seq(Instructions) /\ DOMAIN <<>> = {}
    OBVIOUS
  <2>2. succ_bbs \in Graphs /\ code = [b \in Blocks |-> <<>>]
    BY DEF Init
  <2>3. \A b \in Blocks : DOMAIN code[b] = {}
    BY <2>1, <2>2
  <2> QED
    BY <2>1, <2>2, <2>3 DEF CodeInv
<1>2. PhaseInv
  BY DEF Init, PhaseInv
<1> QED
  BY <1>1, <1>2

LEMMA CodeWritten ==
    ASSUME CodeInv, PhaseInv, NEW b \in Blocks, NEW ins \in Instrs(b), WriteInstr(b, ins)
    PROVE  CodeInv'
<1>1. /\ code' = [code EXCEPT ![b] = Append(@, ins)] /\ succ_bbs' = succ_bbs
      /\ Blocks' = Blocks
  BY DEF WriteInstr, Blocks
<1>2. /\ ins \in Instructions
      /\ ins.rval # 0 => ins.rval \in DOMAIN code[b] /\ code[b][ins.rval].op = "load"
  BY Types DEF Instrs, Instructions
<1>3. code \in [Blocks -> Seq(Instructions)]
  BY DEF CodeInv
<1>4. code' \in [Blocks -> Seq(Instructions)]
  BY <1>1, <1>2, <1>3
<1>5. ASSUME NEW c \in Blocks, NEW i \in DOMAIN code'[c], code'[c][i].rval # 0
      PROVE  LET l == code'[c][i].rval
             IN  l \in DOMAIN code'[c] /\ l < i /\ code'[c][l].op = "load"
  <2>1. CASE c # b
    BY <1>1, <1>3, <1>5, <2>1 DEF CodeInv
  <2>2. CASE c = b
    <3>1. PICK n \in Nat : n = Len(code[b])
      BY Types
    <3>2. /\ code'[c] = Append(code[b], ins)
          /\ DOMAIN code'[c] = 1 .. n + 1 /\ DOMAIN code[b] = 1 .. n
          /\ code'[c][n + 1] = ins
          /\ \A k \in 1 .. n : code'[c][k] = code[b][k]
      BY <1>1, <1>2, <1>3, <2>2, <3>1
    <3>3. CASE i = n + 1
      BY <1>2, <1>5, <3>2, <3>3
    <3>4. CASE i # n + 1
      <4>1. i \in 1 .. n
        BY <3>2, <3>4
      <4>2. LET l == code[b][i].rval
            IN  l \in DOMAIN code[b] /\ l < i /\ code[b][l].op = "load"
        BY <1>5, <3>2, <4>1 DEF CodeInv
      <4> QED
        BY <3>2, <4>1, <4>2
    <3> QED
      BY <3>3, <3>4
  <2> QED
    BY <2>1, <2>2
<1> QED
  BY <1>1, <1>4, <1>5 DEF CodeInv

LEMMA CodeNext == CodeInv /\ PhaseInv /\ [Next]_vars => CodeInv'
<1> SUFFICES ASSUME CodeInv, PhaseInv, [Next]_vars PROVE CodeInv'
  OBVIOUS
<1>1. CASE \E b \in Blocks : \E ins \in Instrs(b) : WriteInstr(b, ins)
  BY <1>1, CodeWritten
<1>2. CASE UNCHANGED program_vars
  BY <1>2 DEF program_vars, CodeInv, Blocks
<1> QED
  BY <1>1, <1>2 DEF Next, Compile, vars, Run, NextVar, PlacePhis, RenameEntry, RenameChild,
     Rename, RenameReturn, Call, Execute, Branch, BranchTo

(* Once the function is written it stays.                                   *)
LEMMA ProgramStays ==
    ASSUME [Next]_vars
    PROVE  /\ succ_bbs' = succ_bbs /\ Blocks' = Blocks /\ all' = all /\ dom' = dom
           /\ phase # "write" => code' = code
<1>1. succ_bbs' = succ_bbs /\ (phase # "write" => code' = code)
  BY DEF Next, Compile, vars, Run, NextVar, PlacePhis, RenameEntry, RenameChild, WriteInstr,
     Rename, RenameReturn, Call, Execute, Branch, BranchTo, program_vars
<1> QED
  BY <1>1 DEF Blocks, all, dom

LEMMA PhaseNext == CodeInv /\ PhaseInv /\ [Next]_vars => PhaseInv'
<1> SUFFICES ASSUME CodeInv, PhaseInv, [Next]_vars PROVE PhaseInv'
  OBVIOUS
<1>0. Blocks' = Blocks /\ all' = all
  BY ProgramStays
<1> USE <1>0 DEF PhaseInv
<1>1. ASSUME NEW b \in Blocks, NEW ins \in Instrs(b), WriteInstr(b, ins) PROVE PhaseInv'
  BY <1>1 DEF WriteInstr, dom_vars, phi_vars, rename_vars, exec_vars
<1>2. CASE Run
  BY <1>2 DEF Run, program_vars, rename_vars, exec_vars
<1>3. ASSUME NEW x \in Vars, NextVar(x) PROVE PhaseInv'
  BY <1>3 DEF NextVar, program_vars, dom_vars, rename_vars, exec_vars
<1>4. ASSUME NEW bb \in Blocks, PlacePhis(bb) PROVE PhaseInv'
  <2> DEFINE fresh == {b \in dom_frontier[bb] : ~has_phi(b, var)}
             new == [p \in {phi_of(b, var) : b \in fresh} |-> <<>>]
  <2>1. phi_args' = over(phi_args, new) /\ phase = "phi"
    BY <1>4 DEF PlacePhis
  <2>2. \A p \in DOMAIN new : new[p] = <<>>
    OBVIOUS
  <2> HIDE DEF new
  <2>3. \A p \in DOMAIN phi_args' : phi_args'[p] = <<>>
    BY <2>1, <2>2 DEF over
  <2> QED
    BY <1>4, <2>3 DEF PlacePhis, program_vars, dom_vars, exec_vars
<1>5. ASSUME NEW bb, Rename(bb), phase \in {"phi", "rename"}, var_todo = {}, work_list = {}
      PROVE  PhaseInv'
  BY <1>5 DEF Rename, program_vars, dom_vars, phi_vars, exec_vars
<1>6. CASE RenameReturn
  BY <1>6 DEF RenameReturn, program_vars, dom_vars, phi_vars, exec_vars
<1>7. CASE Call
  <2>1. Entry \in all /\ Entry # NoBlock
    BY Graph, DomValue DEF all, Entry, NoBlock
  <2>2. 0 \in 0 .. Len(code[Entry])
    BY Graph, Types
  <2> QED
    BY <1>7, <2>1, <2>2 DEF Call, program_vars, dom_vars, phi_vars, rename_vars
<1>8. CASE Execute
  <2>1. at \in Blocks /\ Len(code[at]) \in Nat
    BY <1>8, Graph, DomValue, Types DEF Execute, all
  <2>2. done' \in 0 .. Len(code[at])
    BY <1>8, <2>1 DEF Execute
  <2> QED
    BY <1>8, <2>2 DEF Execute, program_vars, dom_vars, phi_vars, rename_vars
<1>9. CASE Branch
  <2>1. PICK b \in ToSet(succ_bbs[at]) : at' = b
    BY <1>9 DEF Branch, BranchTo
  <2>2. b \in all /\ b \in Blocks /\ b # NoBlock
    BY <1>9, <2>1, Graph, DomValue DEF all, Branch, BranchTo, NoBlock
  <2>3. 0 \in 0 .. Len(code[b])
    BY <2>2, Types
  <2> QED
    BY <1>9, <2>1, <2>2, <2>3 DEF Branch, BranchTo, program_vars, dom_vars, phi_vars, rename_vars
<1>10. CASE UNCHANGED vars
  BY <1>10 DEF vars, program_vars, dom_vars, phi_vars, rename_vars, exec_vars
<1> QED
  BY <1>1, <1>2, <1>3, <1>4, <1>5, <1>6, <1>7, <1>8, <1>9, <1>10
     DEF Next, Compile, RenameEntry, RenameChild

-----------------------------------------------------------------------------
(* generate_phi.  The blocks that store to a variable, those that have a    *)
(* phi for it, and those still on its work list.                            *)
storing(x) == {b \in Blocks : stores(b, x) # {}}
having(x)  == {b \in Blocks : has_phi(b, x)}
pending(x) == IF x = var THEN work_list ELSE {}

FrontierOf == [b \in Blocks |-> IF b \in all THEN Frontier(succ_bbs, dom, b) ELSE {}]
ChildrenOf == [b \in Blocks |-> IF b \in all THEN Children(dom, b) ELSE {}]

(* The set is closed under the frontiers of the stores and its own.         *)
FrontierClosed(x, S) == \A b \in storing(x) \cup S : dom_frontier[b] \subseteq S

PhisInv ==
    /\ phis \in [Blocks -> Seq(Vars)]
    /\ \A p \in DOMAIN phi_args : \E b \in Blocks, x \in Vars : has_phi(b, x) /\ p = phi_of(b, x)
    /\ \A b \in Blocks, x \in Vars : has_phi(b, x) => phi_of(b, x) \in DOMAIN phi_args
    /\ phase # "write" => dom_frontier = FrontierOf /\ dom_tree_succ = ChildrenOf

PlacedInv ==
    phase # "write" =>
        /\ var_todo \subseteq Vars
        /\ work_list # {} => var \in Vars \ var_todo
        /\ work_list \subseteq storing(var) \cup having(var)
        /\ \A x \in var_todo : having(x) = {}
        /\ \A x \in Vars \ var_todo : \A b \in (storing(x) \cup having(x)) \ pending(x) :
              dom_frontier[b] \subseteq having(x)
        /\ \A x \in Vars : \A S \in SUBSET Blocks : FrontierClosed(x, S) => having(x) \subseteq S

LEMMA ToSetPrepend ==
    ASSUME NEW S, NEW s \in Seq(S), NEW v \in S
    PROVE  /\ <<v>> \o s \in Seq(S)
           /\ ToSet(<<v>> \o s) = {v} \cup ToSet(s)
<1>1. PICK n \in Nat : n = Len(s)
  OBVIOUS
<1> DEFINE t == <<v>> \o s
<1>2. t \in Seq(S) /\ DOMAIN t = 1 .. n + 1 /\ DOMAIN s = 1 .. n
  BY <1>1
<1>3. t[1] = v /\ \A i \in 1 .. n : t[i + 1] = s[i]
  BY <1>1
<1> HIDE DEF t
<1>4. \A i \in 1 .. n + 1 : i = 1 \/ (i - 1 \in 1 .. n /\ (i - 1) + 1 = i)
  BY <1>1
<1>5. ToSet(t) \subseteq {v} \cup ToSet(s)
  <2> SUFFICES ASSUME NEW i \in 1 .. n + 1 PROVE t[i] \in {v} \cup ToSet(s)
    BY <1>2 DEF ToSet
  <2>1. CASE i = 1
    BY <1>3, <2>1
  <2>2. CASE i - 1 \in 1 .. n /\ (i - 1) + 1 = i
    <3>1. t[i] = s[i - 1]
      BY <1>3, <2>2
    <3> QED
      BY <1>2, <2>2, <3>1 DEF ToSet
  <2> QED
    BY <1>4, <2>1, <2>2
<1>6. {v} \cup ToSet(s) \subseteq ToSet(t)
  <2>1. 1 \in 1 .. n + 1 /\ \A i \in 1 .. n : i + 1 \in 1 .. n + 1
    OBVIOUS
  <2> QED
    BY <1>2, <1>3, <2>1 DEF ToSet
<1> QED
  BY <1>2, <1>5, <1>6 DEF t

LEMMA EmptySequence ==
    ASSUME NEW S, NEW s \in Seq(S), Len(s) = 0
    PROVE  s = <<>>
OBVIOUS

LEMMA ToSetIn ==
    ASSUME NEW S, NEW s \in Seq(S)
    PROVE  ToSet(s) \subseteq S
BY DEF ToSet

LEMMA FrontierIn ==
    ASSUME CodeInv
    PROVE  FrontierOf \in [Blocks -> SUBSET Blocks] /\ ChildrenOf \in [Blocks -> SUBSET Blocks]
<1>1. IsFlowGraph(succ_bbs, Entry)
  BY Graph
<1>2. /\ DOMAIN dom = all /\ all \subseteq Blocks
      /\ \A a \in all : dom[a] \subseteq all
  BY <1>1, DomValue DEF dom, all, Blocks
<1> QED
  BY <1>2 DEF FrontierOf, ChildrenOf, Frontier, Children

LEMMA PhisInit == Init => PhisInv /\ PlacedInv
<1> SUFFICES ASSUME Init PROVE PhisInv /\ PlacedInv
  OBVIOUS
<1>1. phis = [b \in Blocks |-> <<>>] /\ phase = "write" /\ phi_args = <<>>
  BY DEF Init
<1>2. \A b \in Blocks, x \in Vars : ~has_phi(b, x)
  BY <1>1 DEF has_phi, ToSet
<1>3. phis \in [Blocks -> Seq(Vars)]
  BY <1>1
<1>4. DOMAIN phi_args = {}
  BY <1>1
<1> QED
  BY <1>1, <1>2, <1>3, <1>4 DEF PhisInv, PlacedInv

(* The phis a step of generate_phi adds.                                    *)
LEMMA PhisPlaced ==
    ASSUME CodeInv, PhaseInv, PhisInv, PlacedInv, [Next]_vars, NEW bb \in Blocks, PlacePhis(bb)
    PROVE  LET fresh == {b \in dom_frontier[bb] : ~has_phi(b, var)}
           IN  /\ fresh \subseteq Blocks /\ var \in Vars
               /\ phis' \in [Blocks -> Seq(Vars)]
               /\ \A b \in Blocks, x \in Vars :
                     has_phi(b, x)' <=> has_phi(b, x) \/ (x = var /\ b \in fresh)
               /\ DOMAIN phi_args' = DOMAIN phi_args \cup {phi_of(b, var) : b \in fresh}
<1> DEFINE fresh == {b \in dom_frontier[bb] : ~has_phi(b, var)}
<1>1. /\ phase = "phi" /\ bb \in work_list
      /\ phis' = [b \in Blocks |-> IF b \in fresh THEN <<var>> \o phis[b] ELSE phis[b]]
      /\ phi_args' = over(phi_args, [p \in {phi_of(b, var) : b \in fresh} |-> <<>>])
  BY DEF PlacePhis
<1>2. var \in Vars /\ phis \in [Blocks -> Seq(Vars)] /\ dom_frontier = FrontierOf
  BY <1>1 DEF PlacedInv, PhisInv
<1>3. fresh \subseteq Blocks
  BY <1>2, FrontierIn
<1>4. ASSUME NEW b \in Blocks
      PROVE  /\ phis'[b] \in Seq(Vars)
             /\ ToSet(phis'[b]) = ToSet(phis[b]) \cup (IF b \in fresh THEN {var} ELSE {})
  <2>1. phis[b] \in Seq(Vars)
    BY <1>2
  <2>2. CASE b \in fresh
    BY <1>1, <1>2, <2>1, <2>2, ToSetPrepend
  <2>3. CASE b \notin fresh
    BY <1>1, <2>1, <2>3
  <2> QED
    BY <2>2, <2>3
<1>5. phis' \in [Blocks -> Seq(Vars)]
  BY <1>1, <1>4
<1>6. DOMAIN phi_args' = DOMAIN phi_args \cup {phi_of(b, var) : b \in fresh}
  BY <1>1 DEF over
<1>7. \A b \in Blocks, x \in Vars :
          has_phi(b, x)' <=> has_phi(b, x) \/ (x = var /\ b \in fresh)
  BY <1>4 DEF has_phi
<1> QED
  BY <1>2, <1>3, <1>5, <1>6, <1>7

LEMMA PhisNext == CodeInv /\ PhaseInv /\ PhisInv /\ PlacedInv /\ [Next]_vars => PhisInv'
<1> SUFFICES ASSUME CodeInv, PhaseInv, PhisInv, PlacedInv, [Next]_vars PROVE PhisInv'
  OBVIOUS
<1>0. Blocks' = Blocks /\ FrontierOf' = FrontierOf /\ ChildrenOf' = ChildrenOf
  <2>1. succ_bbs' = succ_bbs /\ Blocks' = Blocks /\ all' = all /\ dom' = dom
    BY ProgramStays
  <2> QED
    BY <2>1 DEF FrontierOf, ChildrenOf
<1>1. ASSUME phis' = phis, DOMAIN phi_args' = DOMAIN phi_args, UNCHANGED dom_vars,
             phase # "write" \/ phase' = "write"
      PROVE  PhisInv'
  BY <1>0, <1>1 DEF PhisInv, dom_vars, has_phi
<1>2. CASE Run
  <2>1. phis' = phis /\ phi_args' = phi_args
    BY <1>2 DEF Run, phi_vars, rename_vars
  <2>2. dom_frontier' = FrontierOf /\ dom_tree_succ' = ChildrenOf
    <3>1. DOMAIN dom = all
      BY Graph, DomValue DEF dom, all
    <3> QED
      BY <1>2, <3>1 DEF Run, FrontierOf, ChildrenOf, dom
  <2> QED
    BY <1>0, <2>1, <2>2 DEF PhisInv, has_phi
<1>3. ASSUME NEW bb \in Blocks, PlacePhis(bb) PROVE PhisInv'
  <2> DEFINE fresh == {b \in dom_frontier[bb] : ~has_phi(b, var)}
  <2>1. /\ fresh \subseteq Blocks /\ var \in Vars
        /\ phis' \in [Blocks -> Seq(Vars)]
        /\ \A b \in Blocks, x \in Vars :
              has_phi(b, x)' <=> has_phi(b, x) \/ (x = var /\ b \in fresh)
        /\ DOMAIN phi_args' = DOMAIN phi_args \cup {phi_of(b, var) : b \in fresh}
    BY <1>3, PhisPlaced
  <2>2. UNCHANGED dom_vars /\ phase # "write"
    BY <1>3 DEF PlacePhis
  <2> HIDE DEF fresh
  <2>3. \A b \in fresh, x \in Vars : x = var => has_phi(b, x)'
    BY <2>1
  <2>4. \A p \in DOMAIN phi_args' : \E b \in Blocks, x \in Vars : has_phi(b, x)' /\ p = phi_of(b, x)
    BY <2>1, <2>3 DEF PhisInv
  <2>5. \A b \in Blocks, x \in Vars : has_phi(b, x)' => phi_of(b, x) \in DOMAIN phi_args'
    BY <2>1 DEF PhisInv
  <2> QED
    BY <1>0, <2>1, <2>2, <2>4, <2>5 DEF PhisInv, dom_vars
<1>4. ASSUME NEW bb, Rename(bb), phase # "write" PROVE PhisInv'
  <2>1. DOMAIN phi_args' = DOMAIN phi_args
    BY <1>4 DEF Rename, FillPhis
  <2>2. phis' = phis /\ UNCHANGED dom_vars
    BY <1>4 DEF Rename, phi_vars
  <2> QED
    BY <1>1, <1>4, <2>1, <2>2
<1> QED
  BY <1>1, <1>2, <1>3, <1>4
     DEF Next, Compile, RenameEntry, RenameChild, vars, NextVar, WriteInstr,
         RenameReturn, Call, Execute, Branch, BranchTo, phi_vars, rename_vars

LEMMA PlacedNext == CodeInv /\ PhaseInv /\ PhisInv /\ PlacedInv /\ [Next]_vars => PlacedInv'
<1> SUFFICES ASSUME CodeInv, PhaseInv, PhisInv, PlacedInv, [Next]_vars, phase' # "write"
             PROVE  PlacedInv'
  BY DEF PlacedInv
<1>0. Blocks' = Blocks /\ (phase # "write" => code' = code)
  BY ProgramStays
<1>1. ASSUME UNCHANGED <<code, dom_vars, phi_vars>>, phase # "write"
      PROVE  PlacedInv'
  BY <1>0, <1>1 DEF PlacedInv, dom_vars, phi_vars, storing, having, pending, FrontierClosed,
     stores, is_store, has_phi
<1>2. CASE Run
  <2>1. /\ phis' = phis /\ phis = [b \in Blocks |-> <<>>] /\ code' = code
        /\ work_list' = {} /\ var' = var
        /\ var_todo' = {x \in Vars : \E b \in Blocks : stores(b, x) # {}}
    BY <1>2 DEF Run, phi_vars, rename_vars, program_vars, PhaseInv
  <2>2. \A x : having(x)' = {}
    BY <1>0, <2>1 DEF having, has_phi, ToSet
  <2>3. \A x \in Vars \ var_todo' : storing(x)' = {}
    BY <1>0, <2>1 DEF storing, stores, is_store
  <2> QED
    BY <2>1, <2>2, <2>3 DEF PlacedInv
<1>3. ASSUME NEW x \in Vars, NextVar(x) PROVE PlacedInv'
  <2>1. /\ phase = "phi" /\ work_list = {} /\ x \in var_todo /\ var' = x
        /\ var_todo' = var_todo \ {x} /\ work_list' = storing(x)
        /\ code' = code /\ phis' = phis /\ dom_frontier' = dom_frontier
    BY <1>3 DEF NextVar, program_vars, dom_vars, storing
  <2>2. \A y : storing(y)' = storing(y) /\ having(y)' = having(y)
    BY <1>0, <2>1 DEF storing, having, stores, is_store, has_phi
  <2>3. \A y \in Vars : \A S : FrontierClosed(y, S)' <=> FrontierClosed(y, S)
    BY <2>1, <2>2 DEF FrontierClosed
  <2>4. ASSUME NEW y \in Vars \ var_todo', NEW b \in (storing(y) \cup having(y)) \ pending(y)'
        PROVE  dom_frontier[b] \subseteq having(y)
    <3>1. CASE y = x
      BY <2>1, <2>2, <2>4, <3>1 DEF PlacedInv, pending
    <3>2. CASE y # x
      BY <2>1, <2>2, <2>4, <3>2 DEF PlacedInv, pending
    <3> QED
      BY <3>1, <3>2
  <2> QED
    BY <1>0, <2>1, <2>2, <2>3, <2>4 DEF PlacedInv
<1>4. ASSUME NEW bb \in Blocks, PlacePhis(bb) PROVE PlacedInv'
  <2>0. PICK v \in Vars : v = var
    BY <1>4, PhisPlaced
  <2> DEFINE fresh == {b \in dom_frontier[bb] : ~has_phi(b, v)}
  <2>1. /\ fresh \subseteq Blocks
        /\ \A b \in Blocks, x \in Vars :
              has_phi(b, x)' <=> has_phi(b, x) \/ (x = v /\ b \in fresh)
    BY <1>4, <2>0, PhisPlaced
  <2>2. /\ phase = "phi" /\ bb \in work_list /\ var = v /\ var' = v /\ var_todo' = var_todo
        /\ work_list' = (work_list \ {bb}) \cup fresh
        /\ code' = code /\ dom_frontier' = dom_frontier
    BY <1>4, <2>0 DEF PlacePhis, program_vars, dom_vars
  <2>3. /\ \A y : storing(y)' = storing(y)
        /\ \A y \in Vars \ {v} : having(y)' = having(y)
        /\ having(v)' = having(v) \cup fresh
    BY <1>0, <2>1, <2>2 DEF storing, having, stores, is_store
  <2>4. v \notin var_todo /\ work_list \subseteq storing(v) \cup having(v)
    BY <2>2 DEF PlacedInv
  <2>5. dom_frontier[bb] \subseteq having(v)'
    <3>1. dom_frontier[bb] \subseteq Blocks
      BY <2>2, FrontierIn DEF PhisInv
    <3>2. \A b \in dom_frontier[bb] : b \in fresh \/ has_phi(b, v)
      OBVIOUS
    <3> HIDE DEF fresh
    <3> QED
      BY <2>3, <3>1, <3>2 DEF having
  <2>6. \A S : FrontierClosed(v, S) /\ having(v) \subseteq S => having(v)' \subseteq S
    <3>1. fresh \subseteq dom_frontier[bb]
      OBVIOUS
    <3> HIDE DEF fresh
    <3> QED
      BY <2>2, <2>3, <2>4, <3>1 DEF FrontierClosed
  <2> HIDE DEF fresh
  <2>7. ASSUME NEW y \in Vars \ var_todo, NEW b \in (storing(y) \cup having(y)') \ pending(y)'
        PROVE  dom_frontier[b] \subseteq having(y)'
    <3>1. CASE y = v
      <4>1. b \notin work_list'
        BY <2>2, <2>7, <3>1 DEF pending
      <4>2. b = bb \/ b \in (storing(y) \cup having(y)) \ pending(y)
        BY <2>2, <2>3, <2>7, <3>1, <4>1 DEF pending
      <4>3. ASSUME b # bb PROVE dom_frontier[b] \subseteq having(y)
        BY <4>2, <4>3, <2>2, <2>7 DEF PlacedInv
      <4> QED
        BY <2>3, <2>5, <3>1, <4>3
    <3>2. CASE y # v
      <4>1. b \in (storing(y) \cup having(y)) \ pending(y)
        BY <2>2, <2>3, <2>7, <3>2 DEF pending
      <4> QED
        BY <2>2, <2>3, <2>7, <3>2, <4>1 DEF PlacedInv
    <3> QED
      BY <3>1, <3>2
  <2>8. ASSUME NEW y \in Vars, NEW S \in SUBSET Blocks, FrontierClosed(y, S)'
        PROVE  having(y)' \subseteq S
    <3>1. FrontierClosed(y, S)
      <4>1. storing(y)' = storing(y) /\ dom_frontier' = dom_frontier
        BY <2>2, <2>3
      <4> QED
        BY <2>8, <4>1 DEF FrontierClosed
    <3>2. having(y) \subseteq S
      BY <2>2, <3>1 DEF PlacedInv
    <3> QED
      BY <2>3, <2>6, <3>1, <3>2
  <2>9. \A y \in var_todo : having(y)' = {}
    BY <2>2, <2>3, <2>4 DEF PlacedInv
  <2>10. work_list' \subseteq storing(v) \cup having(v)'
    BY <2>2, <2>3, <2>4
  <2>11. var_todo \subseteq Vars /\ v \in Vars \ var_todo
    BY <2>1, <2>2, <2>4 DEF PlacedInv
  <2> QED
    BY <1>0, <2>2, <2>3, <2>7, <2>8, <2>9, <2>10, <2>11 DEF PlacedInv
<1>5. ASSUME NEW b \in Blocks, NEW ins, WriteInstr(b, ins) PROVE PlacedInv'
  BY <1>5 DEF WriteInstr
<1> QED
  BY <1>1, <1>2, <1>3, <1>4, <1>5
     DEF Next, Compile, RenameEntry, RenameChild, vars, Rename,
         RenameReturn, Call, Execute, Branch, BranchTo, program_vars

Safe == CodeInv /\ PhaseInv /\ PhisInv /\ PlacedInv

LEMMA SafeNext == Safe /\ [Next]_vars => Safe'
BY CodeNext, PhaseNext, PhisNext, PlacedNext DEF Safe

(* What the phi phase leaves: the phis of x are closed under the frontiers. *)
LEMMA PlacedClosed ==
    ASSUME Safe, phase \in {"rename", "done", "crash"}, NEW x \in Vars
    PROVE  /\ FrontierClosed(x, having(x))
           /\ \A S \in SUBSET Blocks : FrontierClosed(x, S) => having(x) \subseteq S
BY DEF Safe, PhaseInv, PlacedInv, FrontierClosed, pending

LEMMA PlacedFrontier == Safe => PhisAtFrontier
<1> SUFFICES ASSUME Safe, phase \in {"rename", "done"}, NEW x \in Vars
             PROVE  /\ UNION {dom_frontier[b] : b \in storing(x) \cup having(x)} \subseteq having(x)
                    /\ \A S \in SUBSET having(x) :
                          UNION {dom_frontier[b] : b \in storing(x) \cup S} \subseteq S => S = having(x)
  BY DEF PhisAtFrontier, storing, having
<1>1. having(x) \subseteq Blocks
  BY DEF having
<1>2. FrontierClosed(x, having(x))
  BY PlacedClosed
<1>3. UNION {dom_frontier[b] : b \in storing(x) \cup having(x)} \subseteq having(x)
  BY <1>2 DEF FrontierClosed
<1>4. ASSUME NEW S \in SUBSET having(x),
             UNION {dom_frontier[b] : b \in storing(x) \cup S} \subseteq S
      PROVE  S = having(x)
  <2>1. FrontierClosed(x, S)
    BY <1>4 DEF FrontierClosed
  <2>2. S \in SUBSET Blocks
    BY <1>1
  <2>3. having(x) \subseteq S
    BY <2>1, <2>2, PlacedClosed
  <2> QED
    BY <2>3
<1> QED
  BY <1>3, <1>4

(* Spec keeps the parts of the invariant that follow so far.                *)
LEMMA SafeAlways == Spec => []Safe
<1>1. Init => Safe
  BY CodeInit, PhisInit DEF Safe
<1> QED
  BY <1>1, SafeNext, PTL DEF Spec

(* The phis stand at the iterated dominance frontier of the stores, for     *)
(* every graph and program: generate_phi's work list is exhausted only when *)
(* the blocks with a phi are closed under the frontiers, and no block gets  *)
(* one without need.                                                        *)
THEOREM PhisPlacedRight == Spec => []PhisAtFrontier
BY SafeAlways, PlacedFrontier, PTL

-----------------------------------------------------------------------------
(* rename.  The value a variable has after n instructions of a block, when  *)
(* t is its value as the block begins and map replaces the loads.           *)
until(b, n, x) == {i \in stores(b, x) : i <= n}

latest(S) == CHOOSE i \in S : \A j \in S : j <= i

ReachingIn(map, t, b, n, x) ==
    IF until(b, n, x) = {} THEN t ELSE get_rval(map, b, latest(until(b, n, x)))

is_load(b, i) == i \in DOMAIN code[b] /\ code[b][i].op = "load"

Kinds        == {"none", "phi", "load", "value"}
Values       == Kinds \X Nat \X (Nat \cup Vars)
Maps         == UNION {[D -> Values] : D \in SUBSET Values}
RenameStates == [stack : [Vars -> Seq(Values)], replaced : Maps, ok : BOOLEAN]

LEMMA Latest ==
    ASSUME NEW n \in Nat, NEW S \in SUBSET (0 .. n), S # {}
    PROVE  latest(S) \in S /\ \A j \in S : j <= latest(S)
<1> DEFINE T == {n - i : i \in S}
<1>1. T \in SUBSET Nat /\ T # {}
  <2>1. \A i \in S : i \in 0 .. n /\ n - i \in Nat
    OBVIOUS
  <2> QED
    BY <2>1
<1>2. PICK m \in T : \A k \in T : m <= k
  <2> HIDE DEF T
  <2> QED
    BY <1>1, LeastNumber
<1>3. PICK i \in S : m = n - i
  BY <1>2
<1>4. ASSUME NEW j \in S PROVE j <= i
  <2>1. j \in 0 .. n /\ i \in 0 .. n /\ n - i <= n - j
    BY <1>2, <1>3
  <2> QED
    BY <2>1
<1> QED
  BY <1>3, <1>4 DEF latest

LEMMA StoreOrLoad ==
    ASSUME CodeInv, NEW b \in Blocks, NEW i \in DOMAIN code[b]
    PROVE  /\ i \in Nat /\ code[b][i].var \in Vars
           /\ is_load(b, i) => \A x : i \notin stores(b, x)
           /\ ~is_load(b, i) => code[b][i].op = "store" /\ i \in stores(b, code[b][i].var)
           /\ \A x : x # code[b][i].var => i \notin stores(b, x)
           /\ code[b][i].rval = 0 \/ (is_load(b, code[b][i].rval) /\ code[b][i].rval < i)
<1>1. /\ i \in Nat /\ code[b][i].op \in {"load", "store"} /\ code[b][i].var \in Vars
  BY Types
<1>2. code[b][i].rval = 0 \/ (is_load(b, code[b][i].rval) /\ code[b][i].rval < i)
  BY DEF CodeInv, is_load
<1> QED
  BY <1>1, <1>2 DEF stores, is_store, is_load

LEMMA Until ==
    ASSUME CodeInv, NEW b \in Blocks, NEW n \in Nat, NEW x
    PROVE  /\ until(b, n, x) \in SUBSET (0 .. n) /\ until(b, n, x) \subseteq stores(b, x)
           /\ stores(b, x) \subseteq DOMAIN code[b] /\ DOMAIN code[b] \subseteq Nat \ {0}
           /\ IsFiniteSet(until(b, n, x)) /\ Cardinality(until(b, n, x)) \in Nat
           /\ until(b, 0, x) = {}
           /\ until(b, Len(code[b]), x) = stores(b, x)
           /\ (n + 1) \in stores(b, x) => until(b, n + 1, x) = until(b, n, x) \cup {n + 1}
           /\ n + 1 \notin stores(b, x) => until(b, n + 1, x) = until(b, n, x)
<1>1. PICK l \in Nat : l = Len(code[b]) /\ DOMAIN code[b] = 1 .. l
  BY Types
<1>2. stores(b, x) \subseteq DOMAIN code[b]
  BY DEF stores
<1>3. \A i \in stores(b, x) : i \in Nat \ {0} /\ i <= l
  BY <1>1, <1>2
<1>4. until(b, n, x) \in SUBSET (0 .. n) /\ until(b, n, x) \subseteq stores(b, x)
  BY <1>3 DEF until
<1>5. IsFiniteSet(until(b, n, x)) /\ Cardinality(until(b, n, x)) \in Nat
  <2>1. IsFiniteSet(0 .. n)
    BY FS_Interval
  <2> QED
    BY <1>4, <2>1, FS_Subset, FS_CardinalityType
<1>6. until(b, 0, x) = {}
  BY <1>3 DEF until
<1>7. until(b, l, x) = stores(b, x)
  BY <1>3 DEF until
<1>8. /\ n + 1 \in stores(b, x) => until(b, n + 1, x) = until(b, n, x) \cup {n + 1}
      /\ n + 1 \notin stores(b, x) => until(b, n + 1, x) = until(b, n, x)
  <2>1. \A i \in stores(b, x) : i <= n + 1 <=> i <= n \/ i = n + 1
    BY <1>3
  <2> QED
    BY <2>1 DEF until
<1> QED
  BY <1>1, <1>2, <1>3, <1>4, <1>5, <1>6, <1>7, <1>8

LEMMA ReachingNext ==
    ASSUME CodeInv, NEW b \in Blocks, NEW n \in Nat, NEW x, NEW map, NEW t
    PROVE  /\ n + 1 \in stores(b, x) =>
                  ReachingIn(map, t, b, n + 1, x) = get_rval(map, b, n + 1)
           /\ n + 1 \notin stores(b, x) =>
                  ReachingIn(map, t, b, n + 1, x) = ReachingIn(map, t, b, n, x)
           /\ ReachingIn(map, t, b, 0, x) = t
<1>1. ASSUME n + 1 \in stores(b, x)
      PROVE  ReachingIn(map, t, b, n + 1, x) = get_rval(map, b, n + 1)
  <2> DEFINE S == until(b, n + 1, x)
             i == latest(S)
  <2>0. S = until(b, n, x) \cup {n + 1}
    BY <1>1, Until
  <2>1. n + 1 \in Nat /\ n + 1 \in S /\ S # {}
    BY <2>0
  <2>2. S \in SUBSET (0 .. n + 1)
    BY <2>1, Until
  <2> HIDE DEF S
  <2>3. i \in S /\ \A j \in S : j <= i
    BY <2>1, <2>2, Latest
  <2> HIDE DEF i
  <2>4. i = n + 1
    BY <2>1, <2>2, <2>3
  <2> QED
    BY <2>1, <2>4 DEF ReachingIn, S, i
<1>2. ASSUME n + 1 \notin stores(b, x)
      PROVE  ReachingIn(map, t, b, n + 1, x) = ReachingIn(map, t, b, n, x)
  <2>1. until(b, n + 1, x) = until(b, n, x)
    BY <1>2, Until
  <2> QED
    BY <2>1 DEF ReachingIn
<1>3. ReachingIn(map, t, b, 0, x) = t
  BY Until DEF ReachingIn
<1> QED
  BY <1>1, <1>2, <1>3

(* Only the loads of the block before it say what a store stores.           *)
LEMMA RvalStable ==
    ASSUME CodeInv, NEW b \in Blocks, NEW i \in DOMAIN code[b], NEW map1, NEW map2,
           \A l \in Nat : is_load(b, l) /\ l < i =>
               /\ load_of(b, l) \in DOMAIN map1 /\ load_of(b, l) \in DOMAIN map2
               /\ map1[load_of(b, l)] = map2[load_of(b, l)]
    PROVE  get_rval(map1, b, i) = get_rval(map2, b, i)
<1>1. \/ code[b][i].rval = 0
      \/ code[b][i].rval \in Nat /\ is_load(b, code[b][i].rval) /\ code[b][i].rval < i
  BY StoreOrLoad, Types
<1> QED
  BY <1>1 DEF get_rval

LEMMA ReachingStable ==
    ASSUME CodeInv, NEW b \in Blocks, NEW n \in Nat, NEW x, NEW map1, NEW map2, NEW t,
           \A l \in Nat : is_load(b, l) /\ l < n =>
               /\ load_of(b, l) \in DOMAIN map1 /\ load_of(b, l) \in DOMAIN map2
               /\ map1[load_of(b, l)] = map2[load_of(b, l)]
    PROVE  ReachingIn(map1, t, b, n, x) = ReachingIn(map2, t, b, n, x)
<1>1. CASE until(b, n, x) = {}
  BY <1>1 DEF ReachingIn
<1>2. CASE until(b, n, x) # {}
  <2> DEFINE S == until(b, n, x)
  <2>1. PICK i : i = latest(S)
    OBVIOUS
  <2>2. i \in S
    BY <1>2, <2>1, Until, Latest
  <2>3. i \in DOMAIN code[b] /\ i \in Nat /\ i <= n
    BY <2>2, Until, SMTT(30)
  <2>4. \A l \in Nat : l < i => l < n
    BY <2>3
  <2>5. get_rval(map1, b, i) = get_rval(map2, b, i)
    BY <2>3, <2>4, RvalStable
  <2> QED
    BY <1>2, <2>1, <2>5 DEF ReachingIn
<1> QED
  BY <1>1, <1>2

-----------------------------------------------------------------------------
(* The loop over the instructions of a block.                               *)
LEMMA InMaps ==
    ASSUME NEW f \in Maps, NEW a \in Values, NEW v \in Values
    PROVE  /\ put(f, a, v) \in Maps
           /\ DOMAIN put(f, a, v) = DOMAIN f \cup {a}
           /\ put(f, a, v)[a] = v
           /\ \A c \in DOMAIN f \ {a} : put(f, a, v)[c] = f[c]
           /\ \A c \in DOMAIN f : f[c] \in Values
<1>1. PICK D \in SUBSET Values : f \in [D -> Values]
  BY DEF Maps
<1>2. put(f, a, v) \in [D \cup {a} -> Values]
  BY <1>1 DEF put
<1>3. put(f, a, v) \in Maps
  BY <1>2 DEF Maps
<1> QED
  BY <1>1, <1>3 DEF put

LEMMA NamesTyped ==
    ASSUME CodeInv, NEW b \in Blocks, NEW i \in Nat, NEW x \in Vars
    PROVE  /\ load_of(b, i) \in Values /\ value_of(b, i) \in Values /\ phi_of(b, x) \in Values
           /\ NoValue \in Values /\ b \in Nat
<1>1. b \in Nat
  BY Graph
<1>2. ASSUME NEW s \in Kinds, NEW m \in Nat, NEW a \in Nat \cup Vars
      PROVE  <<s, m, a>> \in Values
  BY DEF Values
<1>3. NoValue \in Values
  BY <1>2 DEF NoValue, Kinds
<1> QED
  BY <1>1, <1>2, <1>3 DEF load_of, value_of, phi_of, Kinds

LEMMA RvalTyped ==
    ASSUME CodeInv, NEW b \in Blocks, NEW i \in DOMAIN code[b], NEW map \in Maps
    PROVE  get_rval(map, b, i) \in Values
<1>1. code[b][i].rval \in Nat /\ i \in Nat
  BY Types, StoreOrLoad
<1>2. \A c \in DOMAIN map : map[c] \in Values
  BY DEF Maps
<1>3. load_of(b, code[b][i].rval) \in Values /\ value_of(b, i) \in Values
  <2>1. code[b][i].var \in Vars
    BY StoreOrLoad
  <2> QED
    BY <1>1, <2>1, NamesTyped
<1> QED
  BY <1>2, <1>3 DEF get_rval

LEMMA InstrRenamed ==
    ASSUME CodeInv, NEW bb \in Blocks, NEW i \in DOMAIN code[bb], NEW s \in RenameStates
    PROVE  LET x == code[bb][i].var
               r == RenameInstr(s, bb, i)
           IN  /\ r \in RenameStates
               /\ ~s.ok => r = s
               /\ s.ok /\ ~is_load(bb, i) =>
                     /\ r.stack = [s.stack EXCEPT ![x] = Append(@, get_rval(s.replaced, bb, i))]
                     /\ r.replaced = s.replaced /\ r.ok
               /\ s.ok /\ is_load(bb, i) /\ s.stack[x] = <<>> => ~r.ok
               /\ s.ok /\ is_load(bb, i) /\ s.stack[x] # <<>> =>
                     /\ r.stack = s.stack /\ r.ok
                     /\ r.replaced = put(s.replaced, load_of(bb, i), Last(s.stack[x]))
<1> DEFINE x == code[bb][i].var
           r == RenameInstr(s, bb, i)
<1>1. /\ s.stack \in [Vars -> Seq(Values)] /\ s.replaced \in Maps /\ s.ok \in BOOLEAN
      /\ x \in Vars /\ i \in Nat
      /\ s = [stack |-> s.stack, replaced |-> s.replaced, ok |-> s.ok]
  BY StoreOrLoad DEF RenameStates
<1>2. CASE ~s.ok
  BY <1>2 DEF RenameInstr
<1>3. CASE s.ok /\ ~is_load(bb, i)
  <2> DEFINE v == get_rval(s.replaced, bb, i)
             st == [s.stack EXCEPT ![x] = Append(@, v)]
  <2>1. v \in Values
    BY <1>1, RvalTyped
  <2>2. st \in [Vars -> Seq(Values)]
    BY <1>1, <2>1
  <2>3. r = [s EXCEPT !.stack = st]
    BY <1>1, <1>3, StoreOrLoad DEF RenameInstr
  <2> HIDE DEF st, r
  <2>4. r = [stack |-> st, replaced |-> s.replaced, ok |-> s.ok]
    BY <1>1, <2>3
  <2> QED
    BY <1>1, <1>3, <2>2, <2>4 DEF RenameStates, st, r
<1>4. CASE s.ok /\ is_load(bb, i) /\ s.stack[x] = <<>>
  <2>1. r = [s EXCEPT !.ok = FALSE]
    BY <1>4 DEF RenameInstr, is_load
  <2>2. r = [stack |-> s.stack, replaced |-> s.replaced, ok |-> FALSE]
    BY <1>1, <2>1
  <2> QED
    BY <1>1, <1>4, <2>2 DEF RenameStates
<1>5. CASE s.ok /\ is_load(bb, i) /\ s.stack[x] # <<>>
  <2> DEFINE m == put(s.replaced, load_of(bb, i), Last(s.stack[x]))
  <2>1. Last(s.stack[x]) \in Values
    BY <1>1, <1>5 DEF Last
  <2>2. m \in Maps
    BY <1>1, <2>1, InMaps, NamesTyped
  <2>3. r = [s EXCEPT !.replaced = m]
    BY <1>5 DEF RenameInstr, is_load
  <2> HIDE DEF m
  <2>4. r = [stack |-> s.stack, replaced |-> m, ok |-> s.ok]
    BY <1>1, <2>3
  <2> QED
    BY <1>1, <1>5, <2>2, <2>4 DEF RenameStates, m
<1> QED
  BY <1>1, <1>2, <1>3, <1>4, <1>5

(* The states the loop over the block goes through, from its phis on.       *)
LoopStart(bb) == [stack |-> PushPhis(var_val_stack, bb), replaced |-> replaced, ok |-> TRUE]

LoopStates(w, bb) ==
    /\ w \in [Nat -> RenameStates]
    /\ w[0] = LoopStart(bb)
    /\ \A n \in Nat : n + 1 \in DOMAIN code[bb] => w[n + 1] = RenameInstr(w[n], bb, n + 1)

LEMMA LoopStartTyped ==
    ASSUME CodeInv, var_val_stack \in [Vars -> Seq(Values)], replaced \in Maps, NEW bb \in Blocks
    PROVE  LoopStart(bb) \in RenameStates
<1>1. \A x \in Vars : phi_of(bb, x) \in Values
  BY NamesTyped
<1>2. PushPhis(var_val_stack, bb) \in [Vars -> Seq(Values)]
  BY <1>1 DEF PushPhis
<1> QED
  BY <1>2 DEF LoopStart, RenameStates

LEMMA LoopRuns ==
    ASSUME CodeInv, var_val_stack \in [Vars -> Seq(Values)], replaced \in Maps, NEW bb \in Blocks
    PROVE  \E w : LoopStates(w, bb) /\ RenameInstrs(bb) = w[Len(code[bb])]
<1> DEFINE F == [ns \in Nat \X RenameStates |->
                   IF ns[1] + 1 \in DOMAIN code[bb] THEN RenameInstr(ns[2], bb, ns[1] + 1) ELSE ns[2]]
           start == LoopStart(bb)
           Def(w) == [i \in 0 .. Len(code[bb]) |->
                        IF i = 0 THEN start ELSE RenameInstr(w[i - 1], bb, i)]
           c == CHOOSE w : w = Def(w)
<1>1. start \in RenameStates
  BY LoopStartTyped
<1>2. PICK l \in Nat : l = Len(code[bb]) /\ DOMAIN code[bb] = 1 .. l
  BY Types
<1>3. F \in [Nat \X RenameStates -> RenameStates]
  <2> SUFFICES ASSUME NEW n \in Nat, NEW s \in RenameStates, n + 1 \in DOMAIN code[bb]
               PROVE  RenameInstr(s, bb, n + 1) \in RenameStates
    OBVIOUS
  <2> QED
    BY InstrRenamed
<1>4. PICK f : Iterates(f, start, F, RenameStates)
  <2>1. IsStep(F, RenameStates)
    BY <1>3 DEF IsStep
  <2> HIDE DEF F, start
  <2> QED
    BY <1>1, <2>1, Recursion
<1>5. f \in [Nat -> RenameStates] /\ f[0] = start
  BY <1>4 DEF Iterates
<1>6. ASSUME NEW n \in Nat, n + 1 \in DOMAIN code[bb] PROVE f[n + 1] = RenameInstr(f[n], bb, n + 1)
  <2>1. <<n, f[n]>> \in Nat \X RenameStates
    BY <1>5
  <2>2. F[<<n, f[n]>>] = RenameInstr(f[n], bb, n + 1)
    BY <1>6, <2>1
  <2> QED
    BY <1>4, <2>2 DEF Iterates
<1>7. LoopStates(f, bb)
  BY <1>5, <1>6 DEF LoopStates
<1> HIDE DEF F, start
<1> DEFINE g == [i \in 0 .. l |-> f[i]]
<1>8. g = Def(g)
  <2>1. ASSUME NEW i \in 0 .. l
        PROVE  f[i] = IF i = 0 THEN start ELSE RenameInstr(g[i - 1], bb, i)
    <3>1. CASE i = 0
      BY <1>5, <3>1
    <3>2. CASE i # 0
      <4>1. i - 1 \in Nat /\ (i - 1) + 1 = i /\ i \in DOMAIN code[bb] /\ i - 1 \in 0 .. l
        BY <1>2, <3>2
      <4>2. f[i] = RenameInstr(f[i - 1], bb, i)
        BY <1>6, <4>1
      <4>3. g[i - 1] = f[i - 1]
        BY <4>1
      <4> QED
        BY <3>2, <4>2, <4>3
    <3> QED
      BY <3>1, <3>2
  <2> QED
    BY <1>2, <2>1
<1>9. c = Def(c)
  <2> HIDE DEF Def, g
  <2> QED
    BY <1>8
<1> HIDE DEF g
<1>10. RenameInstrs(bb) = c[l]
  BY <1>2 DEF RenameInstrs, start, LoopStart
<1> HIDE DEF c
<1>11. \A n \in Nat : n <= l => c[n] = f[n]
  <2> DEFINE T == {n \in Nat : n <= l => c[n] = f[n]}
  <2>1. 0 \in T
    BY <1>2, <1>5, <1>9
  <2>2. ASSUME NEW n \in Nat, n \in T PROVE n + 1 \in T
    <3> SUFFICES ASSUME n + 1 <= l PROVE c[n + 1] = f[n + 1]
      OBVIOUS
    <3>1. n + 1 \in 0 .. l /\ n + 1 # 0 /\ (n + 1) - 1 = n /\ n <= l /\ n + 1 \in DOMAIN code[bb]
      BY <1>2
    <3>2. c[n + 1] = RenameInstr(c[n], bb, n + 1)
      BY <1>2, <1>9, <3>1
    <3> QED
      BY <1>6, <2>2, <3>1, <3>2
  <2> HIDE DEF T
  <2>3. \A n \in Nat : n \in T
    BY <2>1, <2>2, Induction
  <2> QED
    BY <2>3 DEF T
<1> QED
  BY <1>2, <1>7, <1>10, <1>11

(* What holds after n of its steps.                                         *)
begins(bb, x) == PushPhis(var_val_stack, bb)[x]

LoopOk(r, bb, n) ==
    /\ \A x \in Vars : \A k \in 1 .. Len(begins(bb, x)) : r.stack[x][k] = begins(bb, x)[k]
    /\ \A x \in Vars : Len(r.stack[x]) = Len(begins(bb, x)) + Cardinality(until(bb, n, x))
    /\ \A x \in Vars : \A k \in DOMAIN r.stack[x] : r.stack[x][k] # NoValue
    /\ \A x \in Vars : top(r.stack[x]) = ReachingIn(r.replaced, top(begins(bb, x)), bb, n, x)
    /\ DOMAIN r.replaced = DOMAIN replaced \cup {load_of(bb, i) : i \in {j \in 1 .. n : is_load(bb, j)}}
    /\ \A p \in DOMAIN replaced : r.replaced[p] = replaced[p]
    /\ \A i \in 1 .. n : is_load(bb, i) =>
          LET x == code[bb][i].var
          IN  /\ r.replaced[load_of(bb, i)]
                    = ReachingIn(r.replaced, top(begins(bb, x)), bb, i - 1, x)
              /\ r.replaced[load_of(bb, i)] # NoValue

LoopFails(bb, n) ==
    \E j \in 1 .. n :
        /\ is_load(bb, j)
        /\ begins(bb, code[bb][j].var) = <<>>
        /\ until(bb, j, code[bb][j].var) = {}

LoopInv(r, bb, n) == IF r.ok THEN LoopOk(r, bb, n) ELSE LoopFails(bb, n)

LoopReady(bb) ==
    /\ var_val_stack \in [Vars -> Seq(Values)] /\ replaced \in Maps
    /\ \A x \in Vars : \A k \in DOMAIN var_val_stack[x] : var_val_stack[x][k] # NoValue
    /\ \A i \in Nat : load_of(bb, i) \notin DOMAIN replaced

LEMMA BeginsTyped ==
    ASSUME CodeInv, NEW bb \in Blocks, LoopReady(bb), NEW x \in Vars
    PROVE  /\ begins(bb, x) \in Seq(Values) /\ Len(begins(bb, x)) \in Nat
           /\ begins(bb, x) = IF has_phi(bb, x) THEN Append(var_val_stack[x], phi_of(bb, x))
                                                ELSE var_val_stack[x]
           /\ \A k \in 1 .. Len(begins(bb, x)) : begins(bb, x)[k] # NoValue
<1>1. phi_of(bb, x) \in Values /\ phi_of(bb, x) # NoValue /\ var_val_stack[x] \in Seq(Values)
  BY NamesTyped DEF LoopReady, phi_of, NoValue
<1>2. begins(bb, x) = IF has_phi(bb, x) THEN Append(var_val_stack[x], phi_of(bb, x))
                                        ELSE var_val_stack[x]
  BY DEF begins, PushPhis
<1>3. PICK n \in Nat : n = Len(var_val_stack[x]) /\ DOMAIN var_val_stack[x] = 1 .. n
  BY <1>1
<1>4. \A k \in 1 .. n : var_val_stack[x][k] # NoValue
  BY <1>3 DEF LoopReady
<1>5. CASE has_phi(bb, x)
  BY <1>1, <1>2, <1>3, <1>4, <1>5
<1>6. CASE ~has_phi(bb, x)
  BY <1>1, <1>2, <1>3, <1>4, <1>6
<1> QED
  BY <1>2, <1>5, <1>6

LEMMA LoopBegins ==
    ASSUME CodeInv, NEW bb \in Blocks, LoopReady(bb)
    PROVE  LoopInv(LoopStart(bb), bb, 0)
<1> DEFINE r == LoopStart(bb)
<1>1. /\ r.ok /\ r.replaced = replaced
      /\ \A x \in Vars : r.stack[x] = begins(bb, x) /\ begins(bb, x) \in Seq(Values)
  BY BeginsTyped DEF LoopStart, begins
<1> HIDE DEF r
<1>2. \A x \in Vars : Cardinality(until(bb, 0, x)) = 0 /\ until(bb, 0, x) = {}
  BY Until, FS_EmptySet
<1>3. \A x \in Vars : Len(r.stack[x]) = Len(begins(bb, x)) + Cardinality(until(bb, 0, x))
  BY <1>1, <1>2
<1>4. \A x \in Vars : \A k \in DOMAIN r.stack[x] : r.stack[x][k] # NoValue
  BY <1>1, BeginsTyped
<1>5. \A x \in Vars : top(r.stack[x]) = ReachingIn(r.replaced, top(begins(bb, x)), bb, 0, x)
  BY <1>1, ReachingNext
<1>6. 1 .. 0 = {} /\ {load_of(bb, i) : i \in {j \in 1 .. 0 : is_load(bb, j)}} = {}
  OBVIOUS
<1>7. LoopOk(r, bb, 0)
  BY <1>1, <1>3, <1>4, <1>5, <1>6 DEF LoopOk
<1> QED
  BY <1>1, <1>7 DEF LoopInv, r

LEMMA LoopStep ==
    ASSUME CodeInv, NEW bb \in Blocks, LoopReady(bb),
           NEW n \in Nat, n + 1 \in DOMAIN code[bb],
           NEW s \in RenameStates, LoopInv(s, bb, n)
    PROVE  LoopInv(RenameInstr(s, bb, n + 1), bb, n + 1)
<1>0. PICK r, x : r = RenameInstr(s, bb, n + 1) /\ x = code[bb][n + 1].var
  OBVIOUS
<1> DEFINE t(y) == top(begins(bb, y))
<1>1. /\ s.stack \in [Vars -> Seq(Values)] /\ s.replaced \in Maps /\ s.ok \in BOOLEAN
      /\ r.stack \in [Vars -> Seq(Values)] /\ r.replaced \in Maps /\ r.ok \in BOOLEAN
      /\ x \in Vars
  BY <1>0, InstrRenamed, StoreOrLoad DEF RenameStates
<1>7. /\ ~s.ok => r = s
      /\ s.ok /\ ~is_load(bb, n + 1) =>
            /\ r.stack = [s.stack EXCEPT ![x] = Append(@, get_rval(s.replaced, bb, n + 1))]
            /\ r.replaced = s.replaced /\ r.ok
      /\ s.ok /\ is_load(bb, n + 1) /\ s.stack[x] = <<>> => ~r.ok
      /\ s.ok /\ is_load(bb, n + 1) /\ s.stack[x] # <<>> =>
            /\ r.stack = s.stack /\ r.ok
            /\ r.replaced = put(s.replaced, load_of(bb, n + 1), Last(s.stack[x]))
  BY <1>0, InstrRenamed, SMTT(30)
<1>8. /\ ~is_load(bb, n + 1) => n + 1 \in stores(bb, x)
      /\ \A y : y # x => n + 1 \notin stores(bb, y)
  BY <1>0, StoreOrLoad
<1>9. SUFFICES LoopInv(r, bb, n + 1)
  BY <1>0
<1>2. \A i \in 1 .. n + 1 : i \in 1 .. n \/ i = n + 1
  OBVIOUS
<1>3. CASE ~s.ok
  <2>1. r = s
    BY <1>3, <1>7
  <2>2. LoopFails(bb, n)
    BY <1>3 DEF LoopInv
  <2>3. \A j \in 1 .. n : j \in 1 .. n + 1
    OBVIOUS
  <2>4. LoopFails(bb, n + 1)
    BY <2>2, <2>3 DEF LoopFails
  <2> QED
    BY <1>3, <2>1, <2>4 DEF LoopInv
<1>4. CASE s.ok /\ is_load(bb, n + 1) /\ s.stack[x] = <<>>
  <2>1. ~r.ok
    BY <1>4, <1>7
  <2>2. Len(s.stack[x]) = Len(begins(bb, x)) + Cardinality(until(bb, n, x))
    BY <1>1, <1>4 DEF LoopInv, LoopOk
  <2>3. PICK a, c \in Nat : a = Len(begins(bb, x)) /\ c = Cardinality(until(bb, n, x))
    BY <1>1, BeginsTyped, Until
  <2>4. a = 0 /\ c = 0
    BY <1>4, <2>2, <2>3
  <2>5. begins(bb, x) = <<>>
    <3>1. begins(bb, x) \in Seq(Values)
      BY <1>1, BeginsTyped
    <3> QED
      BY <2>3, <2>4, <3>1, EmptySequence
  <2>6. until(bb, n, x) = {}
    BY <2>3, <2>4, Until, FS_EmptySet
  <2>7. until(bb, n + 1, x) = {}
    <3>1. n + 1 \notin stores(bb, x)
      BY <1>4, StoreOrLoad
    <3> QED
      BY <2>6, <3>1, Until
  <2>8. n + 1 \in 1 .. n + 1
    OBVIOUS
  <2> QED
    BY <1>0, <1>4, <2>1, <2>5, <2>7, <2>8 DEF LoopInv, LoopFails
<1>5. CASE s.ok /\ is_load(bb, n + 1) /\ s.stack[x] # <<>>
  <2>v. PICK v, p : v = Last(s.stack[x]) /\ p = load_of(bb, n + 1)
    OBVIOUS
  <2>0. LoopOk(s, bb, n)
    BY <1>5 DEF LoopInv
  <2>1. r.stack = s.stack /\ r.ok /\ r.replaced = put(s.replaced, p, v)
    BY <1>5, <1>7, <2>v
  <2>2. PICK m \in Nat : m = Len(s.stack[x]) /\ m # 0 /\ DOMAIN s.stack[x] = 1 .. m
    BY <1>1, <1>5
  <2>3. v \in Values /\ v # NoValue /\ v = top(s.stack[x])
    <3>1. m \in 1 .. m /\ v = s.stack[x][m]
      BY <2>2, <2>v DEF Last
    <3>2. s.stack[x] \in Seq(Values)
      BY <1>1
    <3>3. v \in Values
      BY <2>2, <3>1, <3>2
    <3>4. v # NoValue
      BY <1>1, <2>0, <2>2, <3>1 DEF LoopOk
    <3> QED
      BY <1>5, <2>v, <3>3, <3>4 DEF top
  <2>4. p \in Values
    BY <1>1, <2>v, NamesTyped
  <2>5. /\ DOMAIN r.replaced = DOMAIN s.replaced \cup {p} /\ r.replaced[p] = v
        /\ \A c \in DOMAIN s.replaced \ {p} : r.replaced[c] = s.replaced[c]
    <3>1. /\ DOMAIN put(s.replaced, p, v) = DOMAIN s.replaced \cup {p}
          /\ put(s.replaced, p, v)[p] = v
          /\ \A c \in DOMAIN s.replaced \ {p} : put(s.replaced, p, v)[c] = s.replaced[c]
      BY DEF put
    <3> QED
      BY <2>1, <3>1
  <2>6. \A i \in Nat : p = load_of(bb, i) => i = n + 1
    BY <2>v DEF load_of
  <2>7. p \notin DOMAIN replaced
    BY <2>v DEF LoopReady
  <2>8. \A l \in 1 .. n : is_load(bb, l) =>
            /\ load_of(bb, l) \in DOMAIN s.replaced /\ load_of(bb, l) \in DOMAIN r.replaced
            /\ s.replaced[load_of(bb, l)] = r.replaced[load_of(bb, l)]
    <3> SUFFICES ASSUME NEW l \in 1 .. n, is_load(bb, l)
                 PROVE  load_of(bb, l) \in DOMAIN s.replaced /\ load_of(bb, l) # p
      BY <2>5
    <3> QED
      BY <2>0, <2>6 DEF LoopOk
  <2>9. \A m1 \in 0 .. n, y \in Vars :
            ReachingIn(s.replaced, t(y), bb, m1, y) = ReachingIn(r.replaced, t(y), bb, m1, y)
    <3> SUFFICES ASSUME NEW m1 \in 0 .. n, NEW y \in Vars
                 PROVE  ReachingIn(s.replaced, t(y), bb, m1, y) = ReachingIn(r.replaced, t(y), bb, m1, y)
      OBVIOUS
    <3>1. m1 \in Nat /\ \A l \in Nat : is_load(bb, l) /\ l < m1 => l \in 1 .. n
      BY Types DEF is_load
    <3> QED
      BY <2>8, <3>1, ReachingStable
  <2>10. \A y \in Vars : n + 1 \notin stores(bb, y)
    BY <1>5, StoreOrLoad
  <2>11. ASSUME NEW y \in Vars
         PROVE  /\ until(bb, n + 1, y) = until(bb, n, y)
                /\ ReachingIn(r.replaced, t(y), bb, n + 1, y)
                      = ReachingIn(r.replaced, t(y), bb, n, y)
    BY <2>10, Until, ReachingNext
  <2>12. \A y \in Vars : top(r.stack[y]) = ReachingIn(r.replaced, t(y), bb, n + 1, y)
    BY <2>0, <2>1, <2>9, <2>11 DEF LoopOk
  <2>13. DOMAIN r.replaced = DOMAIN replaced
                               \cup {load_of(bb, i) : i \in {j \in 1 .. n + 1 : is_load(bb, j)}}
    <3>1. {j \in 1 .. n + 1 : is_load(bb, j)} = {j \in 1 .. n : is_load(bb, j)} \cup {n + 1}
      BY <1>2, <1>5
    <3> QED
      BY <2>0, <2>5, <2>v, <3>1 DEF LoopOk
  <2>14. \A c \in DOMAIN replaced : r.replaced[c] = replaced[c]
    BY <2>0, <2>5, <2>7 DEF LoopOk
  <2>15. ASSUME NEW i \in 1 .. n + 1, is_load(bb, i)
         PROVE  LET y == code[bb][i].var
                IN  /\ r.replaced[load_of(bb, i)] = ReachingIn(r.replaced, t(y), bb, i - 1, y)
                    /\ r.replaced[load_of(bb, i)] # NoValue
    <3> DEFINE y == code[bb][i].var
    <3>1. y \in Vars
      BY <2>15, StoreOrLoad DEF is_load
    <3>2. CASE i = n + 1
      <4>1. i - 1 = n
        BY <3>2
      <4>2. v = ReachingIn(s.replaced, t(x), bb, n, x)
        BY <1>1, <2>0, <2>3 DEF LoopOk
      <4> QED
        BY <1>0, <1>1, <2>3, <2>5, <2>9, <2>v, <3>2, <4>1, <4>2
    <3>3. CASE i \in 1 .. n
      <4>1. i - 1 \in 0 .. n
        BY <3>3
      <4>2. /\ s.replaced[load_of(bb, i)] = ReachingIn(s.replaced, t(y), bb, i - 1, y)
            /\ s.replaced[load_of(bb, i)] # NoValue
        BY <2>0, <2>15, <3>3 DEF LoopOk
      <4> QED
        BY <2>8, <2>9, <2>15, <3>1, <3>3, <4>1, <4>2
    <3> QED
      BY <1>2, <3>2, <3>3
  <2>16. LoopOk(r, bb, n + 1)
    BY <2>0, <2>1, <2>11, <2>12, <2>13, <2>14, <2>15 DEF LoopOk
  <2> QED
    BY <2>1, <2>16 DEF LoopInv
<1>6. CASE s.ok /\ ~is_load(bb, n + 1)
  <2>v. PICK v : v = get_rval(s.replaced, bb, n + 1)
    OBVIOUS
  <2>0. LoopOk(s, bb, n)
    BY <1>6 DEF LoopInv
  <2>1. r.stack = [s.stack EXCEPT ![x] = Append(@, v)] /\ r.ok /\ r.replaced = s.replaced
    BY <1>6, <1>7, <2>v
  <2>2. n + 1 \in stores(bb, x) /\ (\A y : y # x => n + 1 \notin stores(bb, y))
    BY <1>6, <1>8
  <2>3. v \in Values
    BY <1>1, <2>v, RvalTyped
  <2>4. v # NoValue
    <3>1. CASE code[bb][n + 1].rval = 0
      BY <2>v, <3>1 DEF get_rval, value_of, NoValue
    <3>2. CASE code[bb][n + 1].rval # 0
      <4> DEFINE l == code[bb][n + 1].rval
      <4>1. is_load(bb, l) /\ l < n + 1 /\ l \in Nat /\ l \in DOMAIN code[bb]
        BY <3>2, StoreOrLoad, Types DEF is_load
      <4>2. l \in 1 .. n
        BY <4>1, Until, SMTT(30)
      <4>3. load_of(bb, l) \in DOMAIN s.replaced /\ s.replaced[load_of(bb, l)] # NoValue
        BY <2>0, <4>1, <4>2 DEF LoopOk
      <4> QED
        BY <2>v, <3>2, <4>3 DEF get_rval
    <3> QED
      BY <3>1, <3>2
  <2>5. PICK m \in Nat : m = Len(s.stack[x]) /\ DOMAIN s.stack[x] = 1 .. m
    BY <1>1
  <2>6. /\ r.stack[x] = Append(s.stack[x], v)
        /\ Len(r.stack[x]) = m + 1 /\ DOMAIN r.stack[x] = 1 .. m + 1
        /\ r.stack[x][m + 1] = v
        /\ \A k \in 1 .. m : r.stack[x][k] = s.stack[x][k]
        /\ \A y \in Vars \ {x} : r.stack[y] = s.stack[y]
    BY <1>1, <2>1, <2>3, <2>5
  <2>7. /\ until(bb, n + 1, x) = until(bb, n, x) \cup {n + 1}
        /\ n + 1 \notin until(bb, n, x)
        /\ \A y \in Vars \ {x} : until(bb, n + 1, y) = until(bb, n, y)
    <3>1. n + 1 \notin until(bb, n, x)
      BY DEF until
    <3> QED
      BY <2>2, <3>1, Until
  <2>8. PICK a, c \in Nat : a = Len(begins(bb, x)) /\ c = Cardinality(until(bb, n, x)) /\ m = a + c
    <3>1. Len(s.stack[x]) = Len(begins(bb, x)) + Cardinality(until(bb, n, x))
      BY <1>1, <2>0 DEF LoopOk
    <3> QED
      BY <1>1, <2>5, <3>1, BeginsTyped, Until
  <2>9. Cardinality(until(bb, n + 1, x)) = c + 1
    BY <2>7, <2>8, Until, FS_AddElement
  <2>10. \A y \in Vars : Len(r.stack[y]) = Len(begins(bb, y)) + Cardinality(until(bb, n + 1, y))
    <3> SUFFICES ASSUME NEW y \in Vars
                 PROVE  Len(r.stack[y]) = Len(begins(bb, y)) + Cardinality(until(bb, n + 1, y))
      OBVIOUS
    <3>1. CASE y = x
      BY <2>6, <2>8, <2>9, <3>1
    <3>2. CASE y # x
      BY <2>0, <2>6, <2>7, <3>2 DEF LoopOk
    <3> QED
      BY <3>1, <3>2
  <2>11. \A y \in Vars : \A k \in 1 .. Len(begins(bb, y)) : r.stack[y][k] = begins(bb, y)[k]
    <3> SUFFICES ASSUME NEW y \in Vars, NEW k \in 1 .. Len(begins(bb, y))
                 PROVE  r.stack[y][k] = begins(bb, y)[k]
      OBVIOUS
    <3>1. s.stack[y][k] = begins(bb, y)[k]
      BY <2>0 DEF LoopOk
    <3>2. CASE y = x
      <4>1. k \in 1 .. m
        BY <2>8, <3>2
      <4> QED
        BY <2>6, <3>1, <3>2, <4>1
    <3>3. CASE y # x
      BY <2>6, <3>1, <3>3
    <3> QED
      BY <3>2, <3>3
  <2>12. \A y \in Vars : \A k \in DOMAIN r.stack[y] : r.stack[y][k] # NoValue
    <3> SUFFICES ASSUME NEW y \in Vars, NEW k \in DOMAIN r.stack[y]
                 PROVE  r.stack[y][k] # NoValue
      OBVIOUS
    <3>1. CASE y = x
      <4>1. k \in 1 .. m \/ k = m + 1
        BY <2>6, <3>1
      <4> QED
        BY <1>1, <2>0, <2>4, <2>5, <2>6, <3>1, <4>1, SMTT(30) DEF LoopOk
    <3>2. CASE y # x
      BY <2>0, <2>6, <3>2 DEF LoopOk
    <3> QED
      BY <3>1, <3>2
  <2>13. \A y \in Vars : top(r.stack[y]) = ReachingIn(r.replaced, t(y), bb, n + 1, y)
    <3> SUFFICES ASSUME NEW y \in Vars
                 PROVE  top(r.stack[y]) = ReachingIn(r.replaced, t(y), bb, n + 1, y)
      OBVIOUS
    <3>1. CASE y = x
      <4>1. top(r.stack[x]) = v
        <5>1. r.stack[x] # <<>>
          BY <2>5, <2>6
        <5> QED
          BY <2>6, <5>1 DEF top, Last
      <4>2. ReachingIn(r.replaced, t(x), bb, n + 1, x) = v
        BY <2>1, <2>2, <2>v, ReachingNext
      <4> QED
        BY <3>1, <4>1, <4>2
    <3>2. CASE y # x
      <4>1. ReachingIn(r.replaced, t(y), bb, n + 1, y) = ReachingIn(r.replaced, t(y), bb, n, y)
        BY <2>2, <3>2, ReachingNext
      <4> QED
        BY <2>0, <2>1, <2>6, <3>2, <4>1 DEF LoopOk
    <3> QED
      BY <3>1, <3>2
  <2>14. {j \in 1 .. n + 1 : is_load(bb, j)} = {j \in 1 .. n : is_load(bb, j)}
    BY <1>2, <1>6
  <2>15. \A i \in 1 .. n + 1 : is_load(bb, i) => i \in 1 .. n
    BY <1>2, <1>6
  <2>16. LoopOk(r, bb, n + 1)
    BY <2>0, <2>1, <2>10, <2>11, <2>12, <2>13, <2>14, <2>15, ZenonT(40) DEF LoopOk
  <2> QED
    BY <2>1, <2>16 DEF LoopInv
<1> QED
  BY <1>1, <1>3, <1>4, <1>5, <1>6, <1>9

LEMMA LoopDone ==
    ASSUME CodeInv, NEW bb \in Blocks, LoopReady(bb)
    PROVE  /\ RenameInstrs(bb) \in RenameStates
           /\ LoopInv(RenameInstrs(bb), bb, Len(code[bb]))
<1>1. PICK w : LoopStates(w, bb) /\ RenameInstrs(bb) = w[Len(code[bb])]
  BY LoopRuns DEF LoopReady
<1>2. PICK l \in Nat : l = Len(code[bb]) /\ DOMAIN code[bb] = 1 .. l
  BY Types
<1> DEFINE T == {n \in Nat : n <= l => LoopInv(w[n], bb, n)}
<1>3. 0 \in T
  BY <1>1, LoopBegins DEF LoopStates
<1>4. ASSUME NEW n \in Nat, n \in T PROVE n + 1 \in T
  <2> SUFFICES ASSUME n + 1 <= l PROVE LoopInv(w[n + 1], bb, n + 1)
    OBVIOUS
  <2>1. n + 1 \in DOMAIN code[bb] /\ n <= l
    BY <1>2
  <2>2. w[n + 1] = RenameInstr(w[n], bb, n + 1) /\ w[n] \in RenameStates
    BY <1>1, <2>1 DEF LoopStates
  <2> QED
    BY <1>4, <2>1, <2>2, LoopStep
<1> HIDE DEF T
<1>5. \A n \in Nat : n \in T
  BY <1>3, <1>4, Induction
<1>6. l \in T /\ w[l] \in RenameStates
  BY <1>1, <1>5 DEF LoopStates
<1> QED
  BY <1>1, <1>2, <1>6 DEF T

-----------------------------------------------------------------------------
(* The invariant of rename.  What a variable stands for as a block ends,    *)
(* and the blocks that define it.                                           *)
Out(b, x)     == Reaching(b, Len(code[b]), x)
defines(b, x) == b \in storing(x) \cup having(x)

(* How deep the stack is after k activations, and what is at a depth.       *)
Depth(k, x)   == Cardinality(UNION {pushes(j, x) : j \in 1 .. k})
value_at(s, d) == IF d = 0 THEN NoValue ELSE s[d]

TypesInv ==
    /\ var_val_stack \in [Vars -> Seq(Values)]
    /\ \A x \in Vars : \A k \in DOMAIN var_val_stack[x] : var_val_stack[x][k] # NoValue
    /\ replaced \in Maps
    /\ bb_rename \subseteq all /\ path \in Seq(bb_rename)
    /\ DOMAIN tops = bb_rename /\ \A b \in bb_rename : tops[b] \in [Vars -> Values]

(* The blocks entered: closed under dominators; with a block that has been  *)
(* left its children, and its stores are erased.                            *)
TreeInv ==
    /\ \A b \in bb_rename, a \in all : b \in dom[a] => a \in bb_rename
    /\ phase \in {"rename", "done"} => Entry \in bb_rename
    /\ phase = "rename" => path # <<>>
    /\ phase = "done" => path = <<>>
    /\ \A b \in bb_rename \ ToSet(path) :
          /\ dom_tree_succ[b] \subseteq bb_rename
          /\ \A x \in Vars : \A i \in stores(b, x) : <<b, i>> \in erased

StackInv ==
    \A x \in Vars :
        /\ Len(var_val_stack[x]) = Depth(Len(path), x)
        /\ \A k \in DOMAIN path : value_at(var_val_stack[x], Depth(k, x)) = Out(path[k], x)

ValueInv ==
    /\ \A b \in bb_rename, x \in Vars : has_phi(b, x) => tops[b][x] = phi_of(b, x)
    /\ \A x \in Vars : Entry \in bb_rename /\ ~has_phi(Entry, x) => tops[Entry][x] = NoValue
    /\ \A b \in bb_rename \ {Entry} : \E u \in bb_rename :
          /\ b \in Children(dom, u)
          /\ \A x \in Vars : ~has_phi(b, x) => tops[b][x] = Out(u, x)
    /\ \A b \in bb_rename, i \in Nat : is_load(b, i) =>
          /\ load_of(b, i) \in DOMAIN replaced
          /\ replaced[load_of(b, i)] = Reaching(b, i - 1, code[b][i].var)
          /\ replaced[load_of(b, i)] # NoValue
    /\ \A b \in Blocks \ bb_rename, i \in Nat : load_of(b, i) \notin DOMAIN replaced

LEMMA ReachingIs ==
    ASSUME NEW b, NEW n, NEW x
    PROVE  /\ Reaching(b, n, x) = ReachingIn(replaced, tops[b][x], b, n, x)
BY DEF Reaching, ReachingIn, until, latest

LEMMA Tagged ==
    ASSUME NEW S, IsFiniteSet(S), NEW k
    PROVE  /\ IsFiniteSet({<<k, i>> : i \in S})
           /\ Cardinality({<<k, i>> : i \in S}) = Cardinality(S)
<1> DEFINE f == [i \in S |-> <<k, i>>]
           T == {<<k, i>> : i \in S}
<1>1. f \in Bijection(S, T)
  BY DEF Bijection, Injection, Surjection, IsInjective
<1> QED
  BY <1>1, FS_Bijection DEF ExistsBijection

LEMMA DepthStep ==
    ASSUME CodeInv, NEW x \in Vars, path \in Seq(Blocks), NEW k \in Nat, k + 1 \in DOMAIN path
    PROVE  /\ Depth(k, x) \in Nat /\ Pushed(path[k + 1], x) \in Nat
           /\ Depth(k + 1, x) = Depth(k, x) + Pushed(path[k + 1], x)
<1> DEFINE P(j) == UNION {pushes(i, x) : i \in 1 .. j}
           b == path[k + 1]
           S == stores(b, x) \cup (IF has_phi(b, x) THEN {0} ELSE {})
<1>1. PICK n \in Nat : n = Len(path) /\ DOMAIN path = 1 .. n
  OBVIOUS
<1>2. \A j \in 1 .. n : path[j] \in Blocks
  BY <1>1
<1>3. ASSUME NEW c \in Blocks
      PROVE  /\ IsFiniteSet(stores(c, x)) /\ Cardinality(stores(c, x)) \in Nat
             /\ 0 \notin stores(c, x)
             /\ IsFiniteSet(stores(c, x) \cup (IF has_phi(c, x) THEN {0} ELSE {}))
             /\ Cardinality(stores(c, x) \cup (IF has_phi(c, x) THEN {0} ELSE {})) = Pushed(c, x)
             /\ Pushed(c, x) \in Nat
  <2>1. IsFiniteSet(stores(c, x)) /\ Cardinality(stores(c, x)) \in Nat
    <3>1. Len(code[c]) \in Nat
      BY Types
    <3> QED
      BY <3>1, Until
  <2>2. 0 \notin stores(c, x)
    <3>1. 0 \in Nat
      OBVIOUS
    <3> QED
      BY <3>1, Until
  <2>3. CASE has_phi(c, x)
    BY <2>1, <2>2, <2>3, FS_AddElement DEF Pushed
  <2>4. CASE ~has_phi(c, x)
    <3>1. stores(c, x) \cup {} = stores(c, x)
      OBVIOUS
    <3> QED
      BY <2>1, <2>2, <2>4, <3>1 DEF Pushed
  <2> QED
    BY <2>1, <2>2, <2>3, <2>4
<1>4. \A j \in 1 .. n : IsFiniteSet(pushes(j, x))
  BY <1>2, <1>3, Tagged DEF pushes
<1>5. k \in 0 .. n /\ k + 1 \in 1 .. n
  BY <1>1
<1>6. IsFiniteSet(P(k)) /\ Cardinality(P(k)) \in Nat
  <2>1. P(k) \subseteq UNION {pushes(i, x) : i \in 1 .. n}
    BY <1>5
  <2>2. IsFiniteSet({pushes(i, x) : i \in 1 .. n})
    <3>1. IsFiniteSet(1 .. n)
      BY FS_Interval
    <3> DEFINE f == [i \in 1 .. n |-> pushes(i, x)]
    <3>2. f \in Surjection(1 .. n, {pushes(i, x) : i \in 1 .. n})
      BY DEF Surjection
    <3> QED
      BY <3>1, <3>2, FS_Surjection
  <2>3. IsFiniteSet(UNION {pushes(i, x) : i \in 1 .. n})
    BY <1>4, <2>2, FS_UNION
  <2> QED
    BY <2>1, <2>3, FS_Subset, FS_CardinalityType
<1>7. P(k + 1) = P(k) \cup pushes(k + 1, x)
  <2>1. \A i \in 1 .. k + 1 : i \in 1 .. k \/ i = k + 1
    OBVIOUS
  <2>2. k + 1 \in 1 .. k + 1 /\ \A i \in 1 .. k : i \in 1 .. k + 1
    OBVIOUS
  <2> QED
    BY <2>1, <2>2
<1>8. P(k) \cap pushes(k + 1, x) = {}
  BY DEF pushes
<1>9. /\ IsFiniteSet(pushes(k + 1, x))
      /\ Cardinality(pushes(k + 1, x)) = Pushed(b, x) /\ Pushed(b, x) \in Nat
  <2>1. b \in Blocks /\ pushes(k + 1, x) = {<<k + 1, i>> : i \in S}
    BY <1>2, <1>5 DEF pushes
  <2>2. IsFiniteSet(S) /\ Cardinality(S) = Pushed(b, x) /\ Pushed(b, x) \in Nat
    BY <1>3, <2>1
  <2>3. PICK V : V = S
    OBVIOUS
  <2>4. /\ IsFiniteSet({<<k + 1, i>> : i \in V})
        /\ Cardinality({<<k + 1, i>> : i \in V}) = Cardinality(V)
    <3>1. IsFiniteSet(V)
      BY <2>2, <2>3
    <3> QED
      BY <3>1, Tagged
  <2>5. pushes(k + 1, x) = {<<k + 1, i>> : i \in V}
    BY <2>1, <2>3
  <2> HIDE DEF S, b
  <2> QED
    BY <2>2, <2>3, <2>4, <2>5
<1>10. Cardinality(P(k + 1)) = Cardinality(P(k)) + Pushed(b, x)
  <2>0. PICK U, V, m, d : /\ U = P(k) /\ V = pushes(k + 1, x)
                          /\ m = Cardinality(U) /\ d = Pushed(b, x)
    OBVIOUS
  <2> HIDE DEF P, b
  <2>1. Cardinality({}) = 0
    BY FS_EmptySet
  <2>2. Cardinality(U \cup V) = Cardinality(U) + Cardinality(V) - Cardinality({})
    BY <1>6, <1>8, <1>9, <2>0, FS_Union
  <2>3. m \in Nat /\ d \in Nat /\ Cardinality(V) = d
    BY <1>6, <1>9, <2>0
  <2>4. Cardinality(U \cup V) = m + d
    BY <2>0, <2>1, <2>2, <2>3
  <2> QED
    BY <1>7, <2>0, <2>4
<1> QED
  BY <1>6, <1>9, <1>10 DEF Depth

LEMMA DepthNone == \A x : Depth(0, x) = 0
<1>1. \A x : UNION {pushes(j, x) : j \in 1 .. 0} = {}
  OBVIOUS
<1> QED
  BY <1>1, FS_EmptySet DEF Depth

-----------------------------------------------------------------------------
(* Dominance in the function that is compiled.                              *)
LEMMA Dominance ==
    ASSUME CodeInv
    PROVE  /\ all \subseteq Blocks /\ Entry \in all /\ dom[Entry] = all /\ DOMAIN dom = all
           /\ \A a \in all : a \in dom[a] /\ dom[a] \subseteq all /\ ToSet(succ_bbs[a]) \subseteq all
           /\ \A a \in all : \A b \in dom[a] : dom[b] \subseteq dom[a]
           /\ \A a \in all : \A b \in dom[a] : a \in dom[b] => a = b
           /\ \A a, b \in all : \A c \in dom[a] \cap dom[b] : a \in dom[b] \/ b \in dom[a]
           /\ \A a, x \in all : \A b \in dom[a] \ {a} : b \in ToSet(succ_bbs[x]) => x \in dom[a]
<1>1. IsFlowGraph(succ_bbs, Entry)
  BY Graph
<1>2. /\ all \subseteq Blocks /\ Entry \in all /\ dom[Entry] = all /\ DOMAIN dom = all
      /\ \A a \in all : a \in dom[a] /\ dom[a] \subseteq all /\ ToSet(succ_bbs[a]) \subseteq all
  BY <1>1, DomValue DEF all, dom, Blocks
<1>3. \A a \in all : \A b \in dom[a] : dom[b] \subseteq dom[a]
  BY <1>1, DomTransitive DEF all, dom
<1>4. \A a \in all : \A b \in dom[a] : a \in dom[b] => a = b
  BY <1>1, DomAntisymmetric DEF all, dom
<1>5. \A a, b \in all : \A c \in dom[a] \cap dom[b] : a \in dom[b] \/ b \in dom[a]
  BY <1>1, DomChain DEF all, dom
<1>6. \A a, x \in all : \A b \in dom[a] \ {a} : b \in ToSet(succ_bbs[x]) => x \in dom[a]
  BY <1>1, DomPredecessor DEF all, dom
<1> QED
  BY <1>2, <1>3, <1>4, <1>5, <1>6

LEMMA ChildOf ==
    ASSUME CodeInv, NEW u \in all, NEW c \in Children(dom, u)
    PROVE  /\ c \in all /\ c \in dom[u] /\ c # u /\ c # Entry
           /\ \A a \in all : c \in dom[a] /\ a # c => u \in dom[a]
<1>1. c \in dom[u] /\ c # u /\ \A a \in dom[u] \ {u, c} : c \notin dom[a]
  BY DEF Children
<1>2. c \in all
  BY <1>1, Dominance
<1>3. ASSUME NEW a \in all, c \in dom[a], a # c PROVE u \in dom[a]
  <2>1. a \in dom[u] \/ u \in dom[a]
    BY <1>1, <1>3, Dominance
  <2>2. a \in dom[u] => a = u
    BY <1>1, <1>3
  <2> QED
    BY <2>1, <2>2, Dominance
<1>4. c # Entry
  BY <1>1, Dominance
<1> QED
  BY <1>1, <1>2, <1>3, <1>4

RenameInv == TypesInv /\ TreeInv /\ StackInv /\ ValueInv

(* The situation as rename enters a block.                                  *)
Enters(c) ==
    /\ c \in all \ bb_rename
    /\ phase \in {"phi", "rename"} /\ var_todo = {} /\ work_list = {}
    /\ IF path = <<>> THEN c = Entry /\ bb_rename = {}
       ELSE Last(path) \in bb_rename /\ c \in Children(dom, Last(path))
    /\ Rename(c)

LEMMA EntersEntry ==
    ASSUME Safe, RenameInv, RenameEntry
    PROVE  Enters(Entry)
<1>1. phase = "phi" /\ var_todo = {} /\ work_list = {} /\ Rename(Entry)
  BY DEF RenameEntry
<1>2. path = <<>> /\ bb_rename = {}
  BY <1>1 DEF Safe, PhaseInv
<1>3. Entry \in all
  BY Dominance DEF Safe
<1> QED
  BY <1>1, <1>2, <1>3 DEF Enters

LEMMA EntersChild ==
    ASSUME Safe, RenameInv, NEW c, RenameChild(c)
    PROVE  Enters(c)
<1>1. phase = "rename" /\ c \in dom_tree_succ[Last(path)] \ bb_rename /\ Rename(c)
  BY DEF RenameChild
<1>2. path # <<>> /\ path \in Seq(bb_rename) /\ bb_rename \subseteq all /\ all \subseteq Blocks
  BY <1>1, Dominance DEF RenameInv, TreeInv, TypesInv, Safe
<1>3. Last(path) \in bb_rename
  BY <1>2 DEF Last
<1>4. dom_tree_succ = ChildrenOf
  BY <1>1 DEF Safe, PhisInv
<1>5. c \in Children(dom, Last(path))
  BY <1>1, <1>2, <1>3, <1>4 DEF ChildrenOf
<1>6. c \in all
  BY <1>2, <1>3, <1>5, ChildOf DEF Safe
<1>7. var_todo = {} /\ work_list = {}
  BY <1>1 DEF Safe, PhaseInv
<1> QED
  BY <1>1, <1>2, <1>3, <1>5, <1>6, <1>7 DEF Enters

LEMMA EntersReady ==
    ASSUME Safe, RenameInv, NEW c, Enters(c)
    PROVE  /\ c \in Blocks /\ LoopReady(c)
           /\ RenameInstrs(c) \in RenameStates
           /\ LoopInv(RenameInstrs(c), c, Len(code[c]))
<1>1. c \in Blocks
  BY Dominance DEF Enters, Safe
<1>2. LoopReady(c)
  BY <1>1 DEF LoopReady, RenameInv, TypesInv, ValueInv, Enters
<1> QED
  BY <1>1, <1>2, LoopDone DEF Safe

(* The newest value as the block begins.                                    *)
LEMMA EntersTop ==
    ASSUME Safe, RenameInv, NEW c, Enters(c), NEW x \in Vars
    PROVE  /\ has_phi(c, x) => top(begins(c, x)) = phi_of(c, x)
           /\ ~has_phi(c, x) => begins(c, x) = var_val_stack[x]
           /\ top(var_val_stack[x]) = IF path = <<>> THEN NoValue ELSE Out(Last(path), x)
<1>1. c \in Blocks /\ LoopReady(c) /\ CodeInv
  BY EntersReady DEF Safe
<1>2. begins(c, x) = IF has_phi(c, x) THEN Append(var_val_stack[x], phi_of(c, x))
                                      ELSE var_val_stack[x]
  BY <1>1, BeginsTyped
<1>3. PICK s \in Seq(Values) : s = var_val_stack[x]
  BY DEF RenameInv, TypesInv
<1>4. phi_of(c, x) \in Values
  BY <1>1, NamesTyped
<1>5. ASSUME has_phi(c, x) PROVE top(begins(c, x)) = phi_of(c, x)
  <2>1. /\ Append(s, phi_of(c, x)) # <<>>
        /\ Last(Append(s, phi_of(c, x))) = phi_of(c, x)
    BY <1>3, <1>4 DEF Last
  <2> QED
    BY <1>2, <1>3, <1>5, <2>1 DEF top
<1>6. Len(s) = Depth(Len(path), x)
  BY <1>3 DEF RenameInv, StackInv
<1>7. CASE path = <<>>
  <2>1. Len(s) = 0
    BY <1>6, <1>7, DepthNone
  <2>2. s = <<>>
    BY <2>1, EmptySequence
  <2> QED
    BY <1>2, <1>3, <1>5, <1>7, <2>2 DEF top
<1>8. CASE path # <<>>
  <2>1. path \in Seq(bb_rename)
    BY DEF RenameInv, TypesInv
  <2>2. PICK n \in Nat : n = Len(path) /\ n \in DOMAIN path
    BY <1>8, <2>1
  <2>3. value_at(s, Len(s)) = Out(Last(path), x)
    BY <1>3, <1>6, <2>2 DEF RenameInv, StackInv, Last
  <2>4. top(s) = value_at(s, Len(s))
    <3>1. CASE s = <<>>
      BY <3>1 DEF top, value_at
    <3>2. CASE s # <<>>
      <4>1. Len(s) # 0
        BY <3>2, EmptySequence
      <4> QED
        BY <3>2, <4>1 DEF top, value_at, Last
    <3> QED
      BY <3>1, <3>2
  <2> QED
    BY <1>2, <1>3, <1>5, <1>8, <2>3, <2>4
<1> QED
  BY <1>7, <1>8

(* What entering a block does, where it does not fail.                      *)
LEMMA RenamedState ==
    ASSUME Safe, RenameInv, NEW c, Enters(c), phase' # "crash"
    PROVE  /\ UNCHANGED <<succ_bbs, code, dom_tree_succ, phis, erased>>
           /\ phase' = "rename" /\ path' = Append(path, c) /\ bb_rename' = bb_rename \cup {c}
           /\ phi_args' = FillPhis(var_val_stack', c)
           /\ DOMAIN tops' = bb_rename \cup {c} /\ tops'[c] = [x \in Vars |-> top(begins(c, x))]
           /\ \A b \in bb_rename : tops'[b] = tops[b]
           /\ var_val_stack' \in [Vars -> Seq(Values)] /\ replaced' \in Maps
           /\ LoopOk([stack |-> var_val_stack', replaced |-> replaced'], c, Len(code[c]))
<1>1. PICK s : s = RenameInstrs(c)
  OBVIOUS
<1>2. Rename(c) /\ c \notin bb_rename
  BY DEF Enters
<1>3. /\ tops' = put(tops, c, [x \in Vars |-> top(PushPhis(var_val_stack, c)[x])])
      /\ replaced' = s.replaced /\ var_val_stack' = s.stack
      /\ UNCHANGED <<succ_bbs, code, dom_tree_succ, phis, erased>>
      /\ IF s.ok THEN /\ phi_args' = FillPhis(s.stack, c) /\ path' = Append(path, c)
                      /\ bb_rename' = bb_rename \cup {c} /\ phase' = "rename"
                 ELSE phase' = "crash"
  BY <1>1, <1>2 DEF Rename, program_vars, dom_vars, phi_vars
<1>4. s.ok
  BY <1>3
<1>5. s \in RenameStates /\ LoopOk(s, c, Len(code[c]))
  BY <1>1, <1>4, EntersReady DEF LoopInv
<1>6. /\ var_val_stack' \in [Vars -> Seq(Values)] /\ replaced' \in Maps
  BY <1>3, <1>5 DEF RenameStates
<1>7. DOMAIN tops = bb_rename
  BY DEF RenameInv, TypesInv
<1>8. /\ DOMAIN tops' = bb_rename \cup {c} /\ tops'[c] = [x \in Vars |-> top(begins(c, x))]
      /\ \A b \in bb_rename : tops'[b] = tops[b]
  BY <1>2, <1>3, <1>7 DEF put, begins
<1>9. LoopOk([stack |-> var_val_stack', replaced |-> replaced'], c, Len(code[c]))
  <2> DEFINE r == [stack |-> var_val_stack', replaced |-> replaced']
  <2>1. r.stack = s.stack /\ r.replaced = s.replaced
    BY <1>3
  <2> HIDE DEF r
  <2>2. LoopOk(r, c, Len(code[c]))
    BY <1>5, <2>1 DEF LoopOk
  <2> QED
    BY <2>2 DEF r
<1> QED
  BY <1>3, <1>4, <1>6, <1>8, <1>9

LEMMA RenamedValues ==
    ASSUME Safe, RenameInv, NEW c, Enters(c), phase' # "crash"
    PROVE  /\ \A b \in bb_rename, n \in Nat, x \in Vars : Reaching(b, n, x)' = Reaching(b, n, x)
           /\ \A b \in bb_rename, x \in Vars : Out(b, x)' = Out(b, x)
           /\ \A x \in Vars : Out(c, x)' = top(var_val_stack'[x])
           /\ \A x \in Vars : Reaching(c, 0, x)' = top(begins(c, x))
           /\ \A b \in bb_rename \cup {c}, i \in Nat : is_load(b, i) =>
                 /\ load_of(b, i) \in DOMAIN replaced'
                 /\ replaced'[load_of(b, i)] = Reaching(b, i - 1, code[b][i].var)'
                 /\ replaced'[load_of(b, i)] # NoValue
           /\ \A b \in Blocks \ (bb_rename \cup {c}), i \in Nat : load_of(b, i) \notin DOMAIN replaced'
<1> DEFINE r == [stack |-> var_val_stack', replaced |-> replaced']
<1>1. /\ code' = code /\ tops'[c] = [x \in Vars |-> top(begins(c, x))]
      /\ \A b \in bb_rename : tops'[b] = tops[b]
      /\ LoopOk(r, c, Len(code[c])) /\ r.replaced = replaced' /\ r.stack = var_val_stack'
  BY RenamedState
<1> HIDE DEF r
<1>2. CodeInv /\ c \in Blocks /\ c \notin bb_rename /\ bb_rename \subseteq Blocks
  BY EntersReady, Dominance DEF Safe, Enters, RenameInv, TypesInv
<1>3. \A p \in DOMAIN replaced : p \in DOMAIN replaced' /\ replaced'[p] = replaced[p]
  BY <1>1 DEF LoopOk
<1>4. \A b, n, x : Reaching(b, n, x)' = ReachingIn(replaced', tops'[b][x], b, n, x)
  <2> SUFFICES ASSUME NEW b, NEW n, NEW x
               PROVE  Reaching(b, n, x)' = ReachingIn(replaced', tops'[b][x], b, n, x)
    OBVIOUS
  <2> DEFINE S(cd) == {i \in {k \in DOMAIN cd[b] : cd[b][k].op = "store" /\ cd[b][k].var = x} : i <= n}
             last(cd) == CHOOSE i \in S(cd) : \A j \in S(cd) : j <= i
             rval(cd, map, i) ==
                LET p == load_of(b, cd[b][i].rval)
                IN  IF cd[b][i].rval = 0 THEN value_of(b, i) ELSE IF p \in DOMAIN map THEN map[p] ELSE p
             F(cd, map, t) == IF S(cd) = {} THEN t ELSE rval(cd, map, last(cd))
  <2>1. Reaching(b, n, x)' = F(code', replaced', tops'[b][x])
    BY DEF Reaching, get_rval, stores, is_store
  <2>2. ReachingIn(replaced', tops'[b][x], b, n, x) = F(code, replaced', tops'[b][x])
    BY DEF ReachingIn, get_rval, until, latest, stores, is_store
  <2> HIDE DEF F
  <2> QED
    BY <1>1, <2>1, <2>2
<1>5. ASSUME NEW b \in bb_rename, NEW n \in Nat, NEW x \in Vars
      PROVE  Reaching(b, n, x)' = Reaching(b, n, x)
  <2>1. \A l \in Nat : is_load(b, l) /\ l < n =>
            /\ load_of(b, l) \in DOMAIN replaced' /\ load_of(b, l) \in DOMAIN replaced
            /\ replaced'[load_of(b, l)] = replaced[load_of(b, l)]
    BY <1>3 DEF RenameInv, ValueInv
  <2>2. ReachingIn(replaced', tops[b][x], b, n, x) = ReachingIn(replaced, tops[b][x], b, n, x)
    BY <1>2, <2>1, ReachingStable
  <2> QED
    BY <1>1, <1>4, <2>2, ReachingIs
<1>6. \A b \in bb_rename, x \in Vars : Out(b, x)' = Out(b, x)
  <2> SUFFICES ASSUME NEW b \in bb_rename, NEW x \in Vars PROVE Out(b, x)' = Out(b, x)
    OBVIOUS
  <2>1. PICK n \in Nat : n = Len(code[b])
    BY <1>2, Types
  <2>2. Out(b, x)' = Reaching(b, n, x)'
    BY <1>1, <2>1 DEF Out
  <2> QED
    BY <1>5, <2>1, <2>2 DEF Out
<1>7. \A n \in Nat, x \in Vars :
          Reaching(c, n, x)' = ReachingIn(replaced', top(begins(c, x)), c, n, x)
  BY <1>1, <1>4
<1>8. PICK l \in Nat : l = Len(code[c]) /\ DOMAIN code[c] = 1 .. l
  BY <1>2, Types
<1>9. \A x \in Vars : Out(c, x)' = top(var_val_stack'[x])
  <2> SUFFICES ASSUME NEW x \in Vars PROVE Out(c, x)' = top(var_val_stack'[x])
    OBVIOUS
  <2>1. Out(c, x)' = Reaching(c, l, x)'
    BY <1>1, <1>8 DEF Out
  <2> QED
    BY <1>1, <1>7, <1>8, <2>1 DEF LoopOk
<1>10. \A x \in Vars : Reaching(c, 0, x)' = top(begins(c, x))
  BY <1>2, <1>7, ReachingNext
<1>11. ASSUME NEW i \in Nat, is_load(c, i)
       PROVE  /\ load_of(c, i) \in DOMAIN replaced'
              /\ replaced'[load_of(c, i)] = Reaching(c, i - 1, code[c][i].var)'
              /\ replaced'[load_of(c, i)] # NoValue
  <2>1. i \in 1 .. l /\ i - 1 \in Nat
    BY <1>8, <1>11 DEF is_load
  <2>2. PICK y \in Vars : y = code[c][i].var
    BY <1>2, <1>11, StoreOrLoad DEF is_load
  <2>3. Reaching(c, i - 1, code[c][i].var)' = Reaching(c, i - 1, y)'
    BY <1>1, <2>2
  <2>4. Reaching(c, i - 1, y)' = ReachingIn(replaced', top(begins(c, y)), c, i - 1, y)
    BY <1>7, <2>1
  <2>5. load_of(c, i) \in DOMAIN replaced'
    BY <1>1, <1>8, <1>11, <2>1 DEF LoopOk
  <2>6. /\ replaced'[load_of(c, i)] = ReachingIn(replaced', top(begins(c, y)), c, i - 1, y)
        /\ replaced'[load_of(c, i)] # NoValue
    BY <1>1, <1>8, <1>11, <2>1, <2>2 DEF LoopOk
  <2> QED
    BY <2>3, <2>4, <2>5, <2>6
<1>12. ASSUME NEW b \in bb_rename, NEW i \in Nat, is_load(b, i)
       PROVE  /\ load_of(b, i) \in DOMAIN replaced'
              /\ replaced'[load_of(b, i)] = Reaching(b, i - 1, code[b][i].var)'
              /\ replaced'[load_of(b, i)] # NoValue
  <2>1. i \in DOMAIN code[b] /\ i - 1 \in Nat
    BY <1>2, <1>12, Until, Types DEF is_load
  <2>2. PICK y \in Vars : y = code[b][i].var
    BY <1>2, <2>1, StoreOrLoad
  <2>3. Reaching(b, i - 1, code[b][i].var)' = Reaching(b, i - 1, y)
    BY <1>1, <1>5, <2>1, <2>2
  <2> QED
    BY <1>3, <1>12, <2>2, <2>3 DEF RenameInv, ValueInv
<1>13. ASSUME NEW b \in Blocks \ (bb_rename \cup {c}), NEW i \in Nat
       PROVE  load_of(b, i) \notin DOMAIN replaced'
  <2>1. load_of(b, i) \notin DOMAIN replaced
    BY DEF RenameInv, ValueInv
  <2>2. \A j : load_of(b, i) # load_of(c, j)
    BY DEF load_of
  <2> QED
    BY <1>1, <2>1, <2>2 DEF LoopOk
<1> QED
  BY <1>5, <1>6, <1>9, <1>10, <1>11, <1>12, <1>13

LEMMA SeqWiden ==
    ASSUME NEW S, NEW s \in Seq(S), NEW T, S \subseteq T
    PROVE  s \in Seq(T)
OBVIOUS

Appends(a, s, v) == a = Append(s, v)

LEMMA AppendIn ==
    ASSUME NEW T, NEW s \in Seq(T), NEW v \in T, NEW a, Appends(a, s, v)
    PROVE  /\ a \in Seq(T) /\ a # <<>>
           /\ Len(s) \in Nat /\ DOMAIN s = 1 .. Len(s)
           /\ DOMAIN a = 1 .. Len(s) + 1 /\ Len(a) = Len(s) + 1
           /\ \A k \in 1 .. Len(s) : a[k] = s[k]
           /\ a[Len(s) + 1] = v
           /\ ToSet(a) = ToSet(s) \cup {v}
<1>1. PICK n \in Nat : n = Len(s) /\ DOMAIN s = 1 .. n
  OBVIOUS
<1>2. /\ a \in Seq(T) /\ a # <<>> /\ DOMAIN a = 1 .. n + 1 /\ Len(a) = n + 1
      /\ \A k \in 1 .. n : a[k] = s[k]
      /\ a[n + 1] = v
  BY <1>1 DEF Appends
<1>3. ToSet(a) = ToSet(s) \cup {v}
  <2>1. \A k : k \in 1 .. n + 1 <=> (k \in 1 .. n \/ k = n + 1)
    OBVIOUS
  <2> QED
    BY <1>1, <1>2, <2>1 DEF ToSet
<1> QED
  BY <1>1, <1>2, <1>3

LEMMA EntersTypes ==
    ASSUME Safe, RenameInv, NEW c, Enters(c), phase' # "crash"
    PROVE  TypesInv'
<1>1. /\ path' = Append(path, c) /\ bb_rename' = bb_rename \cup {c}
      /\ DOMAIN tops' = bb_rename \cup {c} /\ tops'[c] = [x \in Vars |-> top(begins(c, x))]
      /\ \A b \in bb_rename : tops'[b] = tops[b]
      /\ var_val_stack' \in [Vars -> Seq(Values)] /\ replaced' \in Maps
      /\ succ_bbs' = succ_bbs
      /\ LoopOk([stack |-> var_val_stack', replaced |-> replaced'], c, Len(code[c]))
  BY RenamedState
<1>2. all' = all
  BY <1>1 DEF all
<1>3. c \in all /\ path \in Seq(bb_rename) /\ bb_rename \subseteq all
  BY DEF Enters, RenameInv, TypesInv
<1>4. path' \in Seq(bb_rename')
  BY <1>1, <1>3
<1>5. \A x \in Vars : \A k \in DOMAIN var_val_stack'[x] : var_val_stack'[x][k] # NoValue
  BY <1>1 DEF LoopOk
<1>6. \A x \in Vars : top(begins(c, x)) \in Values
  <2> SUFFICES ASSUME NEW x \in Vars PROVE top(begins(c, x)) \in Values
    OBVIOUS
  <2>1. PICK s \in Seq(Values) : s = begins(c, x)
    BY EntersReady, BeginsTyped DEF Safe
  <2>2. NoValue \in Values
    BY EntersReady, NamesTyped DEF Safe
  <2>3. CASE s # <<>>
    <3>1. PICK n \in Nat : n = Len(s) /\ n # 0
      BY <2>3
    <3>2. s[n] \in Values
      BY <3>1
    <3> QED
      BY <2>1, <2>3, <3>1, <3>2 DEF top, Last
  <2> QED
    BY <2>1, <2>2, <2>3 DEF top
<1>7. \A b \in bb_rename' : tops'[b] \in [Vars -> Values]
  BY <1>1, <1>6 DEF RenameInv, TypesInv
<1> QED
  BY <1>1, <1>2, <1>3, <1>4, <1>5, <1>7 DEF TypesInv

LEMMA EntersTree ==
    ASSUME Safe, RenameInv, NEW c, Enters(c), phase' # "crash"
    PROVE  TreeInv'
<1>1. /\ path' = Append(path, c) /\ bb_rename' = bb_rename \cup {c} /\ phase' = "rename"
      /\ UNCHANGED <<succ_bbs, code, dom_tree_succ, erased>>
  BY RenamedState
<1>2. all' = all /\ dom' = dom
  BY <1>1 DEF all, dom
<1>3. c \in all /\ path \in Seq(bb_rename) /\ bb_rename \subseteq all /\ CodeInv
  BY DEF Enters, RenameInv, TypesInv, Safe
<1>4. path' # <<>> /\ ToSet(path') = ToSet(path) \cup {c}
  <2>1. PICK p, a : p = path /\ a = path'
    OBVIOUS
  <2>2. p \in Seq(all)
    BY <1>3, <2>1, SeqWiden
  <2>3. Appends(a, p, c)
    BY <1>1, <2>1 DEF Appends
  <2>4. a # <<>> /\ ToSet(a) = ToSet(p) \cup {c}
    BY <1>3, <2>2, <2>3, AppendIn
  <2> QED
    BY <2>1, <2>4
<1>5. ASSUME NEW b \in bb_rename', NEW a \in all, b \in dom[a] PROVE a \in bb_rename'
  <2>1. CASE b \in bb_rename
    BY <1>1, <1>5, <2>1 DEF RenameInv, TreeInv
  <2>2. CASE b = c /\ path = <<>>
    BY <1>1, <1>3, <1>5, <2>2, Dominance DEF Enters
  <2>3. CASE b = c /\ path # <<>>
    <3>1. Last(path) \in bb_rename /\ c \in Children(dom, Last(path))
      BY <2>3 DEF Enters
    <3>2. a = c \/ Last(path) \in dom[a]
      BY <1>3, <1>5, <2>3, <3>1, ChildOf
    <3> QED
      BY <1>1, <3>1, <3>2 DEF RenameInv, TreeInv
  <2> QED
    BY <1>1, <2>1, <2>2, <2>3
<1>6. Entry \in bb_rename'
  <2>1. CASE path = <<>>
    BY <1>1, <2>1 DEF Enters
  <2>2. CASE path # <<>>
    <3>1. Last(path) \in bb_rename /\ Entry \in all /\ Last(path) \in dom[Entry]
      BY <1>3, <2>2, Dominance DEF Enters
    <3> QED
      BY <1>1, <3>1 DEF RenameInv, TreeInv
  <2> QED
    BY <2>1, <2>2
<1>7. ASSUME NEW b \in bb_rename' \ ToSet(path')
      PROVE  /\ dom_tree_succ'[b] \subseteq bb_rename'
             /\ \A x \in Vars : \A i \in stores(b, x)' : <<b, i>> \in erased'
  <2>1. b \in bb_rename \ ToSet(path)
    BY <1>1, <1>4
  <2>2. \A x : stores(b, x)' = stores(b, x)
    BY <1>1 DEF stores, is_store
  <2> QED
    BY <1>1, <2>1, <2>2 DEF RenameInv, TreeInv
<1> QED
  BY <1>1, <1>2, <1>4, <1>5, <1>6, <1>7 DEF TreeInv

LEMMA EntersValues ==
    ASSUME Safe, RenameInv, NEW c, Enters(c), phase' # "crash"
    PROVE  ValueInv'
<1>1. /\ bb_rename' = bb_rename \cup {c} /\ UNCHANGED <<succ_bbs, code, phis>>
      /\ tops'[c] = [x \in Vars |-> top(begins(c, x))]
      /\ \A b \in bb_rename : tops'[b] = tops[b]
  BY RenamedState
<1>2. Blocks' = Blocks /\ dom' = dom
  BY <1>1 DEF Blocks, dom
<1>3. /\ \A b, x : has_phi(b, x)' <=> has_phi(b, x)
      /\ \A b, i : is_load(b, i)' <=> is_load(b, i)
  BY <1>1 DEF has_phi, is_load
<1>4. c \in all \ bb_rename /\ CodeInv /\ bb_rename \subseteq all
  BY DEF Enters, RenameInv, TypesInv, Safe
<1>5. \A b \in bb_rename', x \in Vars : has_phi(b, x) => tops'[b][x] = phi_of(b, x)
  BY <1>1, EntersTop DEF RenameInv, ValueInv
<1>6. c = Entry <=> path = <<>>
  <2>1. path # <<>> => c # Entry
    BY <1>4, ChildOf DEF Enters
  <2> QED
    BY <2>1 DEF Enters
<1>7. ASSUME NEW x \in Vars, Entry \in bb_rename', ~has_phi(Entry, x)
      PROVE  tops'[Entry][x] = NoValue
  BY <1>1, <1>6, <1>7, EntersTop DEF RenameInv, ValueInv
<1>8. ASSUME NEW b \in bb_rename' \ {Entry}
      PROVE  \E u \in bb_rename' :
                /\ b \in Children(dom, u)
                /\ \A x \in Vars : ~has_phi(b, x) => tops'[b][x] = Out(u, x)'
  <2>1. CASE b = c
    <3>1. path # <<>>
      BY <1>6, <1>8, <2>1
    <3>2. Last(path) \in bb_rename /\ c \in Children(dom, Last(path))
      BY <3>1 DEF Enters
    <3>3. \A x \in Vars : ~has_phi(c, x) => tops'[c][x] = Out(Last(path), x)
      BY <1>1, <3>1, EntersTop
    <3>4. PICK u : u = Last(path)
      OBVIOUS
    <3>5. \A x \in Vars : Out(u, x)' = Out(u, x)
      BY <3>2, <3>4, RenamedValues
    <3> QED
      BY <1>1, <2>1, <3>2, <3>3, <3>4, <3>5
  <2>2. CASE b # c
    <3>1. b \in bb_rename \ {Entry}
      BY <1>1, <1>8, <2>2
    <3>2. PICK u \in bb_rename : /\ b \in Children(dom, u)
                                 /\ \A x \in Vars : ~has_phi(b, x) => tops[b][x] = Out(u, x)
      BY <3>1 DEF RenameInv, ValueInv
    <3>3. \A x \in Vars : Out(u, x)' = Out(u, x)
      BY RenamedValues
    <3> QED
      BY <1>1, <3>1, <3>2, <3>3
  <2> QED
    BY <2>1, <2>2
<1>9. \A b \in bb_rename', i \in Nat : is_load(b, i) =>
          /\ load_of(b, i) \in DOMAIN replaced'
          /\ replaced'[load_of(b, i)] = Reaching(b, i - 1, code[b][i].var)'
          /\ replaced'[load_of(b, i)] # NoValue
  BY <1>1, RenamedValues
<1>10. \A b \in Blocks \ bb_rename', i \in Nat : load_of(b, i) \notin DOMAIN replaced'
  BY <1>1, RenamedValues
<1> QED
  BY <1>1, <1>2, <1>3, <1>5, <1>7, <1>8, <1>9, <1>10 DEF ValueInv

LEMMA DepthSteps ==
    CodeInv /\ path \in Seq(Blocks) =>
        \A x \in Vars, k \in Nat : k + 1 \in DOMAIN path =>
            Depth(k + 1, x) = Depth(k, x) + Pushed(path[k + 1], x)
<1> SUFFICES ASSUME CodeInv, path \in Seq(Blocks), NEW x \in Vars, NEW k \in Nat,
                    k + 1 \in DOMAIN path
             PROVE  Depth(k + 1, x) = Depth(k, x) + Pushed(path[k + 1], x)
  OBVIOUS
<1> QED
  BY DepthStep

LEMMA PushedNat ==
    ASSUME CodeInv, NEW b \in Blocks, NEW x
    PROVE  Pushed(b, x) \in Nat
<1>1. Cardinality(stores(b, x)) \in Nat
  BY Types, Until
<1> QED
  BY <1>1 DEF Pushed

LEMMA DepthGrows ==
    ASSUME CodeInv, path \in Seq(Blocks), NEW x \in Vars, NEW n \in Nat, n = Len(path)
    PROVE  \A k \in 0 .. n : /\ Depth(k, x) \in Nat
                             /\ \A j \in 0 .. k : Depth(j, x) \in Nat /\ Depth(j, x) <= Depth(k, x)
<1> DEFINE T == {k \in Nat : k <= n => /\ Depth(k, x) \in Nat
                                       /\ \A j \in 0 .. k : Depth(j, x) \in Nat /\ Depth(j, x) <= Depth(k, x)}
<1>1. 0 \in T
  <2>1. Depth(0, x) = 0 /\ \A j \in 0 .. 0 : j = 0
    BY DepthNone
  <2> QED
    BY <2>1
<1>2. ASSUME NEW k \in Nat, k \in T PROVE k + 1 \in T
  <2> SUFFICES ASSUME k + 1 <= n
               PROVE  /\ Depth(k + 1, x) \in Nat
                      /\ \A j \in 0 .. k + 1 : Depth(j, x) \in Nat /\ Depth(j, x) <= Depth(k + 1, x)
    OBVIOUS
  <2>1. k + 1 \in DOMAIN path /\ k <= n
    OBVIOUS
  <2>2. PICK d, e \in Nat : d = Depth(k, x) /\ e = Pushed(path[k + 1], x)
    BY <2>1, DepthStep
  <2>3. Depth(k + 1, x) = d + e
    BY <2>1, <2>2, DepthStep
  <2>4. \A j \in 0 .. k : Depth(j, x) \in Nat /\ Depth(j, x) <= d
    BY <1>2, <2>1, <2>2
  <2>5. \A j \in 0 .. k : Depth(j, x) \in Nat /\ Depth(j, x) <= d + e
    BY <2>4
  <2>6. \A j \in 0 .. k + 1 : j \in 0 .. k \/ j = k + 1
    OBVIOUS
  <2> QED
    BY <2>3, <2>5, <2>6
<1> HIDE DEF T
<1>3. \A k \in Nat : k \in T
  BY <1>1, <1>2, Induction
<1>4. \A k \in 0 .. n : k \in Nat /\ k <= n
  OBVIOUS
<1> QED
  BY <1>3, <1>4 DEF T

LEMMA DepthStepsNext ==
    (CodeInv /\ path \in Seq(Blocks) =>
        \A x \in Vars, k \in Nat : k + 1 \in DOMAIN path =>
            Depth(k + 1, x) = Depth(k, x) + Pushed(path[k + 1], x))'
BY DepthSteps, PTL

(* The stacks as the block is left for its children.                        *)
LEMMA EntersStack ==
    ASSUME Safe, RenameInv, NEW c, Enters(c), phase' # "crash"
    PROVE  StackInv'
<1>1. /\ path' = Append(path, c) /\ bb_rename' = bb_rename \cup {c}
      /\ UNCHANGED <<succ_bbs, code, phis>>
      /\ var_val_stack' \in [Vars -> Seq(Values)]
      /\ LoopOk([stack |-> var_val_stack', replaced |-> replaced'], c, Len(code[c]))
  BY RenamedState
<1>2. /\ CodeInv /\ c \in Blocks /\ LoopReady(c) /\ bb_rename \subseteq Blocks
      /\ path \in Seq(bb_rename) /\ path \in Seq(Blocks)
  <2>1. /\ CodeInv /\ c \in Blocks /\ LoopReady(c) /\ bb_rename \subseteq Blocks
        /\ path \in Seq(bb_rename)
    BY EntersReady, Dominance DEF Safe, RenameInv, TypesInv
  <2> QED
    BY <2>1, SeqWiden
<1>3. PICK p, q : p = path /\ q = path'
  OBVIOUS
<1>4. PICK m \in Nat : m = Len(path)
  BY <1>2
<1>5. /\ p \in Seq(Blocks) /\ q \in Seq(Blocks) /\ DOMAIN p = 1 .. m /\ DOMAIN q = 1 .. m + 1
      /\ Len(q) = m + 1 /\ Len(p) = m
      /\ \A k \in 1 .. m : q[k] = p[k] /\ p[k] \in bb_rename
      /\ q[m + 1] = c
  <2>1. Appends(q, p, c)
    BY <1>1, <1>3 DEF Appends
  <2>2. \A k \in 1 .. m : p[k] \in bb_rename
    BY <1>2, <1>3, <1>4
  <2> QED
    BY <1>2, <1>3, <1>4, <2>1, <2>2, AppendIn
<1>6. /\ CodeInv'
      /\ \A b \in Blocks : \A x : Pushed(b, x)' = Pushed(b, x)
      /\ \A b, x : stores(b, x)' = stores(b, x) /\ (has_phi(b, x)' <=> has_phi(b, x))
      /\ Blocks' = Blocks
  BY <1>1, <1>2 DEF CodeInv, Blocks, stores, is_store, has_phi, Pushed
<1> SUFFICES ASSUME NEW x \in Vars
             PROVE  /\ Len(var_val_stack'[x]) = Depth(Len(path), x)'
                    /\ \A k \in DOMAIN path' :
                          value_at(var_val_stack[x], Depth(k, x))' = Out(path[k], x)'
  BY DEF StackInv
<1>7. \A k \in 1 .. m : pushes(k, x)' = pushes(k, x)
  BY <1>3, <1>5, <1>6 DEF pushes
<1>8. \A k \in 0 .. m : Depth(k, x)' = Depth(k, x)
  <2> SUFFICES ASSUME NEW k \in 0 .. m PROVE Depth(k, x)' = Depth(k, x)
    OBVIOUS
  <2>1. \A j \in 1 .. k : pushes(j, x)' = pushes(j, x)
    BY <1>7
  <2> QED
    BY <2>1 DEF Depth
<1>9. PICK d, e \in Nat : d = Depth(m, x) /\ e = Pushed(c, x)
  <2>1. Depth(m, x) \in Nat
    BY <1>2, <1>4, DepthGrows
  <2>2. Pushed(c, x) \in Nat
    BY <1>2, PushedNat
  <2> QED
    BY <2>1, <2>2
<1>10. Depth(m + 1, x)' = d + e
  <2>1. m + 1 \in DOMAIN path' /\ path' \in Seq(Blocks')
    BY <1>3, <1>5, <1>6
  <2>2. Depth(m + 1, x)' = Depth(m, x)' + Pushed(path[m + 1], x)'
    BY <1>6, <2>1, DepthStepsNext
  <2>3. Pushed(path[m + 1], x)' = e
    BY <1>1, <1>3, <1>5, <1>6, <1>9 DEF Pushed, stores, is_store, has_phi
  <2> QED
    BY <1>8, <1>9, <2>2, <2>3
<1>11. PICK s, t \in Seq(Values) : s = var_val_stack[x] /\ t = var_val_stack'[x]
  BY <1>1 DEF RenameInv, TypesInv
<1>12. /\ Len(s) = d /\ Len(t) = d + e
       /\ \A j \in 1 .. d : t[j] = s[j]
  <2>1. Len(s) = d
    BY <1>4, <1>9, <1>11 DEF RenameInv, StackInv
  <2>2. /\ Len(begins(c, x)) = d + (IF has_phi(c, x) THEN 1 ELSE 0)
        /\ \A j \in 1 .. d : begins(c, x)[j] = s[j]
    <3>1. phi_of(c, x) \in Values
      BY <1>2, NamesTyped
    <3>2. begins(c, x) = IF has_phi(c, x) THEN Append(s, phi_of(c, x)) ELSE s
      BY <1>2, <1>11, BeginsTyped
    <3> QED
      BY <1>11, <2>1, <3>1, <3>2
  <2>3. /\ Len(t) = Len(begins(c, x)) + Cardinality(until(c, Len(code[c]), x))
        /\ \A j \in 1 .. Len(begins(c, x)) : t[j] = begins(c, x)[j]
    BY <1>1, <1>11 DEF LoopOk
  <2>4. until(c, Len(code[c]), x) = stores(c, x) /\ Cardinality(stores(c, x)) \in Nat
    BY <1>2, Types, Until
  <2>5. PICK z \in Nat : z = Cardinality(stores(c, x))
    BY <2>4
  <2>6. e = z + (IF has_phi(c, x) THEN 1 ELSE 0)
    BY <1>9, <2>5 DEF Pushed
  <2>7. Len(t) = d + e
    BY <2>2, <2>3, <2>4, <2>5, <2>6
  <2>8. \A j \in 1 .. d : t[j] = s[j]
    BY <2>2, <2>3
  <2> QED
    BY <2>1, <2>7, <2>8
<1>13. Len(var_val_stack'[x]) = Depth(Len(path), x)'
  <2>1. Len(path)' = m + 1
    BY <1>3, <1>5
  <2> QED
    BY <1>10, <1>11, <1>12, <2>1
<1>14. ASSUME NEW k \in 1 .. m
       PROVE  value_at(var_val_stack[x], Depth(k, x))' = Out(path[k], x)'
  <2>1. PICK b \in bb_rename : b = p[k]
    BY <1>5
  <2>2. Out(path[k], x)' = Out(b, x)'
    BY <1>3, <1>5, <2>1
  <2>3. Out(b, x)' = Out(b, x)
    BY RenamedValues
  <2>4. PICK f \in Nat : f = Depth(k, x) /\ f <= d
    BY <1>2, <1>4, <1>9, DepthGrows, SMTT(30)
  <2>5. Depth(k, x)' = f
    BY <1>8, <2>4
  <2>6. value_at(s, f) = Out(b, x)
    BY <1>3, <1>5, <1>11, <2>1, <2>4 DEF RenameInv, StackInv
  <2>7. value_at(t, f) = value_at(s, f)
    <3>1. f = 0 \/ f \in 1 .. d
      BY <2>4
    <3> QED
      BY <1>12, <3>1 DEF value_at
  <2> QED
    BY <1>11, <2>2, <2>3, <2>5, <2>6, <2>7
<1>15. value_at(var_val_stack[x], Depth(m + 1, x))' = Out(path[m + 1], x)'
  <2>1. Out(path[m + 1], x)' = Out(c, x)'
    BY <1>3, <1>5
  <2>2. Out(c, x)' = top(t)
    BY <1>11, RenamedValues
  <2>3. top(t) = value_at(t, d + e)
    <3>1. CASE t = <<>>
      BY <1>12, <3>1 DEF top, value_at
    <3>2. CASE t # <<>>
      <4>1. Len(t) # 0
        BY <3>2, EmptySequence
      <4> QED
        BY <1>12, <3>2, <4>1 DEF top, value_at, Last
    <3> QED
      BY <3>1, <3>2
  <2> QED
    BY <1>10, <1>11, <2>1, <2>2, <2>3
<1>16. \A k \in DOMAIN path' : k \in 1 .. m \/ k = m + 1
  BY <1>3, <1>5
<1> QED
  BY <1>13, <1>14, <1>15, <1>16

LEMMA EntersRename ==
    ASSUME Safe, RenameInv, NEW c, Enters(c), phase' # "crash"
    PROVE  RenameInv'
BY EntersTypes, EntersTree, EntersStack, EntersValues DEF RenameInv

-----------------------------------------------------------------------------
(* What a block's end stands for depends on these variables only.           *)
LEMMA ValuesStay ==
    ASSUME UNCHANGED <<succ_bbs, code, phis, replaced, tops, bb_rename>>
    PROVE  /\ \A b, n, x : Reaching(b, n, x)' = Reaching(b, n, x)
           /\ \A b, x : Out(b, x)' = Out(b, x)
           /\ ValueInv => ValueInv'
<1>1. \A b, n, x : Reaching(b, n, x)' = Reaching(b, n, x)
  <2> SUFFICES ASSUME NEW b, NEW n, NEW x PROVE Reaching(b, n, x)' = Reaching(b, n, x)
    OBVIOUS
  <2> DEFINE S(cd) == {i \in {k \in DOMAIN cd[b] : cd[b][k].op = "store" /\ cd[b][k].var = x} : i <= n}
             last(cd) == CHOOSE i \in S(cd) : \A j \in S(cd) : j <= i
             rval(cd, map, i) ==
                LET p == load_of(b, cd[b][i].rval)
                IN  IF cd[b][i].rval = 0 THEN value_of(b, i) ELSE IF p \in DOMAIN map THEN map[p] ELSE p
             F(cd, map, t) == IF S(cd) = {} THEN t ELSE rval(cd, map, last(cd))
  <2>1. Reaching(b, n, x)' = F(code', replaced', tops'[b][x])
    BY DEF Reaching, get_rval, stores, is_store
  <2>2. Reaching(b, n, x) = F(code, replaced, tops[b][x])
    BY DEF Reaching, get_rval, stores, is_store
  <2> HIDE DEF F
  <2> QED
    BY <2>1, <2>2
<1>2. \A b, x : Out(b, x)' = Out(b, x)
  <2> SUFFICES ASSUME NEW b, NEW x PROVE Out(b, x)' = Out(b, x)
    OBVIOUS
  <2>1. PICK n : n = Len(code[b])
    OBVIOUS
  <2>2. Out(b, x)' = Reaching(b, n, x)'
    BY <2>1 DEF Out
  <2> QED
    BY <1>1, <2>1, <2>2 DEF Out
<1>3. ASSUME ValueInv PROVE ValueInv'
  <2>1. /\ Blocks' = Blocks /\ dom' = dom
        /\ \A b, x : has_phi(b, x)' <=> has_phi(b, x)
        /\ \A b, i : is_load(b, i)' <=> is_load(b, i)
    BY DEF Blocks, dom, has_phi, is_load
  <2>2. ASSUME NEW b \in bb_rename, NEW i \in Nat, is_load(b, i)
        PROVE  Reaching(b, i - 1, code[b][i].var)' = Reaching(b, i - 1, code[b][i].var)
    <3>1. PICK y : y = code[b][i].var
      OBVIOUS
    <3> QED
      BY <1>1, <3>1
  <2> QED
    BY <1>2, <1>3, <2>1, <2>2 DEF ValueInv
<1> QED
  BY <1>1, <1>2, <1>3

(* Nothing of rename changes.                                               *)
LEMMA RenameStays ==
    ASSUME Safe, RenameInv, UNCHANGED <<program_vars, phase, dom_vars, phi_vars, rename_vars>>
    PROVE  RenameInv'
<1>1. /\ UNCHANGED <<succ_bbs, code, phis, replaced, tops, bb_rename>>
      /\ UNCHANGED <<phase, dom_tree_succ, var_val_stack, path, erased>>
  BY DEF program_vars, dom_vars, phi_vars, rename_vars
<1>2. /\ Blocks' = Blocks /\ dom' = dom /\ all' = all
      /\ \A b, x : stores(b, x)' = stores(b, x) /\ (has_phi(b, x)' <=> has_phi(b, x))
  BY <1>1 DEF Blocks, dom, all, stores, is_store, has_phi
<1>3. ValueInv'
  BY <1>1, ValuesStay DEF RenameInv
<1>4. TypesInv' /\ TreeInv'
  BY <1>1, <1>2 DEF RenameInv, TypesInv, TreeInv
<1>5. StackInv'
  <2>1. \A k, x : pushes(k, x)' = pushes(k, x)
    BY <1>1, <1>2 DEF pushes
  <2>2. \A k, x : Depth(k, x)' = Depth(k, x)
    BY <2>1 DEF Depth
  <2>3. PICK m : m = Len(path)
    OBVIOUS
  <2>4. \A x : Depth(Len(path), x)' = Depth(m, x)
    BY <1>1, <2>2, <2>3
  <2>5. ASSUME NEW k \in DOMAIN path, NEW x PROVE Out(path[k], x)' = Out(path[k], x)
    <3>1. PICK b : b = path[k]
      OBVIOUS
    <3>2. Out(path[k], x)' = Out(b, x)'
      BY <1>1, <3>1
    <3> QED
      BY <1>1, <3>1, <3>2, ValuesStay
  <2> QED
    BY <1>1, <2>2, <2>3, <2>4, <2>5 DEF RenameInv, StackInv, value_at
<1> QED
  BY <1>3, <1>4, <1>5 DEF RenameInv

(* Before rename begins.                                                    *)
LEMMA RenameFresh == Safe /\ phase \in {"write", "phi"} => RenameInv
<1> SUFFICES ASSUME Safe, phase \in {"write", "phi"} PROVE RenameInv
  OBVIOUS
<1>1. /\ path = <<>> /\ bb_rename = {} /\ erased = {} /\ replaced = <<>> /\ tops = <<>>
      /\ var_val_stack = [x \in Vars |-> <<>>]
  BY DEF Safe, PhaseInv
<1>2. DOMAIN replaced = {} /\ DOMAIN tops = {} /\ DOMAIN path = {} /\ Len(path) = 0
  BY <1>1
<1>3. TypesInv
  <2>1. replaced \in [{} -> Values]
    BY <1>1, <1>2
  <2>2. replaced \in Maps
    BY <2>1 DEF Maps
  <2>3. \A x \in Vars : var_val_stack[x] = <<>> /\ DOMAIN var_val_stack[x] = {}
    BY <1>1
  <2>4. var_val_stack \in [Vars -> Seq(Values)] /\ path \in Seq(bb_rename)
    BY <1>1
  <2> QED
    BY <1>1, <1>2, <2>2, <2>3, <2>4 DEF TypesInv
<1>4. TreeInv
  BY <1>1 DEF TreeInv
<1>5. StackInv
  <2>1. \A x \in Vars : Len(var_val_stack[x]) = 0
    BY <1>1
  <2> QED
    BY <1>2, <2>1, DepthNone DEF StackInv
<1>6. ValueInv
  BY <1>1, <1>2 DEF ValueInv
<1> QED
  BY <1>3, <1>4, <1>5, <1>6 DEF RenameInv

LEMMA RenameFreshNext == (Safe /\ phase \in {"write", "phi"} => RenameInv)'
BY RenameFresh, PTL

(* A block is left: exactly what it has pushed is popped.                   *)
LEMMA ReturnPops ==
    ASSUME Safe, RenameInv, RenameReturn
    PROVE  \E n \in Nat, bb \in bb_rename :
              /\ Len(path) = n + 1 /\ DOMAIN path = 1 .. n + 1 /\ path[n + 1] = bb /\ bb = Last(path)
              /\ path' \in Seq(bb_rename) /\ Len(path') = n /\ DOMAIN path' = 1 .. n
              /\ \A k \in 1 .. n : path'[k] = path[k] /\ path[k] \in bb_rename
              /\ \A x \in Vars :
                    /\ Depth(n, x) \in Nat
                    /\ var_val_stack'[x] \in Seq(Values)
                    /\ Len(var_val_stack'[x]) = Depth(n, x)
                    /\ Len(var_val_stack[x]) >= Depth(n, x)
                    /\ \A j \in 1 .. Depth(n, x) : var_val_stack'[x][j] = var_val_stack[x][j]
<1>1. /\ phase = "rename" /\ path' = Front(path)
      /\ var_val_stack' = [x \in Vars |-> Emptied(var_val_stack[x], Pushed(Last(path), x))]
  BY DEF RenameReturn
<1>2. path # <<>> /\ path \in Seq(bb_rename) /\ CodeInv /\ bb_rename \subseteq Blocks
  BY <1>1, Dominance DEF RenameInv, TreeInv, TypesInv, Safe
<1>3. PICK n \in Nat : Len(path) = n + 1 /\ DOMAIN path = 1 .. n + 1
  <2>1. PICK l \in Nat : l = Len(path) /\ DOMAIN path = 1 .. l
    BY <1>2
  <2>2. l # 0
    BY <1>2, <2>1, EmptySequence
  <2>3. l - 1 \in Nat /\ l = (l - 1) + 1
    BY <2>2
  <2> QED
    BY <2>1, <2>3
<1>4. PICK bb \in bb_rename : bb = path[n + 1] /\ bb = Last(path)
  BY <1>2, <1>3 DEF Last
<1>5. /\ path' \in Seq(bb_rename) /\ Len(path') = n /\ DOMAIN path' = 1 .. n
      /\ \A k \in 1 .. n : path'[k] = path[k] /\ path[k] \in bb_rename
  BY <1>1, <1>2, <1>3 DEF Front
<1>6. path \in Seq(Blocks)
  BY <1>2, SeqWiden
<1>7. ASSUME NEW x \in Vars
      PROVE  /\ Depth(n, x) \in Nat
             /\ var_val_stack'[x] \in Seq(Values)
             /\ Len(var_val_stack'[x]) = Depth(n, x)
             /\ Len(var_val_stack[x]) >= Depth(n, x)
             /\ \A j \in 1 .. Depth(n, x) : var_val_stack'[x][j] = var_val_stack[x][j]
  <2>0. /\ Depth(n, x) \in Nat /\ Pushed(path[n + 1], x) \in Nat
        /\ Depth(n + 1, x) = Depth(n, x) + Pushed(path[n + 1], x)
    <3>1. n + 1 \in DOMAIN path
      BY <1>3
    <3> QED
      BY <1>2, <1>6, <3>1, DepthStep
  <2>1. PICK d, e \in Nat : d = Depth(n, x) /\ e = Pushed(bb, x)
    BY <1>4, <2>0
  <2>2. Depth(n + 1, x) = d + e
    BY <1>4, <2>0, <2>1
  <2>3. PICK s \in Seq(Values) : s = var_val_stack[x]
    BY DEF RenameInv, TypesInv
  <2>4. Len(s) = d + e
    BY <1>3, <2>2, <2>3 DEF RenameInv, StackInv
  <2>5. var_val_stack'[x] = SubSeq(s, 1, d)
    <3>1. Len(s) - e = d
      BY <2>4
    <3> QED
      BY <1>1, <1>4, <2>1, <2>3, <3>1 DEF Emptied
  <2>6. /\ SubSeq(s, 1, d) \in Seq(Values) /\ Len(SubSeq(s, 1, d)) = d
        /\ \A j \in 1 .. d : SubSeq(s, 1, d)[j] = s[j]
    BY <2>4
  <2>7. d + e >= d
    OBVIOUS
  <2> QED
    BY <2>1, <2>3, <2>4, <2>5, <2>6, <2>7
<1> QED
  BY <1>3, <1>4, <1>5, <1>7

LEMMA ReturnRename ==
    ASSUME Safe, RenameInv, RenameReturn
    PROVE  RenameInv'
<1>1. /\ phase = "rename" /\ phase' = IF Len(path) = 1 THEN "done" ELSE "rename"
      /\ dom_tree_succ[Last(path)] \subseteq bb_rename
      /\ erased' = erased \cup {<<Last(path), i>> : i \in UNION {stores(Last(path), x) : x \in Vars}}
      /\ UNCHANGED <<succ_bbs, code, dom_tree_succ, phis, replaced, tops, bb_rename>>
      /\ var_val_stack' = [x \in Vars |-> Emptied(var_val_stack[x], Pushed(Last(path), x))]
  BY DEF RenameReturn, program_vars, dom_vars, phi_vars
<1>2. PICK n \in Nat, bb \in bb_rename :
         /\ Len(path) = n + 1 /\ DOMAIN path = 1 .. n + 1 /\ path[n + 1] = bb /\ bb = Last(path)
         /\ path' \in Seq(bb_rename) /\ Len(path') = n /\ DOMAIN path' = 1 .. n
         /\ \A k \in 1 .. n : path'[k] = path[k] /\ path[k] \in bb_rename
         /\ \A x \in Vars :
               /\ Depth(n, x) \in Nat
               /\ var_val_stack'[x] \in Seq(Values)
               /\ Len(var_val_stack'[x]) = Depth(n, x)
               /\ Len(var_val_stack[x]) >= Depth(n, x)
               /\ \A j \in 1 .. Depth(n, x) : var_val_stack'[x][j] = var_val_stack[x][j]
  BY ReturnPops
<1>3. /\ CodeInv /\ bb_rename \subseteq Blocks /\ path \in Seq(bb_rename) /\ path \in Seq(Blocks)
  <2>1. /\ CodeInv /\ bb_rename \subseteq Blocks /\ path \in Seq(bb_rename)
    BY Dominance DEF Safe, RenameInv, TypesInv
  <2> QED
    BY <2>1, SeqWiden
<1>4. /\ Blocks' = Blocks /\ dom' = dom /\ all' = all
      /\ \A b, x : stores(b, x)' = stores(b, x) /\ (has_phi(b, x)' <=> has_phi(b, x))
  BY <1>1 DEF Blocks, dom, all, stores, is_store, has_phi
<1>5. ValueInv'
  BY <1>1, ValuesStay DEF RenameInv
<1>6. TypesInv'
  <2>1. var_val_stack' \in [Vars -> Seq(Values)]
    BY <1>1, <1>2
  <2>2. ASSUME NEW x \in Vars, NEW k \in DOMAIN var_val_stack'[x]
        PROVE  var_val_stack'[x][k] # NoValue
    <3>1. PICK s, t \in Seq(Values) : s = var_val_stack[x] /\ t = var_val_stack'[x]
      BY <1>2 DEF RenameInv, TypesInv
    <3>2. PICK d \in Nat : /\ d = Len(t) /\ Len(s) >= d
                           /\ \A j \in 1 .. d : t[j] = s[j]
      BY <1>2, <3>1
    <3>3. k \in 1 .. d /\ k \in DOMAIN s
      BY <3>1, <3>2
    <3> QED
      BY <3>1, <3>2, <3>3 DEF RenameInv, TypesInv
  <2> QED
    BY <1>1, <1>2, <1>4, <2>1, <2>2 DEF RenameInv, TypesInv
<1>7. TreeInv'
  <2>1. phase' = "rename" => path' # <<>>
    BY <1>1, <1>2
  <2>2. phase' = "done" => path' = <<>>
    <3> SUFFICES ASSUME phase' = "done" PROVE path' = <<>>
      OBVIOUS
    <3>1. n = 0
      BY <1>1, <1>2
    <3> QED
      BY <1>2, <3>1, EmptySequence
  <2>3. ToSet(path) = ToSet(path') \cup {bb}
    <3>1. \A k : k \in 1 .. n + 1 <=> (k \in 1 .. n \/ k = n + 1)
      OBVIOUS
    <3> QED
      BY <1>2, <3>1 DEF ToSet
  <2>4. ASSUME NEW b \in bb_rename \ ToSet(path')
        PROVE  /\ dom_tree_succ[b] \subseteq bb_rename
               /\ \A x \in Vars : \A i \in stores(b, x) : <<b, i>> \in erased'
    <3>1. CASE b = bb
      BY <1>1, <1>2, <3>1
    <3>2. CASE b # bb
      BY <1>1, <2>3, <3>2 DEF RenameInv, TreeInv
    <3> QED
      BY <3>1, <3>2
  <2>5. Entry \in bb_rename
    BY <1>1 DEF RenameInv, TreeInv
  <2>6. \A b \in bb_rename, a \in all : b \in dom[a] => a \in bb_rename
    BY DEF RenameInv, TreeInv
  <2> QED
    BY <1>1, <1>4, <2>1, <2>2, <2>4, <2>5, <2>6 DEF TreeInv
<1>8. StackInv'
  <2>1. PICK p, q : p = path /\ q = path'
    OBVIOUS
  <2> SUFFICES ASSUME NEW x \in Vars
               PROVE  /\ Len(var_val_stack'[x]) = Depth(Len(path), x)'
                      /\ \A k \in DOMAIN path' :
                            value_at(var_val_stack[x], Depth(k, x))' = Out(path[k], x)'
    BY DEF StackInv
  <2>2. \A k \in 1 .. n : pushes(k, x)' = pushes(k, x)
    BY <1>2, <1>4, <2>1 DEF pushes
  <2>3. \A k \in 0 .. n : Depth(k, x)' = Depth(k, x)
    <3> SUFFICES ASSUME NEW k \in 0 .. n PROVE Depth(k, x)' = Depth(k, x)
      OBVIOUS
    <3>1. \A j \in 1 .. k : pushes(j, x)' = pushes(j, x)
      BY <2>2
    <3> QED
      BY <3>1 DEF Depth
  <2>4. PICK d \in Nat : d = Depth(n, x)
    BY <1>2
  <2>5. Len(var_val_stack'[x]) = Depth(Len(path), x)'
    <3>1. Len(path)' = n /\ n \in 0 .. n
      BY <1>2
    <3>2. Depth(Len(path), x)' = Depth(n, x)'
      BY <3>1
    <3> QED
      BY <1>2, <2>3, <3>1, <3>2
  <2>6. ASSUME NEW k \in 1 .. n
        PROVE  value_at(var_val_stack[x], Depth(k, x))' = Out(path[k], x)'
    <3>1. PICK b \in bb_rename : b = p[k] /\ b = q[k]
      BY <1>2, <2>1
    <3>2. Out(path[k], x)' = Out(b, x)'
      BY <2>1, <3>1
    <3>3. Out(b, x)' = Out(b, x)
      BY <1>1, ValuesStay
    <3>4. PICK f \in Nat : f = Depth(k, x) /\ f <= d
      <4>1. n + 1 \in Nat /\ n \in 0 .. n + 1 /\ k \in 0 .. n
        OBVIOUS
      <4> QED
        BY <1>2, <1>3, <2>4, <4>1, DepthGrows
    <3>5. Depth(k, x)' = f
      BY <2>3, <3>4
    <3>6. value_at(var_val_stack[x], f) = Out(b, x)
      BY <1>2, <2>1, <3>1, <3>4, SMTT(30) DEF RenameInv, StackInv
    <3>7. value_at(var_val_stack'[x], f) = value_at(var_val_stack[x], f)
      <4>1. f = 0 \/ f \in 1 .. d
        BY <3>4
      <4> QED
        BY <1>2, <2>4, <4>1 DEF value_at
    <3> QED
      BY <3>2, <3>3, <3>5, <3>6, <3>7
  <2> QED
    BY <1>2, <2>5, <2>6
<1> QED
  BY <1>5, <1>6, <1>7, <1>8 DEF RenameInv

-----------------------------------------------------------------------------
RenameSafe == phase # "crash" => RenameInv

LEMMA RenameNext == Safe /\ RenameSafe /\ [Next]_vars => RenameSafe'
<1> SUFFICES ASSUME Safe, RenameSafe, [Next]_vars, phase' # "crash" PROVE RenameInv'
  BY DEF RenameSafe
<1>1. Safe'
  BY SafeNext
<1>2. CASE phase' \in {"write", "phi"}
  BY <1>1, <1>2, RenameFreshNext
<1>3. CASE phase' \notin {"write", "phi"}
  <2>1. phase # "crash"
    BY DEF Next, Compile, WriteInstr, Run, NextVar, PlacePhis, RenameEntry, RenameChild,
           RenameReturn, Call, Execute, Branch, BranchTo, vars
  <2>2. RenameInv
    BY <2>1 DEF RenameSafe
  <2>3. CASE RenameEntry
    BY <2>2, <2>3, EntersEntry, EntersRename
  <2>4. ASSUME NEW c, RenameChild(c) PROVE RenameInv'
    BY <2>2, <2>4, EntersChild, EntersRename
  <2>5. CASE RenameReturn
    BY <2>2, <2>5, ReturnRename
  <2>6. CASE UNCHANGED <<program_vars, phase, dom_vars, phi_vars, rename_vars>>
    BY <2>2, <2>6, RenameStays
  <2>7. \/ RenameEntry \/ (\E c : RenameChild(c)) \/ RenameReturn
        \/ UNCHANGED <<program_vars, phase, dom_vars, phi_vars, rename_vars>>
    BY <1>3 DEF Next, Compile, WriteInstr, Run, NextVar, PlacePhis, Call, Execute, Branch,
                BranchTo, vars
  <2> QED
    BY <2>3, <2>4, <2>5, <2>6, <2>7
<1> QED
  BY <1>2, <1>3

LEMMA RenameAlways == Spec => [](Safe /\ RenameSafe)
<1>1. Init => Safe /\ RenameSafe
  <2>1. Init => Safe /\ phase \in {"write", "phi"}
    BY CodeInit, PhisInit DEF Safe, Init
  <2> QED
    BY <2>1, RenameFresh DEF RenameSafe
<1>2. Safe /\ RenameSafe /\ [Next]_vars => (Safe /\ RenameSafe)'
  BY SafeNext, RenameNext
<1> QED
  BY <1>1, <1>2, PTL DEF Spec

(* The stacks hold exactly what the blocks being renamed have pushed, and   *)
(* are empty in the end: rename pops for every block what it pushed.        *)
THEOREM StacksBalanced == Spec => []StackDepth
<1>1. Safe /\ RenameSafe => StackDepth
  <2> SUFFICES ASSUME Safe, RenameInv, NEW x \in Vars
               PROVE  Len(var_val_stack[x]) = Cardinality(UNION {pushes(k, x) : k \in DOMAIN path})
    BY DEF StackDepth, RenameSafe
  <2>1. path \in Seq(bb_rename)
    BY DEF RenameInv, TypesInv
  <2>2. DOMAIN path = 1 .. Len(path)
    BY <2>1
  <2> QED
    BY <2>2 DEF RenameInv, StackInv, Depth
<1> QED
  BY <1>1, RenameAlways, PTL

-----------------------------------------------------------------------------
(* What holds along the dominator tree.                                     *)
LEMMA OneParent ==
    ASSUME CodeInv, NEW u \in all, NEW v \in all, NEW c,
           c \in Children(dom, u), c \in Children(dom, v)
    PROVE  u = v
<1>1. c \in dom[u] /\ c # u /\ c \in dom[v] /\ c # v
  BY ChildOf
<1>2. u \in dom[v] /\ v \in dom[u]
  BY <1>1, ChildOf
<1> QED
  BY <1>2, Dominance

LEMMA TreeInduction ==
    ASSUME CodeInv, TypesInv, ValueInv, NEW S,
           Entry \in bb_rename => Entry \in S,
           \A u \in bb_rename \cap S : \A c \in bb_rename \cap Children(dom, u) :
              (\A x \in Vars : ~has_phi(c, x) => tops[c][x] = Out(u, x)) => c \in S
    PROVE  bb_rename \subseteq S
<1> DEFINE T == {b \in all : b \in bb_rename => b \in S}
<1>1. IsFlowGraph(succ_bbs, Entry) /\ bb_rename \subseteq all /\ Entry \in all
  BY Graph, Dominance DEF TypesInv
<1>2. Entry \in T
  BY <1>1
<1>3. ASSUME NEW a \in T, NEW c \in Children(dom, a) PROVE c \in T
  <2>0. a \in all
    OBVIOUS
  <2>1. c # Entry /\ c \in all
    BY <2>0, ChildOf
  <2> SUFFICES ASSUME c \in bb_rename PROVE c \in S
    BY <2>1
  <2>2. PICK u \in bb_rename : /\ c \in Children(dom, u)
                               /\ \A x \in Vars : ~has_phi(c, x) => tops[c][x] = Out(u, x)
    BY <2>1 DEF ValueInv
  <2>3. u = a
    BY <1>1, <2>2, OneParent
  <2>4. u \in S
    BY <2>2, <2>3
  <2> QED
    BY <2>2, <2>4
<1> HIDE DEF T
<1>4. all \subseteq T
  BY <1>1, <1>2, <1>3, DomTreeCovers DEF all, dom
<1> QED
  BY <1>1, <1>4 DEF T

(* The value a variable has as a block ends, from what it has as it begins. *)
LEMMA OutIs ==
    ASSUME CodeInv, TypesInv, ValueInv, NEW b \in bb_rename, NEW x \in Vars
    PROVE  /\ stores(b, x) = {} => Out(b, x) = tops[b][x]
           /\ stores(b, x) # {} => Out(b, x) # NoValue
<1>1. b \in Blocks
  BY Dominance DEF TypesInv
<1>2. PICK n \in Nat : n = Len(code[b]) /\ DOMAIN code[b] = 1 .. n
  BY <1>1, Types
<1>3. until(b, n, x) = stores(b, x) /\ until(b, n, x) \in SUBSET (0 .. n)
      /\ stores(b, x) \subseteq DOMAIN code[b]
  BY <1>1, <1>2, Until
<1>4. Out(b, x) = ReachingIn(replaced, tops[b][x], b, n, x)
  BY <1>2, ReachingIs DEF Out
<1>5. ASSUME stores(b, x) # {} PROVE Out(b, x) # NoValue
  <2>1. PICK i : i = latest(stores(b, x))
    OBVIOUS
  <2>2. i \in stores(b, x)
    BY <1>3, <1>5, <2>1, Latest
  <2>3. Out(b, x) = get_rval(replaced, b, i)
    BY <1>3, <1>4, <1>5, <2>1 DEF ReachingIn
  <2>4. i \in DOMAIN code[b]
    BY <1>3, <2>2
  <2>5. code[b][i].rval = 0 \/ (code[b][i].rval \in Nat /\ is_load(b, code[b][i].rval))
    BY <1>1, <2>4, StoreOrLoad, Types
  <2>6. CASE code[b][i].rval = 0
    BY <2>3, <2>6 DEF get_rval, value_of, NoValue
  <2>7. CASE code[b][i].rval # 0
    <3>1. PICK l \in Nat : l = code[b][i].rval /\ is_load(b, l)
      BY <2>5, <2>7
    <3>2. load_of(b, l) \in DOMAIN replaced /\ replaced[load_of(b, l)] # NoValue
      BY <3>1 DEF ValueInv
    <3>3. get_rval(replaced, b, i) = replaced[load_of(b, l)]
      BY <2>7, <3>1, <3>2 DEF get_rval
    <3> QED
      BY <2>3, <3>2, <3>3
  <2> QED
    BY <2>6, <2>7
<1> QED
  BY <1>3, <1>4, <1>5 DEF ReachingIn

(* Between a block and one it dominates nothing defines the variable: it    *)
(* stands for the same at both ends.                                        *)
LEMMA OutSame ==
    ASSUME CodeInv, TypesInv, ValueInv, NEW x \in Vars,
           NEW p \in bb_rename, NEW c \in bb_rename, c \in dom[p],
           \A q \in dom[p] \ {p} : c \in dom[q] => ~defines(q, x)
    PROVE  Out(c, x) = Out(p, x)
<1> DEFINE Free(z) == \A q \in dom[p] \ {p} : z \in dom[q] => ~defines(q, x)
           S == {z \in bb_rename : z \in dom[p] /\ Free(z) => Out(z, x) = Out(p, x)}
<1>0. bb_rename \subseteq all /\ all \subseteq Blocks /\ p \in all
  BY Dominance DEF TypesInv
<1>1. ASSUME Entry \in bb_rename PROVE Entry \in S
  <2> SUFFICES ASSUME Entry \in dom[p] PROVE Out(Entry, x) = Out(p, x)
    BY <1>1
  <2>1. p \in dom[Entry] /\ Entry \in all
    BY <1>0, Dominance
  <2>2. Entry = p
    BY <1>0, <2>1, Dominance
  <2> QED
    BY <2>2
<1>2. ASSUME NEW u \in bb_rename \cap S, NEW z \in bb_rename \cap Children(dom, u),
             \A y \in Vars : ~has_phi(z, y) => tops[z][y] = Out(u, y)
      PROVE  z \in S
  <2> SUFFICES ASSUME z \in dom[p], Free(z) PROVE Out(z, x) = Out(p, x)
    OBVIOUS
  <2>1. CASE z = p
    BY <2>1
  <2>2. CASE z # p
    <3>1. u \in dom[p] /\ z \in dom[u] /\ u \in all /\ z \in all
      BY <1>0, <2>2, ChildOf
    <3>2. Free(u)
      <4> SUFFICES ASSUME NEW q \in dom[p] \ {p}, u \in dom[q] PROVE ~defines(q, x)
        OBVIOUS
      <4>1. q \in all
        BY <1>0, Dominance
      <4>2. z \in dom[q]
        BY <3>1, <4>1, Dominance
      <4> QED
        BY <4>2
    <3>3. Out(u, x) = Out(p, x)
      BY <3>1, <3>2
    <3>4. ~defines(z, x)
      BY <2>2, <3>1, Dominance
    <3>5. stores(z, x) = {} /\ ~has_phi(z, x)
      BY <1>0, <3>1, <3>4 DEF defines, storing, having
    <3> QED
      BY <1>2, <3>3, <3>5, OutIs
  <2> QED
    BY <2>1, <2>2
<1>3. bb_rename \subseteq S
  <2> HIDE DEF S
  <2> QED
    BY <1>1, <1>2, TreeInduction
<1> QED
  BY <1>3

(* A block that a definition of a variable dominates ends with a value.     *)
LEMMA OutDefined ==
    ASSUME CodeInv, TypesInv, ValueInv, NEW x \in Vars,
           NEW q \in bb_rename, NEW c \in bb_rename, c \in dom[q], defines(q, x)
    PROVE  Out(c, x) # NoValue
<1> DEFINE S == {z \in bb_rename : z \in dom[q] => Out(z, x) # NoValue}
<1>0. bb_rename \subseteq all /\ all \subseteq Blocks /\ q \in all
  BY Dominance DEF TypesInv
<1>1. ASSUME NEW z \in bb_rename, has_phi(z, x) \/ stores(z, x) # {} PROVE Out(z, x) # NoValue
  <2>1. has_phi(z, x) => tops[z][x] # NoValue
    BY DEF ValueInv, phi_of, NoValue
  <2> QED
    BY <1>1, <2>1, OutIs
<1>2. Out(q, x) # NoValue
  BY <1>1 DEF defines, storing, having
<1>3. ASSUME Entry \in bb_rename PROVE Entry \in S
  <2> SUFFICES ASSUME Entry \in dom[q] PROVE Out(Entry, x) # NoValue
    BY <1>3
  <2>1. q \in dom[Entry] /\ Entry \in all
    BY <1>0, Dominance
  <2>2. Entry = q
    BY <1>0, <2>1, Dominance
  <2> QED
    BY <1>2, <2>2
<1>4. ASSUME NEW u \in bb_rename \cap S, NEW z \in bb_rename \cap Children(dom, u),
             \A y \in Vars : ~has_phi(z, y) => tops[z][y] = Out(u, y)
      PROVE  z \in S
  <2> SUFFICES ASSUME z \in dom[q] PROVE Out(z, x) # NoValue
    OBVIOUS
  <2>1. CASE z = q
    BY <1>2, <2>1
  <2>2. CASE z # q
    <3>1. u \in dom[q]
      BY <1>0, <2>2, ChildOf
    <3>2. Out(u, x) # NoValue
      BY <3>1
    <3> QED
      BY <1>1, <1>4, <3>2, OutIs
  <2> QED
    BY <2>1, <2>2
<1>5. bb_rename \subseteq S
  <2> HIDE DEF S
  <2> QED
    BY <1>3, <1>4, TreeInduction
<1> QED
  BY <1>5

(* A value that is at hand after n instructions of a block: nothing that    *)
(* is defined later in it or elsewhere than in its dominators.              *)
Avail(v, b, n) ==
    \/ v = NoValue
    \/ \E d \in all, y \in Vars : v = phi_of(d, y) /\ b \in dom[d]
    \/ \E d \in all, i \in Nat : v = value_of(d, i) /\ b \in dom[d] /\ (d = b => i <= n)

(* ... after all instructions of the blocks renamed so far.                 *)
LEMMA AvailWithin ==
    ASSUME CodeInv, TypesInv, ValueInv, NEW b \in bb_rename,
           \A x \in Vars : Avail(tops[b][x], b, 0)
    PROVE  \A n \in Nat : \A x \in Vars : Avail(Reaching(b, n, x), b, n)
<1> DEFINE T == {n \in Nat : \A m \in Nat : m <= n =>
                    \A x \in Vars : Avail(Reaching(b, m, x), b, m)}
<1>0. b \in Blocks /\ b \in all /\ b \in dom[b]
  BY Dominance DEF TypesInv
<1>1. 0 \in T
  <2>1. \A x \in Vars : Reaching(b, 0, x) = tops[b][x]
    BY <1>0, ReachingIs, ReachingNext
  <2>2. \A m \in Nat : m <= 0 => m = 0
    OBVIOUS
  <2> QED
    BY <2>1, <2>2
<1>2. ASSUME NEW n \in Nat, n \in T PROVE n + 1 \in T
  <2>1. ASSUME NEW x \in Vars PROVE Avail(Reaching(b, n + 1, x), b, n + 1)
    <3>0. \A v, m \in Nat : m <= n + 1 /\ Avail(v, b, m) => Avail(v, b, n + 1)
      BY DEF Avail
    <3>4. \A m : Reaching(b, m, x) = ReachingIn(replaced, tops[b][x], b, m, x)
      BY ReachingIs
    <3>5. /\ Reaching(b, n, x) = ReachingIn(replaced, tops[b][x], b, n, x)
          /\ Reaching(b, n + 1, x) = ReachingIn(replaced, tops[b][x], b, n + 1, x)
      BY <3>4
    <3>1. CASE n + 1 \notin stores(b, x)
      <4>1. Reaching(b, n + 1, x) = Reaching(b, n, x)
        BY <1>0, <3>5, <3>1, ReachingNext
      <4>2. Avail(Reaching(b, n, x), b, n) /\ n <= n + 1
        BY <1>2
      <4> QED
        BY <4>1, <4>2 DEF Avail
    <3>2. CASE n + 1 \in stores(b, x)
      <4>1. Reaching(b, n + 1, x) = get_rval(replaced, b, n + 1)
        BY <1>0, <3>5, <3>2, ReachingNext
      <4>2. n + 1 \in DOMAIN code[b] /\ n + 1 \in Nat
        BY <1>0, <3>2, Until
      <4>3. CASE code[b][n + 1].rval = 0
        <5>1. Reaching(b, n + 1, x) = value_of(b, n + 1)
          BY <4>1, <4>3 DEF get_rval
        <5> QED
          BY <1>0, <4>2, <5>1 DEF Avail
      <4>4. CASE code[b][n + 1].rval # 0
        <5>1. PICK l \in Nat : l = code[b][n + 1].rval /\ is_load(b, l) /\ l < n + 1
          BY <1>0, <4>2, <4>4, StoreOrLoad, Types
        <5>2. l \in DOMAIN code[b]
          BY <5>1 DEF is_load
        <5>3. PICK y \in Vars : y = code[b][l].var
          BY <1>0, <5>2, Types
        <5>4. l - 1 \in Nat /\ l - 1 <= n
          <6>1. PICK w \in Nat : DOMAIN code[b] = 1 .. w
            BY <1>0, Types
          <6> QED
            BY <5>1, <5>2, <6>1
        <5>5. /\ load_of(b, l) \in DOMAIN replaced
              /\ replaced[load_of(b, l)] = Reaching(b, l - 1, y)
          BY <5>1, <5>3 DEF ValueInv
        <5>6. Reaching(b, n + 1, x) = Reaching(b, l - 1, y)
          BY <4>1, <4>4, <5>1, <5>5 DEF get_rval
        <5>7. Avail(Reaching(b, l - 1, y), b, l - 1)
          BY <1>2, <5>4
        <5>8. PICK k \in Nat : k = l - 1 /\ k <= n
          BY <5>4
        <5> QED
          BY <5>6, <5>7, <5>8 DEF Avail
      <4> QED
        BY <4>3, <4>4
    <3> QED
      BY <3>1, <3>2
  <2>2. \A m \in Nat : m <= n + 1 => m <= n \/ m = n + 1
    OBVIOUS
  <2> QED
    BY <1>2, <2>1, <2>2
<1> HIDE DEF T
<1>3. \A n \in Nat : n \in T
  BY <1>1, <1>2, Induction
<1>4. \A n \in Nat : n <= n
  OBVIOUS
<1> QED
  BY <1>3, <1>4 DEF T

LEMMA AvailAtStart ==
    ASSUME CodeInv, TypesInv, ValueInv, NEW b \in bb_rename
    PROVE  \A x \in Vars : Avail(tops[b][x], b, 0)
<1> DEFINE S == {z \in bb_rename : \A x \in Vars : Avail(tops[z][x], z, 0)}
<1>0. bb_rename \subseteq all /\ all \subseteq Blocks
  BY Dominance DEF TypesInv
<1>1. ASSUME NEW z \in bb_rename, NEW x \in Vars, has_phi(z, x) PROVE Avail(tops[z][x], z, 0)
  <2>1. z \in all /\ z \in dom[z]
    BY <1>0, Dominance
  <2> QED
    BY <1>1, <2>1 DEF Avail, ValueInv
<1>2. ASSUME Entry \in bb_rename PROVE Entry \in S
  <2>1. \A x \in Vars : ~has_phi(Entry, x) => tops[Entry][x] = NoValue
    BY <1>2 DEF ValueInv
  <2> QED
    BY <1>1, <1>2, <2>1 DEF Avail
<1>3. ASSUME NEW u \in bb_rename \cap S, NEW z \in bb_rename \cap Children(dom, u),
             \A y \in Vars : ~has_phi(z, y) => tops[z][y] = Out(u, y)
      PROVE  z \in S
  <2> SUFFICES ASSUME NEW x \in Vars, ~has_phi(z, x) PROVE Avail(tops[z][x], z, 0)
    BY <1>1
  <2>1. PICK n \in Nat : n = Len(code[u])
    BY <1>0, Types
  <2>2. tops[z][x] = Reaching(u, n, x)
    BY <1>3, <2>1 DEF Out
  <2>3. Avail(tops[z][x], u, n)
    BY <2>2, AvailWithin
  <2>4. \A d \in all : u \in dom[d] => z \in dom[d] /\ d # z
    <3> SUFFICES ASSUME NEW d \in all, u \in dom[d] PROVE z \in dom[d] /\ d # z
      OBVIOUS
    <3>1. u \in all /\ z \in all /\ z \in dom[u] /\ z # u
      BY <1>0, ChildOf
    <3> QED
      BY <3>1, Dominance
  <2> QED
    BY <2>3, <2>4 DEF Avail
<1>4. bb_rename \subseteq S
  <2> HIDE DEF S
  <2> QED
    BY <1>2, <1>3, TreeInduction
<1> QED
  BY <1>4

LEMMA AvailAlways ==
    ASSUME CodeInv, TypesInv, ValueInv, NEW b \in bb_rename, NEW n \in Nat, NEW x \in Vars
    PROVE  Avail(Reaching(b, n, x), b, n)
BY AvailAtStart, AvailWithin

(* When the pass is done every load of a block that can run is replaced, by *)
(* a value and not by another load, and every store is erased: the walk     *)
(* over the dominator tree leaves out no block that can run.                *)
THEOREM NothingLeft == Spec => []VariablesGone
<1>1. Safe /\ RenameSafe => VariablesGone
  <2> SUFFICES ASSUME Safe, RenameSafe, phase = "done",
                      NEW b \in Reach(succ_bbs, Entry, NoBlock), NEW i \in DOMAIN code[b]
               PROVE  IF code[b][i].op = "load"
                      THEN load_of(b, i) \in DOMAIN replaced /\ replaced[load_of(b, i)][1] # "load"
                      ELSE <<b, i>> \in erased
    BY DEF VariablesGone
  <2>1. CodeInv /\ RenameInv /\ dom_tree_succ = ChildrenOf
    BY DEF Safe, RenameSafe, PhisInv
  <2>2. path = <<>> /\ Entry \in bb_rename /\ ToSet(path) = {}
    BY <2>1 DEF RenameInv, TreeInv, ToSet
  <2>3. \A a \in bb_rename : dom_tree_succ[a] \subseteq bb_rename
    BY <2>1, <2>2 DEF RenameInv, TreeInv
  <2>4. all \subseteq Blocks
    BY <2>1, Dominance
  <2>5. \A a \in bb_rename \cap all : Children(dom, a) \subseteq bb_rename
    BY <2>1, <2>3, <2>4 DEF ChildrenOf
  <2>6. all \subseteq bb_rename
    BY <2>1, <2>2, <2>5, Graph, DomTreeCovers DEF all, dom
  <2>7. b \in bb_rename /\ b \in Blocks
    BY <2>4, <2>6 DEF all, All, NoBlock
  <2>8. i \in Nat /\ code[b][i].var \in Vars
    BY <2>1, <2>7, StoreOrLoad
  <2>9. CASE code[b][i].op = "load"
    <3>1. is_load(b, i)
      BY <2>9 DEF is_load
    <3>2. PICK x \in Vars : x = code[b][i].var
      BY <2>8
    <3>3. i - 1 \in Nat
      BY <2>1, <2>7, Types
    <3>4. /\ load_of(b, i) \in DOMAIN replaced
          /\ replaced[load_of(b, i)] = Reaching(b, i - 1, x)
          /\ replaced[load_of(b, i)] # NoValue
      BY <2>1, <2>7, <2>8, <3>1, <3>2 DEF RenameInv, ValueInv
    <3>5. Avail(Reaching(b, i - 1, x), b, i - 1)
      BY <2>1, <2>7, <3>3, AvailAlways DEF RenameInv
    <3>6. Reaching(b, i - 1, x)[1] \in {"phi", "value"}
      BY <3>4, <3>5 DEF Avail, phi_of, value_of
    <3> QED
      BY <2>9, <3>4, <3>6
  <2>10. CASE code[b][i].op # "load"
    <3>1. PICK x \in Vars : i \in stores(b, x)
      BY <2>1, <2>7, <2>8, <2>10, StoreOrLoad DEF is_load
    <3> QED
      BY <2>1, <2>2, <2>7, <2>10, <3>1 DEF RenameInv, TreeInv
  <2> QED
    BY <2>9, <2>10
<1> QED
  BY <1>1, RenameAlways, PTL

-----------------------------------------------------------------------------
(* The graph in which the blocks that store to a variable are not left.     *)
Silent(x) == [c \in Blocks |-> IF stores(c, x) = {} THEN succ_bbs[c] ELSE <<>>]

(* A block no definition of the variable strictly dominates, without a phi, *)
(* is reached past all stores to it: on every other path the last store     *)
(* dominates the block, or the path crosses its frontier.                   *)
LEMMA SilentReach ==
    ASSUME Safe, phase # "write", var_todo = {}, work_list = {},
           NEW x \in Vars, NEW c \in all, ~has_phi(c, x),
           \A q \in all : c \in dom[q] /\ q # c => ~defines(q, x)
    PROVE  c \in Reach(Silent(x), Entry, NoBlock)
<1> DEFINE R == Reach(Silent(x), Entry, NoBlock)
           Q == {z \in all : \/ has_phi(z, x)
                             \/ \E q \in all : z \in dom[q] /\ z # q /\ defines(q, x)}
<1>1. CodeInv /\ IsFlowGraph(succ_bbs, Entry) /\ all \subseteq Blocks /\ NoBlock = 0 /\ Entry # 0
  BY Graph, Dominance DEF Safe, NoBlock, Entry
<1>2. IsFlowGraph(Silent(x), Entry) /\ DOMAIN Silent(x) = Blocks
  <2>1. ToSet(<<>>) = {}
    BY DEF ToSet
  <2>2. \A b \in Blocks : ToSet(Silent(x)[b]) \subseteq Blocks
    BY <1>1, <2>1, Graph DEF Silent
  <2>3. DOMAIN Silent(x) = Blocks
    BY DEF Silent
  <2> QED
    BY <1>1, <2>2, <2>3 DEF IsFlowGraph, IsGraph, Blocks
<1>3. /\ Entry \in R
      /\ \A a \in R : ToSet(Silent(x)[a]) \subseteq R
  <2>1. Entry \in All(Silent(x), Entry) /\ \A a \in All(Silent(x), Entry) :
             ToSet(Silent(x)[a]) \subseteq All(Silent(x), Entry)
    BY <1>2, DomValue
  <2> QED
    BY <1>1, <2>1 DEF All
<1>4. \A q \in storing(x) \cup having(x) : dom_frontier[q] \subseteq having(x)
  BY DEF Safe, PlacedInv, pending
<1>5. dom_frontier = FrontierOf
  BY DEF Safe, PhisInv
<1>6. ASSUME NEW q \in all, defines(q, x), NEW z \in dom[q], NEW w \in ToSet(succ_bbs[z])
      PROVE  w \in Q
  <2>1. z \in all /\ w \in all
    BY <1>6, Dominance DEF Safe
  <2>2. CASE w \in dom[q] /\ w # q
    BY <1>6, <2>1, <2>2
  <2>3. CASE ~(w \in dom[q] /\ w # q)
    <3>1. w \in Frontier(succ_bbs, dom, q)
      BY <1>1, <1>6, <2>1, <2>3, Dominance DEF Frontier
    <3>2. q \in Blocks /\ q \in storing(x) \cup having(x)
      BY <1>1, <1>6 DEF defines
    <3>3. w \in having(x)
      BY <1>4, <1>5, <1>6, <3>1, <3>2 DEF FrontierOf
    <3> QED
      BY <2>1, <3>3 DEF having
  <2> QED
    BY <2>2, <2>3
<1>7. ASSUME NEW z \in (R \cup Q) \cap all, NEW w \in ToSet(succ_bbs[z]) PROVE w \in R \cup Q
  <2>1. z \in dom[z] /\ z \in Blocks
    BY <1>1, Dominance
  <2>2. CASE defines(z, x)
    BY <1>6, <2>1, <2>2
  <2>3. CASE \E q \in all : z \in dom[q] /\ z # q /\ defines(q, x)
    BY <1>6, <2>3
  <2>4. CASE ~defines(z, x) /\ z \in R
    <3>1. stores(z, x) = {}
      BY <2>1, <2>4 DEF defines, storing
    <3>2. Silent(x)[z] = succ_bbs[z]
      BY <2>1, <3>1 DEF Silent
    <3> QED
      BY <1>3, <2>4, <3>2
  <2>5. z \in Q => defines(z, x) \/ \E q \in all : z \in dom[q] /\ z # q /\ defines(q, x)
    BY <2>1 DEF defines, having
  <2> QED
    BY <2>2, <2>3, <2>4, <2>5
<1>8. all \subseteq R \cup Q
  <2> DEFINE S == (R \cup Q) \cap all
  <2>1. Closed(succ_bbs, 0, S)
    <3>1. \A z \in S : \A w \in ToSet(succ_bbs[z]) : w \in all
      BY <1>1, Dominance
    <3> HIDE DEF R, Q
    <3> QED
      BY <1>7, <3>1 DEF Closed
  <2>2. Entry \in S
    BY <1>1, <1>3, Dominance
  <2> HIDE DEF S
  <2>3. all \subseteq S
    BY <1>1, <2>1, <2>2, ReachLeast DEF all, All, IsFlowGraph
  <2> QED
    BY <2>3 DEF S
<1> QED
  BY <1>8

(* A load for which the stack of its variable is empty.                     *)
Unset ==
    \E b \in Blocks, i \in Nat, x \in Vars :
        /\ i \in DOMAIN code[b] /\ code[b][i].op = "load" /\ x = code[b][i].var
        /\ \A j \in 1 .. i - 1 : ~is_store(b, j, x)
        /\ b \in Reach(Silent(x), Entry, NoBlock)

LEMMA UnsetStays ==
    ASSUME UNCHANGED <<succ_bbs, code>>, Unset
    PROVE  Unset'
<1>1. PICK b \in Blocks, i \in Nat, x \in Vars :
        /\ i \in DOMAIN code[b] /\ code[b][i].op = "load" /\ x = code[b][i].var
        /\ \A j \in 1 .. i - 1 : ~is_store(b, j, x)
        /\ b \in Reach(Silent(x), Entry, NoBlock)
  BY DEF Unset
<1>2. Silent(x)' = Silent(x) /\ Blocks' = Blocks
  BY DEF Silent, stores, is_store, Blocks
<1>3. \A j : is_store(b, j, x)' <=> is_store(b, j, x)
  BY DEF is_store
<1>4. Reach(Silent(x), Entry, NoBlock)' = Reach(Silent(x), Entry, NoBlock)
  BY <1>2
<1> QED
  BY <1>1, <1>2, <1>3, <1>4 DEF Unset

LEMMA CrashUnset ==
    ASSUME Safe, RenameInv, NEW c, Enters(c), phase' = "crash"
    PROVE  Unset
<1>1. /\ c \in all \ bb_rename /\ phase # "write" /\ var_todo = {} /\ work_list = {}
      /\ CodeInv /\ c \in Blocks /\ LoopReady(c) /\ bb_rename \subseteq all
  BY EntersReady DEF Enters, Safe, RenameInv, TypesInv
<1>2. LoopFails(c, Len(code[c]))
  <2>1. ~RenameInstrs(c).ok
    BY DEF Enters, Rename
  <2> QED
    BY <2>1, EntersReady DEF LoopInv
<1>3. PICK n \in Nat : n = Len(code[c]) /\ DOMAIN code[c] = 1 .. n
  BY <1>1, Types
<1>4. PICK j \in 1 .. n : /\ is_load(c, j)
                         /\ begins(c, code[c][j].var) = <<>>
                         /\ until(c, j, code[c][j].var) = {}
  BY <1>2, <1>3 DEF LoopFails
<1>5. PICK x \in Vars : x = code[c][j].var
  BY <1>1, <1>3, Types
<1>6. ~has_phi(c, x)
  <2>1. phi_of(c, x) \in Values /\ var_val_stack[x] \in Seq(Values)
    BY <1>1, NamesTyped DEF LoopReady
  <2>2. Append(var_val_stack[x], phi_of(c, x)) # <<>>
    BY <2>1
  <2> QED
    BY <1>1, <1>4, <1>5, <2>2, BeginsTyped
<1>7. path = <<>> \/ Out(Last(path), x) = NoValue
  <2>1. var_val_stack[x] = <<>>
    BY <1>4, <1>5, <1>6, EntersTop
  <2>2. top(var_val_stack[x]) = NoValue
    BY <2>1 DEF top
  <2> QED
    BY <2>2, EntersTop
<1>8. ASSUME NEW q \in all, c \in dom[q], q # c PROVE ~defines(q, x)
  <2>1. CASE path = <<>>
    BY <1>1, <1>8, <2>1, Dominance DEF Enters
  <2>2. CASE path # <<>>
    <3>1. PICK u \in bb_rename : u = Last(path) /\ c \in Children(dom, u)
      BY <2>2 DEF Enters
    <3>2. u \in dom[q]
      BY <1>1, <1>8, <3>1, ChildOf
    <3>3. q \in bb_rename
      BY <3>2 DEF RenameInv, TreeInv
    <3>4. Out(u, x) = NoValue
      BY <1>7, <2>2, <3>1
    <3> QED
      BY <1>1, <3>2, <3>3, <3>4, OutDefined DEF RenameInv
  <2> QED
    BY <2>1, <2>2
<1>9. c \in Reach(Silent(x), Entry, NoBlock)
  BY <1>1, <1>6, <1>8, SilentReach
<1>10. \A k \in 1 .. j - 1 : ~is_store(c, k, x)
  <2> SUFFICES ASSUME NEW k \in 1 .. j - 1, is_store(c, k, x) PROVE FALSE
    OBVIOUS
  <2>1. k \in DOMAIN code[c] /\ k <= j
    BY <1>3
  <2>2. k \in until(c, j, x)
    BY <2>1 DEF until, stores
  <2> QED
    BY <1>4, <1>5, <2>2
<1>11. j \in Nat /\ j \in DOMAIN code[c] /\ code[c][j].op = "load"
  BY <1>4 DEF is_load
<1> QED
  BY <1>1, <1>5, <1>9, <1>10, <1>11 DEF Unset

(* Renaming fails only where the program may read a variable it has not     *)
(* set: back() is never called on an empty stack for a load that some store *)
(* reaches on every path.                                                   *)
THEOREM CrashesUnset == Spec => []CrashOnlyUnset
<1> DEFINE Inv == phase = "crash" => Unset
<1>1. Init => Inv
  BY DEF Init
<1>2. Safe /\ RenameSafe /\ Inv /\ [Next]_vars => Inv'
  <2> SUFFICES ASSUME Safe, RenameSafe, Inv, [Next]_vars, phase' = "crash" PROVE Unset'
    OBVIOUS
  <2>1. phase # "write" /\ UNCHANGED <<succ_bbs, code>>
    <3>1. phase # "write"
      BY DEF Next, Compile, WriteInstr, Run, NextVar, PlacePhis, RenameEntry, RenameChild,
             RenameReturn, Call, Execute, Branch, BranchTo, vars
    <3> QED
      BY <3>1, ProgramStays
  <2>2. CASE phase = "crash"
    BY <2>1, <2>2, UnsetStays
  <2>3. CASE phase # "crash"
    <3>1. RenameEntry \/ \E c : RenameChild(c)
      BY <2>3 DEF Next, Compile, WriteInstr, Run, NextVar, PlacePhis,
             RenameReturn, Call, Execute, Branch, BranchTo, vars
    <3>2. PICK c : Enters(c)
      BY <2>3, <3>1, EntersEntry, EntersChild DEF RenameSafe
    <3>3. Unset
      BY <2>3, <3>2, CrashUnset DEF RenameSafe
    <3> QED
      BY <2>1, <3>3, UnsetStays
  <2> QED
    BY <2>2, <2>3
<1>3. Inv => CrashOnlyUnset
  <2> SUFFICES ASSUME phase = "crash", Unset
               PROVE  \E b \in Blocks : \E i \in DOMAIN code[b] :
                         LET x      == code[b][i].var
                             silent == [c \in Blocks |-> IF stores(c, x) = {} THEN succ_bbs[c] ELSE <<>>]
                         IN  /\ code[b][i].op = "load"
                             /\ \A j \in 1 .. i - 1 : ~is_store(b, j, x)
                             /\ b \in Reach(silent, Entry, NoBlock)
    BY DEF CrashOnlyUnset
  <2> QED
    BY DEF Unset, Silent
<1> QED
  BY <1>1, <1>2, <1>3, RenameAlways, PTL DEF Spec

-----------------------------------------------------------------------------
(* The operands of the phis: for every predecessor renamed so far in which  *)
(* the variable has a value that value, and nothing for any other block.    *)
OperandInv ==
    \A b \in Blocks, x \in Vars : has_phi(b, x) =>
        /\ phi_args[phi_of(b, x)] \in Seq(Values \X Nat)
        /\ \A i \in DOMAIN phi_args[phi_of(b, x)] : \A a : a = phi_args[phi_of(b, x)][i][2] =>
              /\ a \in bb_rename /\ b \in ToSet(succ_bbs[a])
              /\ phi_args[phi_of(b, x)][i][1] = Out(a, x)
        /\ \A a \in bb_rename : b \in ToSet(succ_bbs[a]) /\ Out(a, x) # NoValue =>
              \E i \in DOMAIN phi_args[phi_of(b, x)] : phi_args[phi_of(b, x)][i][2] = a

LEMMA OperandsFresh == Safe /\ phase \in {"write", "phi"} => OperandInv
<1> SUFFICES ASSUME Safe, phase \in {"write", "phi"} PROVE OperandInv
  OBVIOUS
<1>1. \A b \in Blocks, x \in Vars : has_phi(b, x) => phi_args[phi_of(b, x)] = <<>>
  BY DEF Safe, PhaseInv, PhisInv
<1>2. bb_rename = {} /\ <<>> \in Seq(Values \X Nat) /\ DOMAIN <<>> = {}
  BY DEF Safe, PhaseInv
<1> QED
  BY <1>1, <1>2 DEF OperandInv

LEMMA OperandsFreshNext == (Safe /\ phase \in {"write", "phi"} => OperandInv)'
BY OperandsFresh, PTL

LEMMA OperandsStay ==
    ASSUME OperandInv, UNCHANGED <<succ_bbs, code, phis, phi_args, replaced, tops, bb_rename>>
    PROVE  OperandInv'
<1>1. Blocks' = Blocks /\ \A b, x : has_phi(b, x)' <=> has_phi(b, x)
  BY DEF Blocks, has_phi
<1>2. \A b, x : Out(b, x)' = Out(b, x)
  BY ValuesStay
<1> QED
  BY <1>1, <1>2 DEF OperandInv

LEMMA EntersOperands ==
    ASSUME Safe, RenameInv, OperandInv, NEW c, Enters(c), phase' # "crash"
    PROVE  OperandInv'
<1>1. /\ UNCHANGED <<succ_bbs, code, phis>>
      /\ bb_rename' = bb_rename \cup {c}
      /\ phi_args' = FillPhis(var_val_stack', c)
      /\ var_val_stack' \in [Vars -> Seq(Values)]
      /\ c \in Blocks /\ CodeInv /\ c \notin bb_rename
  BY RenamedState, EntersReady DEF Safe, Enters
<1>2. Blocks' = Blocks /\ \A b, x : has_phi(b, x)' <=> has_phi(b, x)
  BY <1>1 DEF Blocks, has_phi
<1>3. ASSUME NEW b \in Blocks, NEW x \in Vars, has_phi(b, x)
      PROVE  /\ phi_args'[phi_of(b, x)] \in Seq(Values \X Nat)
             /\ \A i \in DOMAIN phi_args'[phi_of(b, x)] : \A a : a = phi_args'[phi_of(b, x)][i][2] =>
                   /\ a \in bb_rename' /\ b \in ToSet(succ_bbs[a])
                   /\ phi_args'[phi_of(b, x)][i][1] = Out(a, x)'
             /\ \A a \in bb_rename' : b \in ToSet(succ_bbs[a]) /\ Out(a, x)' # NoValue =>
                   \E i \in DOMAIN phi_args'[phi_of(b, x)] : phi_args'[phi_of(b, x)][i][2] = a
  <2>1. PICK p, s, t, st : /\ p = phi_of(b, x) /\ s = phi_args[p] /\ t = phi_args'[p]
                           /\ st = var_val_stack'[x]
    OBVIOUS
  <2>2. p[2] = b /\ p[3] = x /\ p \in DOMAIN phi_args
    BY <1>3, <2>1 DEF phi_of, Safe, PhisInv
  <2>3. t = IF b \in ToSet(succ_bbs[c]) /\ st # <<>> THEN Append(s, <<Last(st), c>>) ELSE s
    BY <1>1, <2>1, <2>2 DEF FillPhis
  <2>4. /\ s \in Seq(Values \X Nat)
        /\ \A i \in DOMAIN s : \A a : a = s[i][2] =>
              /\ a \in bb_rename /\ b \in ToSet(succ_bbs[a]) /\ s[i][1] = Out(a, x)
        /\ \A a \in bb_rename : b \in ToSet(succ_bbs[a]) /\ Out(a, x) # NoValue =>
              \E i \in DOMAIN s : s[i][2] = a
    BY <1>3, <2>1 DEF OperandInv
  <2>5. /\ \A a \in bb_rename : Out(a, x)' = Out(a, x)
        /\ Out(c, x)' = top(st)
    BY <2>1, RenamedValues
  <2>6. PICK o : o = <<Last(st), c>>
    OBVIOUS
  <2>7. CASE b \in ToSet(succ_bbs[c]) /\ st # <<>>
    <3>1. Last(st) \in Values /\ Last(st) = Out(c, x)'
      <4>1. st \in Seq(Values)
        BY <1>1, <2>1
      <4> QED
        BY <2>5, <2>7, <4>1 DEF top, Last
    <3>2. o \in Values \X Nat /\ o[1] = Out(c, x)' /\ o[2] = c
      <4>1. c \in Nat
        BY <1>1, Graph
      <4> QED
        BY <2>6, <3>1, <4>1
    <3>3. Appends(t, s, o)
      BY <2>3, <2>6, <2>7 DEF Appends
    <3>4. PICK n \in Nat : /\ t \in Seq(Values \X Nat)
                           /\ DOMAIN s = 1 .. n /\ DOMAIN t = 1 .. n + 1
                           /\ \A k \in 1 .. n : t[k] = s[k]
                           /\ t[n + 1] = o
      <4>1. PICK T : T = Values \X Nat
        OBVIOUS
      <4>2. s \in Seq(T) /\ o \in T
        BY <2>4, <3>2, <4>1
      <4>3. PICK n \in Nat : n = Len(s)
        BY <4>2
      <4>4. /\ t \in Seq(T) /\ DOMAIN s = 1 .. n /\ DOMAIN t = 1 .. n + 1
            /\ \A k \in 1 .. n : t[k] = s[k]
            /\ t[n + 1] = o
        BY <3>3, <4>2, <4>3, AppendIn
      <4> QED
        BY <4>1, <4>4
    <3>5. ASSUME NEW i \in DOMAIN t, NEW a, a = t[i][2]
          PROVE  a \in bb_rename' /\ b \in ToSet(succ_bbs[a]) /\ t[i][1] = Out(a, x)'
      <4>1. CASE i = n + 1
        BY <1>1, <2>7, <3>2, <3>4, <3>5, <4>1
      <4>2. CASE i # n + 1
        <5>1. i \in DOMAIN s /\ t[i] = s[i]
          BY <3>4, <4>2
        <5> QED
          BY <1>1, <2>4, <2>5, <3>5, <5>1
      <4> QED
        BY <4>1, <4>2
    <3>6. ASSUME NEW a \in bb_rename', b \in ToSet(succ_bbs[a]), Out(a, x)' # NoValue
          PROVE  \E i \in DOMAIN t : t[i][2] = a
      <4>1. CASE a = c
        BY <3>2, <3>4, <4>1
      <4>2. CASE a # c
        <5>1. PICK i \in DOMAIN s : s[i][2] = a
          BY <1>1, <2>4, <2>5, <3>6, <4>2
        <5> QED
          BY <3>4, <5>1
      <4> QED
        BY <4>1, <4>2
    <3> QED
      BY <2>1, <3>4, <3>5, <3>6
  <2>8. CASE ~(b \in ToSet(succ_bbs[c]) /\ st # <<>>)
    <3>1. t = s
      BY <2>3, <2>8
    <3>2. b \in ToSet(succ_bbs[c]) => Out(c, x)' = NoValue
      BY <2>5, <2>8 DEF top
    <3> QED
      BY <1>1, <2>1, <2>4, <2>5, <3>1, <3>2
  <2> QED
    BY <2>7, <2>8
<1> QED
  BY <1>1, <1>2, <1>3 DEF OperandInv

(* What a phi takes on a branch is what the variable stands for at its end. *)
LEMMA IncomingIs ==
    ASSUME CodeInv, OperandInv, NEW a \in bb_rename, NEW b \in Blocks, b \in ToSet(succ_bbs[a]),
           NEW x \in Vars, has_phi(b, x)
    PROVE  incoming(b, x, a) = Out(a, x)
<1>1. PICK args : args = phi_args[phi_of(b, x)]
  OBVIOUS
<1> DEFINE S == {i \in DOMAIN args : args[i][2] = a}
           first == CHOOSE i \in S : \A j \in S : i <= j
<1>2. /\ args \in Seq(Values \X Nat)
      /\ \A i \in DOMAIN args : args[i][2] = a => args[i][1] = Out(a, x)
      /\ Out(a, x) # NoValue => S # {}
  BY <1>1 DEF OperandInv
<1>3. incoming(b, x, a) = IF S = {} THEN NoValue ELSE args[first][1]
  BY <1>1 DEF incoming
<1>4. ASSUME S # {} PROVE first \in S
  <2>1. S \in SUBSET Nat
    BY <1>2
  <2> HIDE DEF S
  <2>2. \E i \in S : \A j \in S : i <= j
    BY <1>4, <2>1, LeastNumber
  <2> QED
    BY <2>2
<1> HIDE DEF first
<1> QED
  BY <1>2, <1>3, <1>4

-----------------------------------------------------------------------------
(* The execution of the new form.                                           *)
EnvInv ==
    /\ NoValue \notin DOMAIN env
    /\ \A d \in DOMAIN env : env[d] \in Vals \cup {unset}

LEMMA ValIn == EnvInv => \A d : Val(env, d) \in Vals \cup {unset}
BY DEF EnvInv, Val

LEMMA ValInNext == (EnvInv => \A d : Val(env, d) \in Vals \cup {unset})'
BY ValIn, PTL

LEMMA EnvNext == Safe /\ EnvInv /\ [Next]_vars => EnvInv'
<1> SUFFICES ASSUME Safe, EnvInv, [Next]_vars PROVE EnvInv'
  OBVIOUS
<1>1. CASE Execute
  <2>1. CASE UNCHANGED env
    BY <2>1 DEF EnvInv
  <2>2. CASE \E v \in Vals : env' = put(env, value_of(at, done + 1), v)
    <3>1. PICK v \in Vals : env' = put(env, value_of(at, done + 1), v)
      BY <2>2
    <3>2. value_of(at, done + 1) # NoValue
      BY DEF value_of, NoValue
    <3> QED
      BY <3>1, <3>2 DEF EnvInv, put
  <2> QED
    BY <1>1, <2>1, <2>2 DEF Execute
<1>2. CASE Branch
  <2>1. PICK b \in ToSet(succ_bbs[at]) : env' = [c \in Blocks |-> TakePhis(c)][b]
    BY <1>2 DEF Branch, BranchTo
  <2> DEFINE new == [p \in {phi_of(b, x) : x \in ToSet(phis[b])} |-> Val(env, incoming(b, p[3], at))]
  <2>2. b \in Blocks
    <3>1. at \in all /\ CodeInv
      BY <1>2 DEF Branch, BranchTo, Safe, PhaseInv
    <3> QED
      BY <3>1, Dominance
  <2>3. env' = over(env, new)
    BY <2>1, <2>2 DEF TakePhis
  <2>4. /\ NoValue \notin DOMAIN new
        /\ \A d \in DOMAIN new : new[d] \in Vals \cup {unset}
    BY ValIn DEF phi_of, NoValue
  <2> HIDE DEF new
  <2> QED
    BY <2>3, <2>4 DEF over, EnvInv
<1>3. CASE UNCHANGED env
  BY <1>3 DEF EnvInv
<1> QED
  BY <1>1, <1>2, <1>3 DEF Next, Compile, WriteInstr, Run, NextVar, PlacePhis, RenameEntry, RenameChild,
     Rename, RenameReturn, Call, vars, exec_vars

(* What the refinement needs of a state, and what it maps it to.            *)
RunInv == Safe /\ RenameSafe /\ (phase # "crash" => OperandInv) /\ EnvInv

mem == [x \in Vars |-> IF at = NoBlock THEN unset ELSE Val(env, Reaching(at, done, x))]
reg == [i \in 1 .. done |-> Val(env, Result(at, i))]

LEMMA RunInit == Init => RunInv
<1> SUFFICES ASSUME Init PROVE RunInv
  OBVIOUS
<1>1. Safe /\ phase = "write" /\ env = <<>>
  BY CodeInit, PhisInit DEF Safe, Init
<1>2. EnvInv
  BY <1>1 DEF EnvInv
<1> QED
  BY <1>1, <1>2, RenameFresh, OperandsFresh DEF RunInv, RenameSafe

LEMMA RunNext == RunInv /\ [Next]_vars => RunInv'
<1> SUFFICES ASSUME RunInv, [Next]_vars PROVE RunInv'
  OBVIOUS
<1>1. Safe' /\ RenameSafe' /\ EnvInv'
  BY SafeNext, RenameNext, EnvNext DEF RunInv
<1>2. ASSUME phase' # "crash" PROVE OperandInv'
  <2>1. CASE phase' \in {"write", "phi"}
    BY <1>1, <2>1, OperandsFreshNext
  <2>2. CASE phase' \notin {"write", "phi"}
    <3>1. phase # "crash"
      BY <1>2 DEF Next, Compile, WriteInstr, Run, NextVar, PlacePhis, RenameEntry, RenameChild,
             RenameReturn, Call, Execute, Branch, BranchTo, vars
    <3>2. Safe /\ RenameInv /\ OperandInv
      BY <3>1 DEF RunInv, RenameSafe
    <3>3. CASE \E c : Enters(c)
      BY <1>2, <3>2, <3>3, EntersOperands
    <3>4. CASE UNCHANGED <<succ_bbs, code, phis, phi_args, replaced, tops, bb_rename>>
      BY <3>2, <3>4, OperandsStay
    <3>5. \/ RenameEntry \/ (\E c : RenameChild(c))
          \/ UNCHANGED <<succ_bbs, code, phis, phi_args, replaced, tops, bb_rename>>
      BY <2>2 DEF Next, Compile, WriteInstr, Run, NextVar, PlacePhis, RenameReturn, Call, Execute,
             Branch, BranchTo, vars, program_vars, phi_vars, rename_vars
    <3> QED
      BY <3>2, <3>3, <3>4, <3>5, EntersEntry, EntersChild
  <2> QED
    BY <2>1, <2>2
<1> QED
  BY <1>1, <1>2 DEF RunInv

(* The state the new form is executed in.                                   *)
LEMMA Running ==
    ASSUME RunInv, phase = "done"
    PROVE  /\ CodeInv /\ TypesInv /\ ValueInv /\ OperandInv /\ EnvInv
           /\ all \subseteq bb_rename /\ all \subseteq Blocks
<1>1. /\ CodeInv /\ RenameInv /\ OperandInv /\ EnvInv /\ dom_tree_succ = ChildrenOf
  BY DEF RunInv, Safe, RenameSafe, PhisInv
<1>2. path = <<>> /\ Entry \in bb_rename /\ ToSet(path) = {}
  BY <1>1 DEF RenameInv, TreeInv, ToSet
<1>3. \A a \in bb_rename : dom_tree_succ[a] \subseteq bb_rename
  BY <1>1, <1>2 DEF RenameInv, TreeInv
<1>4. all \subseteq Blocks
  BY <1>1, Dominance
<1>5. \A a \in bb_rename \cap all : Children(dom, a) \subseteq bb_rename
  BY <1>1, <1>3, <1>4 DEF ChildrenOf
<1>6. all \subseteq bb_rename
  BY <1>1, <1>2, <1>5, Graph, DomTreeCovers DEF all, dom
<1> QED
  BY <1>1, <1>4, <1>6 DEF RenameInv

LEMMA Values1 ==
    ASSUME RunInv, phase = "done", NEW b \in all, NEW n \in 0 .. Len(code[b])
    PROVE  /\ \A x \in Vars : Avail(Reaching(b, n, x), b, n)
           /\ \A i \in 1 .. n : Avail(Result(b, i), b, n)
           /\ \A i \in 1 .. n : code[b][i].op = "load" =>
                 Result(b, i) = Reaching(b, i - 1, code[b][i].var)
<1>1. /\ CodeInv /\ TypesInv /\ ValueInv /\ b \in bb_rename /\ b \in Blocks
  BY Running
<1>2. PICK l \in Nat : l = Len(code[b]) /\ DOMAIN code[b] = 1 .. l
  BY <1>1, Types
<1>3. n \in Nat /\ n <= l
  BY <1>2
<1>4. \A x \in Vars : Avail(Reaching(b, n, x), b, n)
  BY <1>1, <1>3, AvailAlways
<1>5. ASSUME NEW i \in 1 .. n
      PROVE  /\ Avail(Result(b, i), b, n)
             /\ code[b][i].op = "load" => Result(b, i) = Reaching(b, i - 1, code[b][i].var)
  <2>1. i \in DOMAIN code[b] /\ i \in Nat /\ i - 1 \in Nat /\ (i - 1) + 1 = i /\ i <= n /\ i - 1 <= n
    BY <1>2, <1>3
  <2>2. PICK k \in Nat : k = i - 1 /\ k + 1 = i
    BY <2>1
  <2>3. PICK x \in Vars : x = code[b][i].var
    BY <1>1, <2>1, Types
  <2>4. \A m \in Nat : \A v : m <= n /\ Avail(v, b, m) => Avail(v, b, n)
    BY <1>3 DEF Avail
  <2>5. CASE code[b][i].op = "load"
    <3>1. is_load(b, i)
      BY <2>1, <2>5 DEF is_load
    <3>2. Result(b, i) = Reaching(b, k, x)
      BY <1>1, <2>1, <2>2, <2>3, <2>5, <3>1 DEF Result, ValueInv
    <3>3. Avail(Reaching(b, k, x), b, k)
      BY <1>1, AvailAlways
    <3> QED
      BY <2>1, <2>2, <2>3, <2>4, <3>2, <3>3
  <2>6. CASE code[b][i].op # "load"
    <3>1. i \in stores(b, x)
      BY <1>1, <2>1, <2>3, <2>6, StoreOrLoad DEF is_load
    <3>2. Reaching(b, i, x) = ReachingIn(replaced, tops[b][x], b, i, x)
      BY ReachingIs
    <3>3. ReachingIn(replaced, tops[b][x], b, k + 1, x) = get_rval(replaced, b, k + 1)
      BY <1>1, <2>2, <3>1, ReachingNext, SMTT(30)
    <3>4. Result(b, i) = Reaching(b, i, x)
      BY <2>2, <2>6, <3>2, <3>3 DEF Result
    <3>5. Avail(Reaching(b, i, x), b, i)
      BY <1>1, <2>1, AvailAlways
    <3> QED
      BY <2>1, <2>4, <2>6, <3>4, <3>5
  <2> QED
    BY <2>5, <2>6
<1> QED
  BY <1>4, <1>5

-----------------------------------------------------------------------------
(* Execution, step by step.                                                 *)
LEMMA Listed ==
    ASSUME NEW S, NEW n \in Nat, NEW r, DOMAIN r = 1 .. n, r = [i \in 1 .. n |-> r[i]],
           \A i \in 1 .. n : r[i] \in S
    PROVE  r \in Seq(S) /\ Len(r) = n
<1>1. r \in [1 .. n -> S]
  OBVIOUS
<1> QED
  BY <1>1

LEMMA ListedMore ==
    ASSUME NEW S, NEW n \in Nat, NEW r \in Seq(S), Len(r) = n,
           NEW t \in Seq(S), Len(t) = n + 1, \A i \in 1 .. n : t[i] = r[i],
           NEW v, t[n + 1] = v
    PROVE  t = Append(r, v)
<1>1. v \in S
  OBVIOUS
<1> QED
  BY <1>1

(* The step where the names of values and the program stay.                 *)
LEMMA RunStays ==
    ASSUME UNCHANGED <<program_vars, phase, dom_vars, phi_vars, rename_vars>>
    PROVE  /\ UNCHANGED <<succ_bbs, code, phis, phi_args, replaced, tops, bb_rename, phase>>
           /\ \A b, n, x : Reaching(b, n, x)' = Reaching(b, n, x)
           /\ \A b, i : Result(b, i)' = Result(b, i)
           /\ all' = all
<1>1. UNCHANGED <<succ_bbs, code, phis, phi_args, replaced, tops, bb_rename, phase>>
  BY DEF program_vars, phi_vars, rename_vars
<1>2. \A b, i : Result(b, i)' = Result(b, i)
  BY <1>1 DEF Result, get_rval
<1> QED
  BY <1>1, <1>2, ValuesStay DEF all

LEMMA MemNow ==
    ASSUME NEW b, b = at, NEW n, n = done, NEW e, e = env, at # NoBlock
    PROVE  /\ mem = [x \in Vars |-> Val(e, Reaching(b, n, x))]
           /\ reg = [i \in 1 .. n |-> Val(e, Result(b, i))]
BY DEF mem, reg

LEMMA MemNext ==
    ASSUME NEW b, b = at', NEW n, n = done', NEW e, e = env', at' # NoBlock,
           UNCHANGED <<program_vars, phase, dom_vars, phi_vars, rename_vars>>
    PROVE  /\ mem' = [x \in Vars |-> Val(e, Reaching(b, n, x))]
           /\ reg' = [i \in 1 .. n |-> Val(e, Result(b, i))]
<1>1. \A x : Reaching(at, done, x)' = Reaching(b, n, x)
  <2>1. \A x : Reaching(at, done, x)' = Reaching(b, n, x)'
    OBVIOUS
  <2> QED
    BY <2>1, RunStays
<1>2. \A i : Result(at, i)' = Result(b, i)
  <2>1. \A i : Result(at, i)' = Result(b, i)'
    OBVIOUS
  <2> QED
    BY <2>1, RunStays
<1>3. \A d : Val(env, d)' = Val(e, d)
  BY DEF Val
<1>4. \A x \in Vars : Val(env, Reaching(at, done, x))' = Val(e, Reaching(b, n, x))
  BY <1>1 DEF Val
<1>5. \A i \in 1 .. n : Val(env, Result(at, i))' = Val(e, Result(b, i))
  BY <1>2 DEF Val
<1> QED
  BY <1>4, <1>5 DEF mem, reg

(* The map of the registers is a sequence.                                  *)
LEMMA RegListed ==
    ASSUME NEW n \in Nat, NEW b, NEW e, \A d : Val(e, d) \in Vals \cup {unset},
           NEW r, r = [i \in 1 .. n |-> Val(e, Result(b, i))]
    PROVE  r \in Seq(Vals \cup {unset}) /\ Len(r) = n /\ \A i \in 1 .. n : r[i] = Val(e, Result(b, i))
<1>1. DOMAIN r = 1 .. n /\ r = [i \in 1 .. n |-> r[i]]
      /\ \A i \in 1 .. n : r[i] = Val(e, Result(b, i))
  OBVIOUS
<1>2. \A i \in 1 .. n : r[i] \in Vals \cup {unset}
  BY <1>1
<1> QED
  BY <1>1, <1>2, Listed

LEMMA ExecuteLoad ==
    ASSUME RunInv, Execute, code[at][done + 1].op = "load"
    PROVE  LET x == code[at][done + 1].var
           IN  x \in Vars /\ mem' = mem /\ reg' = Append(reg, mem[x])
<1>0. /\ phase = "done" /\ at \in all /\ done \in 0 .. Len(code[at]) /\ at # NoBlock
      /\ EnvInv /\ done < Len(code[at])
      /\ at' = at /\ done' = done + 1 /\ env' = env
      /\ UNCHANGED <<program_vars, phase, dom_vars, phi_vars, rename_vars>>
  BY DEF Execute, RunInv, Safe, PhaseInv
<1>1. PICK b, n, e : b = at /\ n = done /\ e = env
  OBVIOUS
<1>2. CodeInv /\ b \in Blocks /\ b \in bb_rename /\ TypesInv /\ ValueInv
  BY <1>0, <1>1, Running
<1>3. PICK l \in Nat : l = Len(code[b]) /\ DOMAIN code[b] = 1 .. l
  BY <1>2, Types
<1>4. n \in Nat /\ n + 1 \in 1 .. l /\ n + 1 \in Nat /\ n + 1 \in 0 .. l
  BY <1>0, <1>1, <1>3
<1>5. PICK x \in Vars : x = code[b][n + 1].var
  BY <1>2, <1>3, <1>4, Types
<1>6. /\ mem = [y \in Vars |-> Val(e, Reaching(b, n, y))]
      /\ reg = [i \in 1 .. n |-> Val(e, Result(b, i))]
      /\ mem' = [y \in Vars |-> Val(e, Reaching(b, n + 1, y))]
      /\ reg' = [i \in 1 .. n + 1 |-> Val(e, Result(b, i))]
  BY <1>0, <1>1, MemNow, MemNext
<1>7. \A y \in Vars : Reaching(b, n + 1, y) = Reaching(b, n, y)
  <2> SUFFICES ASSUME NEW y \in Vars PROVE Reaching(b, n + 1, y) = Reaching(b, n, y)
    OBVIOUS
  <2>1. n + 1 \notin stores(b, y)
    BY <1>1 DEF stores, is_store
  <2>2. \A m : Reaching(b, m, y) = ReachingIn(replaced, tops[b][y], b, m, y)
    BY ReachingIs
  <2>3. /\ Reaching(b, n, y) = ReachingIn(replaced, tops[b][y], b, n, y)
        /\ Reaching(b, n + 1, y) = ReachingIn(replaced, tops[b][y], b, n + 1, y)
    BY <2>2
  <2> QED
    BY <1>2, <1>4, <2>1, <2>3, ReachingNext
<1>8. Result(b, n + 1) = Reaching(b, n, x)
  <2>1. PICK k \in Nat : k = n + 1 /\ k - 1 = n
    BY <1>4
  <2>2. k \in 1 .. k /\ k \in 0 .. Len(code[b]) /\ b \in all
    BY <1>0, <1>1, <1>3, <1>4, <2>1
  <2>3. Result(b, k) = Reaching(b, k - 1, code[b][k].var)
    BY <1>0, <1>1, <2>1, <2>2, Values1
  <2> QED
    BY <1>5, <2>1, <2>3
<1>9. mem' = mem /\ mem[x] = Val(e, Reaching(b, n, x))
  BY <1>6, <1>7
<1>10. \A d : Val(e, d) \in Vals \cup {unset}
  BY <1>0, <1>1, ValIn
<1>11. reg' = Append(reg, mem[x])
  <2>1. PICK r, t : r = reg /\ t = reg'
    OBVIOUS
  <2>2. r \in Seq(Vals \cup {unset}) /\ Len(r) = n /\ \A i \in 1 .. n : r[i] = Val(e, Result(b, i))
    <3>1. r = [i \in 1 .. n |-> Val(e, Result(b, i))]
      BY <1>6, <2>1
    <3> QED
      BY <1>4, <1>10, <3>1, RegListed
  <2>3. PICK k \in Nat : k = n + 1
    BY <1>4
  <2>4. t \in Seq(Vals \cup {unset}) /\ Len(t) = k /\ \A i \in 1 .. k : t[i] = Val(e, Result(b, i))
    BY <1>6, <1>10, <2>1, <2>3, RegListed
  <2>5. t[n + 1] = mem[x] /\ \A i \in 1 .. n : t[i] = r[i]
    BY <1>4, <1>8, <1>9, <2>2, <2>3, <2>4
  <2>6. t = Append(r, mem[x])
    BY <1>4, <2>2, <2>3, <2>4, <2>5, ListedMore
  <2> QED
    BY <2>1, <2>6
<1> QED
  BY <1>1, <1>5, <1>9, <1>11

LEMMA ExecuteStore ==
    ASSUME RunInv, Execute, code[at][done + 1].op = "store"
    PROVE  LET x == code[at][done + 1].var
               l == code[at][done + 1].rval
           IN  /\ x \in Vars
               /\ \E v \in Vals \cup {unset} :
                     /\ l # 0 => v = reg[l]
                     /\ mem' = [mem EXCEPT ![x] = v]
                     /\ reg' = Append(reg, v)
<1>0. /\ phase = "done" /\ at \in all /\ done \in 0 .. Len(code[at]) /\ at # NoBlock
      /\ EnvInv /\ done < Len(code[at]) /\ EnvInv'
      /\ at' = at /\ done' = done + 1
      /\ IF code[at][done + 1].rval = 0
         THEN \E v \in Vals : env' = put(env, value_of(at, done + 1), v)
         ELSE env' = env
      /\ UNCHANGED <<program_vars, phase, dom_vars, phi_vars, rename_vars>>
  <2>1. EnvInv'
    BY EnvNext DEF RunInv, Next
  <2> QED
    BY <2>1 DEF Execute, RunInv, Safe, PhaseInv
<1>1. PICK b, n, e, f : b = at /\ n = done /\ e = env /\ f = env'
  OBVIOUS
<1>2. CodeInv /\ b \in Blocks /\ b \in bb_rename /\ TypesInv /\ ValueInv
  BY <1>0, <1>1, Running
<1>3. PICK m \in Nat : m = Len(code[b]) /\ DOMAIN code[b] = 1 .. m
  BY <1>2, Types
<1>4. n \in Nat /\ n + 1 \in 1 .. m /\ n + 1 \in Nat /\ n \in 0 .. m
  BY <1>0, <1>1, <1>3
<1>5. PICK x \in Vars, l \in Nat : x = code[b][n + 1].var /\ l = code[b][n + 1].rval
  BY <1>2, <1>3, <1>4, Types
<1>6. /\ mem = [y \in Vars |-> Val(e, Reaching(b, n, y))]
      /\ reg = [i \in 1 .. n |-> Val(e, Result(b, i))]
      /\ mem' = [y \in Vars |-> Val(f, Reaching(b, n + 1, y))]
      /\ reg' = [i \in 1 .. n + 1 |-> Val(f, Result(b, i))]
  BY <1>0, <1>1, MemNow, MemNext
<1>7. /\ \A y \in Vars \ {x} : Reaching(b, n + 1, y) = Reaching(b, n, y)
      /\ Reaching(b, n + 1, x) = get_rval(replaced, b, n + 1)
      /\ Result(b, n + 1) = get_rval(replaced, b, n + 1)
  <2>1. \A y \in Vars : n + 1 \in stores(b, y) <=> y = x
    BY <1>1, <1>3, <1>4, <1>5 DEF stores, is_store
  <2>2. \A k, y : Reaching(b, k, y) = ReachingIn(replaced, tops[b][y], b, k, y)
    BY ReachingIs
  <2>3. \A y \in Vars :
           /\ Reaching(b, n, y) = ReachingIn(replaced, tops[b][y], b, n, y)
           /\ Reaching(b, n + 1, y) = ReachingIn(replaced, tops[b][y], b, n + 1, y)
    BY <2>2
  <2>4. Result(b, n + 1) = get_rval(replaced, b, n + 1)
    BY <1>1 DEF Result
  <2> QED
    BY <1>2, <1>4, <2>1, <2>3, <2>4, ReachingNext
<1>8. /\ \A y \in Vars : Avail(Reaching(b, n, y), b, n)
      /\ \A i \in 1 .. n : Avail(Result(b, i), b, n)
  BY <1>0, <1>1, <1>3, <1>4, Values1
<1>9. \A d : Avail(d, b, n) => Val(f, d) = Val(e, d)
  <2>1. CASE l = 0
    <3>1. PICK v \in Vals : f = put(e, value_of(b, n + 1), v)
      BY <1>0, <1>1, <1>5, <2>1
    <3>2. \A d : Avail(d, b, n) => d # value_of(b, n + 1)
      BY <1>4 DEF Avail, NoValue, phi_of, value_of
    <3> QED
      BY <3>1, <3>2 DEF Val, put
  <2>2. CASE l # 0
    BY <1>0, <1>1, <1>5, <2>2
  <2> QED
    BY <2>1, <2>2
<1>10. PICK v : v = Val(f, get_rval(replaced, b, n + 1))
  OBVIOUS
<1>11. /\ \A d : Val(e, d) \in Vals \cup {unset}
       /\ \A d : Val(f, d) \in Vals \cup {unset}
  BY <1>0, <1>1, ValIn, ValInNext DEF Val
<1>12. v \in Vals \cup {unset}
  BY <1>10, <1>11
<1>13. mem' = [mem EXCEPT ![x] = v]
  <2>1. \A y \in Vars \ {x} : Val(f, Reaching(b, n + 1, y)) = Val(e, Reaching(b, n, y))
    BY <1>7, <1>8, <1>9
  <2>2. Val(f, Reaching(b, n + 1, x)) = v
    BY <1>7, <1>10
  <2> QED
    BY <1>6, <2>1, <2>2
<1>14. reg' = Append(reg, v)
  <2>1. PICK r, t : r = reg /\ t = reg'
    OBVIOUS
  <2>2. r \in Seq(Vals \cup {unset}) /\ Len(r) = n /\ \A i \in 1 .. n : r[i] = Val(e, Result(b, i))
    <3>1. r = [i \in 1 .. n |-> Val(e, Result(b, i))]
      BY <1>6, <2>1
    <3> QED
      BY <1>4, <1>11, <3>1, RegListed
  <2>3. PICK k \in Nat : k = n + 1
    BY <1>4
  <2>4. t \in Seq(Vals \cup {unset}) /\ Len(t) = k /\ \A i \in 1 .. k : t[i] = Val(f, Result(b, i))
    <3>1. t = [i \in 1 .. k |-> Val(f, Result(b, i))]
      BY <1>6, <2>1, <2>3
    <3> QED
      BY <1>11, <3>1, RegListed
  <2>5. t[n + 1] = v
    BY <1>4, <1>7, <1>10, <2>3, <2>4
  <2>6. \A i \in 1 .. n : t[i] = r[i]
    BY <1>4, <1>8, <1>9, <2>2, <2>3, <2>4
  <2>7. t = Append(r, v)
    BY <1>4, <2>2, <2>3, <2>4, <2>5, <2>6, ListedMore
  <2> QED
    BY <2>1, <2>7
<1>15. l # 0 => v = reg[l]
  <2> SUFFICES ASSUME l # 0 PROVE v = reg[l]
    OBVIOUS
  <2>1. is_load(b, l) /\ l < n + 1
    BY <1>2, <1>3, <1>4, <1>5, StoreOrLoad
  <2>2. l \in 1 .. n /\ code[b][l].op = "load"
    BY <1>3, <1>4, <2>1 DEF is_load
  <2>3. load_of(b, l) \in DOMAIN replaced /\ Result(b, l) = replaced[load_of(b, l)]
    BY <1>2, <2>1, <2>2 DEF ValueInv, Result
  <2>4. get_rval(replaced, b, n + 1) = Result(b, l)
    BY <1>5, <2>3 DEF get_rval
  <2>5. reg[l] = Val(e, Result(b, l)) /\ v = Val(f, Result(b, l))
    BY <1>6, <1>10, <2>2, <2>4
  <2> QED
    BY <1>8, <1>9, <2>2, <2>5
<1> QED
  BY <1>1, <1>5, <1>12, <1>13, <1>14, <1>15

(* A branch from a block to its successor.  Where the successor has no phi  *)
(* the variable stands for the same in the block and in the parent of the   *)
(* successor in the dominator tree: a definition in between would have the  *)
(* successor in its frontier.                                               *)
LEMMA NoPhiSame ==
    ASSUME RunInv, phase = "done", NEW b \in all, NEW c \in ToSet(succ_bbs[b]), NEW y \in Vars,
           ~has_phi(c, y)
    PROVE  /\ tops[c][y] = Out(b, y)
           /\ \A z : tops[c][y] # phi_of(c, z)
<1>1. /\ CodeInv /\ TypesInv /\ ValueInv /\ all \subseteq bb_rename /\ all \subseteq Blocks
      /\ c \in all /\ b \in dom[b] /\ c # Entry
  <2>1. /\ CodeInv /\ TypesInv /\ ValueInv /\ all \subseteq bb_rename /\ all \subseteq Blocks
    BY Running
  <2> QED
    BY <2>1, Dominance, Graph
<1>2. PICK u \in bb_rename : /\ c \in Children(dom, u)
                             /\ \A x \in Vars : ~has_phi(c, x) => tops[c][x] = Out(u, x)
  BY <1>1 DEF ValueInv
<1>3. u \in all /\ c \in dom[u] /\ c # u /\ \A q \in dom[u] \ {u, c} : c \notin dom[q]
  BY <1>1, <1>2 DEF Children, TypesInv
<1>4. b \in dom[u]
  BY <1>1, <1>3, Dominance
<1>5. ASSUME NEW q \in dom[u] \ {u}, b \in dom[q] PROVE ~defines(q, y)
  <2> SUFFICES ASSUME defines(q, y) PROVE FALSE
    OBVIOUS
  <2>1. q \in all /\ q \in Blocks
    BY <1>1, <1>3, Dominance
  <2>2. c \in Frontier(succ_bbs, dom, q)
    BY <1>1, <1>3, <1>5, Dominance DEF Frontier
  <2>3. dom_frontier = FrontierOf /\ work_list = {} /\ var_todo = {}
    BY DEF RunInv, Safe, PhisInv, PhaseInv
  <2>4. c \in dom_frontier[q]
    BY <2>1, <2>2, <2>3 DEF FrontierOf
  <2>5. dom_frontier[q] \subseteq having(y)
    BY <2>3 DEF RunInv, Safe, PlacedInv, pending, defines
  <2> QED
    BY <2>4, <2>5 DEF having
<1>6. Out(b, y) = Out(u, y)
  BY <1>1, <1>4, <1>5, OutSame
<1>7. ASSUME NEW z PROVE Out(u, y) # phi_of(c, z)
  <2>1. PICK n \in Nat : n = Len(code[u])
    BY <1>1, <1>3, Types
  <2>2. Avail(Out(u, y), u, n)
    BY <1>1, <2>1, AvailAlways DEF Out
  <2>3. u \notin dom[c]
    BY <1>1, <1>3, Dominance
  <2> QED
    BY <2>2, <2>3 DEF Avail, NoValue, phi_of, value_of
<1> QED
  BY <1>2, <1>6, <1>7

LEMMA BranchTaken ==
    ASSUME RunInv, Branch
    PROVE  /\ at' \in ToSet(succ_bbs[at]) /\ done = Len(code[at]) /\ done \in Nat
           /\ mem' = mem /\ reg' = <<>> /\ reg \in Seq(Vals \cup {unset}) /\ Len(reg) = done
<1>0. /\ phase = "done" /\ at \in all /\ at # NoBlock /\ done = Len(code[at])
      /\ EnvInv /\ CodeInv
      /\ done' = 0
      /\ UNCHANGED <<program_vars, phase, dom_vars, phi_vars, rename_vars>>
  BY DEF Branch, BranchTo, RunInv, Safe, PhaseInv
<1>1. PICK c \in ToSet(succ_bbs[at]) : at' = c /\ env' = [z \in Blocks |-> TakePhis(z)][c]
  BY DEF Branch, BranchTo
<1>2. PICK b, n, e, f : b = at /\ n = done /\ e = env /\ f = env'
  OBVIOUS
<1>3. /\ CodeInv /\ TypesInv /\ ValueInv /\ OperandInv /\ all \subseteq bb_rename
      /\ b \in Blocks /\ b \in all /\ c \in all /\ c \in Blocks /\ c \in bb_rename /\ b \in bb_rename
      /\ c \in ToSet(succ_bbs[b])
  <2>1. /\ CodeInv /\ TypesInv /\ ValueInv /\ OperandInv /\ all \subseteq bb_rename /\ all \subseteq Blocks
    BY <1>0, Running
  <2>2. c \in all
    BY <1>0, <1>1, Dominance
  <2> QED
    BY <1>0, <1>1, <1>2, <2>1, <2>2
<1>4. c # NoBlock /\ n \in Nat /\ n = Len(code[b])
  BY <1>0, <1>2, <1>3, Types, Graph DEF NoBlock
<1>5. /\ mem = [y \in Vars |-> Val(e, Reaching(b, n, y))]
      /\ reg = [i \in 1 .. n |-> Val(e, Result(b, i))]
      /\ mem' = [y \in Vars |-> Val(f, Reaching(c, 0, y))]
      /\ reg' = [i \in 1 .. 0 |-> Val(f, Result(c, i))]
  <2>1. /\ mem = [y \in Vars |-> Val(e, Reaching(b, n, y))]
        /\ reg = [i \in 1 .. n |-> Val(e, Result(b, i))]
    BY <1>0, <1>2, MemNow
  <2>2. PICK k : k = 0
    OBVIOUS
  <2>3. /\ mem' = [y \in Vars |-> Val(f, Reaching(c, k, y))]
        /\ reg' = [i \in 1 .. k |-> Val(f, Result(c, i))]
    BY <1>0, <1>1, <1>2, <1>4, <2>2, MemNext
  <2> QED
    BY <2>1, <2>2, <2>3
<1>6. \A y \in Vars : Reaching(c, 0, y) = tops[c][y] /\ Reaching(b, n, y) = Out(b, y)
  <2> SUFFICES ASSUME NEW y \in Vars PROVE Reaching(c, 0, y) = tops[c][y] /\ Reaching(b, n, y) = Out(b, y)
    OBVIOUS
  <2>1. Reaching(c, 0, y) = ReachingIn(replaced, tops[c][y], c, 0, y)
    BY ReachingIs
  <2>2. 0 \in Nat
    OBVIOUS
  <2>3. ReachingIn(replaced, tops[c][y], c, 0, y) = tops[c][y]
    BY <1>3, <2>2, ReachingNext
  <2> QED
    BY <1>4, <2>1, <2>3 DEF Out
<1> DEFINE new == [p \in {phi_of(c, x) : x \in ToSet(phis[c])} |-> Val(env, incoming(c, p[3], at))]
<1>7. f = over(e, new)
  BY <1>1, <1>2, <1>3 DEF TakePhis
<1>8. /\ \A y \in Vars : has_phi(c, y) => /\ phi_of(c, y) \in DOMAIN new
                                          /\ new[phi_of(c, y)] = Val(e, incoming(c, y, b))
      /\ \A d \in DOMAIN new : \E y : d = phi_of(c, y)
  <2>1. \A y : phi_of(c, y)[3] = y
    BY DEF phi_of
  <2> QED
    BY <1>2, <2>1 DEF has_phi
<1> HIDE DEF new
<1>9. ASSUME NEW y \in Vars PROVE Val(f, tops[c][y]) = Val(e, Out(b, y))
  <2>1. CASE has_phi(c, y)
    <3>1. tops[c][y] = phi_of(c, y)
      BY <1>3, <2>1 DEF ValueInv
    <3>2. incoming(c, y, b) = Out(b, y)
      BY <1>3, <2>1, IncomingIs
    <3> QED
      BY <1>7, <1>8, <2>1, <3>1, <3>2 DEF over, Val
  <2>2. CASE ~has_phi(c, y)
    <3>1. tops[c][y] = Out(b, y) /\ \A z : tops[c][y] # phi_of(c, z)
      BY <1>0, <1>3, <2>2, NoPhiSame
    <3>2. tops[c][y] \notin DOMAIN new
      BY <1>8, <3>1
    <3> QED
      BY <1>7, <3>1, <3>2 DEF over, Val
  <2> QED
    BY <2>1, <2>2
<1>10. mem' = mem
  BY <1>5, <1>6, <1>9
<1>11. reg' = <<>>
  BY <1>5
<1>12. reg \in Seq(Vals \cup {unset}) /\ Len(reg) = n
  <2>1. \A d : Val(e, d) \in Vals \cup {unset}
    BY <1>0, <1>2, ValIn
  <2> QED
    BY <1>4, <1>5, <2>1, RegListed
<1> QED
  BY <1>0, <1>1, <1>2, <1>4, <1>10, <1>11, <1>12

-----------------------------------------------------------------------------
(* Before the call nothing is read or written.                              *)
LEMMA MemIdle ==
    ASSUME at = NoBlock, done = 0
    PROVE  mem = [x \in Vars |-> unset] /\ reg = <<>>
BY DEF mem, reg

LEMMA MemIdleNext == (at = NoBlock /\ done = 0 => mem = [x \in Vars |-> unset] /\ reg = <<>>)'
<1>1. at = NoBlock /\ done = 0 => mem = [x \in Vars |-> unset] /\ reg = <<>>
  BY MemIdle
<1> QED
  BY <1>1, PTL

(* Every step of the new form is a step of the function as written.         *)
LEMMA ImplementsStep == RunInv /\ [Next]_vars => [Memory!Next]_(Memory!vars)
<1> SUFFICES ASSUME RunInv, [Next]_vars PROVE Memory!Next \/ UNCHANGED Memory!vars
  OBVIOUS
<1>1. /\ RunInv' /\ PhaseInv /\ PhaseInv' /\ CodeInv
  BY RunNext DEF RunInv, Safe
<1>2. CASE at = NoBlock /\ at' = NoBlock
  <2>1. done = 0 /\ done' = 0
    BY <1>1, <1>2 DEF PhaseInv
  <2>2. mem' = mem /\ reg' = reg
    BY <1>2, <2>1, MemIdle, MemIdleNext
  <2>3. Memory!Write
    BY <1>2, <2>2 DEF Memory!Write, Memory!NoBlock, NoBlock, mem, reg
  <2> QED
    BY <2>3 DEF Memory!Next
<1>3. CASE Call
  <2>1. /\ at = NoBlock /\ at' = 1 /\ at' # NoBlock /\ done = 0 /\ done' = 0 /\ env' = <<>> /\ env = <<>>
        /\ UNCHANGED <<program_vars, phase, dom_vars, phi_vars, rename_vars>>
    BY <1>1, <1>3 DEF Call, PhaseInv, Entry, NoBlock
  <2>2. mem = [x \in Vars |-> unset] /\ reg = <<>>
    BY <2>1, MemIdle
  <2>3. PICK b, n, e : b = at' /\ n = done' /\ e = env'
    OBVIOUS
  <2>4. /\ mem' = [x \in Vars |-> Val(e, Reaching(b, n, x))]
        /\ reg' = [i \in 1 .. n |-> Val(e, Result(b, i))]
    BY <2>1, <2>3, MemNext
  <2>5. \A d : Val(e, d) = unset
    BY <2>1, <2>3 DEF Val
  <2>6. mem' = mem /\ reg' = reg
    BY <2>1, <2>2, <2>3, <2>4, <2>5
  <2>7. Memory!Call
    BY <2>1, <2>6 DEF Memory!Call, Memory!NoBlock, NoBlock, mem, reg, program_vars
  <2> QED
    BY <2>7 DEF Memory!Next
<1>4. CASE Execute
  <2>1. /\ at # NoBlock /\ done < Len(code[at]) /\ at' = at /\ phase = "done"
        /\ at \in all /\ done \in 0 .. Len(code[at])
        /\ UNCHANGED <<succ_bbs, code>> /\ EnvInv
    BY <1>1, <1>4 DEF Execute, PhaseInv, program_vars, RunInv
  <2>2. PICK n \in Nat, b \in Blocks : n = done /\ b = at /\ Len(code[b]) \in Nat
    BY <1>1, <2>1, Dominance, Types
  <2>3. reg \in Seq(Vals \cup {unset}) /\ Len(reg) = n
    <3>1. PICK e : e = env
      OBVIOUS
    <3>2. reg = [i \in 1 .. n |-> Val(e, Result(b, i))]
      BY <2>1, <2>2, <3>1, MemNow
    <3>3. \A d : Val(e, d) \in Vals \cup {unset}
      BY <2>1, <3>1, ValIn
    <3> QED
      BY <2>2, <3>2, <3>3, RegListed
  <2>4. Memory!More /\ Memory!instr = code[at][done + 1]
    BY <2>1, <2>2, <2>3 DEF Memory!More, Memory!instr, Memory!NoBlock, NoBlock, reg
  <2>5. code[at][done + 1].op \in {"load", "store"}
    <3>1. n + 1 \in DOMAIN code[b]
      <4>1. PICK l \in Nat : l = Len(code[b]) /\ DOMAIN code[b] = 1 .. l
        BY <1>1, Types
      <4> QED
        BY <2>1, <2>2, <4>1
    <3> QED
      BY <1>1, <2>2, <3>1, Types
  <2>6. CASE code[at][done + 1].op = "load"
    <3>1. mem' = mem /\ reg' = Append(reg, mem[code[at][done + 1].var])
      BY <1>4, <2>6, ExecuteLoad
    <3>2. Memory!Load
      BY <2>1, <2>4, <2>6, <3>1 DEF Memory!Load, mem, reg
    <3> QED
      BY <3>2 DEF Memory!Next
  <2>7. CASE code[at][done + 1].op = "store"
    <3>1. PICK v \in Vals \cup {unset} :
             /\ code[at][done + 1].rval # 0 => v = reg[code[at][done + 1].rval]
             /\ mem' = [mem EXCEPT ![code[at][done + 1].var] = v]
             /\ reg' = Append(reg, v)
      BY <1>4, <2>7, ExecuteStore
    <3>2. Memory!Store(v)
      BY <2>1, <2>4, <2>7, <3>1 DEF Memory!Store, mem, reg
    <3> QED
      BY <3>2 DEF Memory!Next
  <2> QED
    BY <2>5, <2>6, <2>7
<1>5. CASE Branch
  <2>1. /\ at # NoBlock /\ UNCHANGED <<succ_bbs, code>>
    BY <1>5 DEF Branch, BranchTo, program_vars
  <2>2. /\ at' \in ToSet(succ_bbs[at]) /\ done = Len(code[at]) /\ done \in Nat
        /\ mem' = mem /\ reg' = <<>> /\ Len(reg) = done
    BY <1>5, BranchTaken
  <2>3. ~Memory!More
    BY <2>2 DEF Memory!More, reg
  <2>4. \E i \in DOMAIN succ_bbs[at] : at' = succ_bbs[at][i]
    BY <2>2 DEF ToSet
  <2>5. Memory!Branch
    BY <2>1, <2>2, <2>3, <2>4 DEF Memory!Branch, Memory!NoBlock, NoBlock, mem, reg
  <2> QED
    BY <2>5 DEF Memory!Next
<1>6. CASE UNCHANGED vars /\ at # NoBlock
  <2>1. /\ UNCHANGED <<program_vars, phase, dom_vars, phi_vars, rename_vars, exec_vars>>
        /\ UNCHANGED <<succ_bbs, code, at, done, env>>
    BY <1>6 DEF vars, program_vars, exec_vars
  <2>2. PICK b, n, e : /\ b = at /\ n = done /\ e = env
                       /\ b = at' /\ n = done' /\ e = env'
    BY <2>1
  <2>3. /\ mem = [x \in Vars |-> Val(e, Reaching(b, n, x))]
        /\ reg = [i \in 1 .. n |-> Val(e, Result(b, i))]
    BY <1>6, <2>2, MemNow
  <2>4. /\ mem' = [x \in Vars |-> Val(e, Reaching(b, n, x))]
        /\ reg' = [i \in 1 .. n |-> Val(e, Result(b, i))]
    BY <1>6, <2>1, <2>2, MemNext
  <2>5. mem' = mem /\ reg' = reg
    BY <2>3, <2>4
  <2> QED
    BY <2>1, <2>5 DEF Memory!vars, mem, reg
<1>7. \/ Call \/ Execute \/ Branch \/ UNCHANGED vars
      \/ (at = NoBlock /\ at' = NoBlock)
  <2>1. Compile => at' = at /\ phase # "done"
    BY DEF Compile, WriteInstr, Run, NextVar, PlacePhis, RenameEntry, RenameChild, Rename,
           RenameReturn, exec_vars
  <2>2. phase # "done" => at = NoBlock
    BY <1>1 DEF PhaseInv
  <2> QED
    BY <2>1, <2>2 DEF Next
<1>8. UNCHANGED vars => at' = at
  BY DEF vars, exec_vars
<1> QED
  BY <1>2, <1>3, <1>4, <1>5, <1>6, <1>7, <1>8

(* The new form does what the function as written does to its variables, on *)
(* every path and for every graph and program: each load gives the value    *)
(* stored last, where phis, stacks and replaced loads put it.               *)
THEOREM NewFormImplements == Spec => ImplementsMemory
<1>1. Init => Memory!Init
  <2>1. Init => at = NoBlock /\ done = 0
    BY DEF Init
  <2> QED
    BY <2>1, MemIdle DEF Memory!Init, Memory!NoBlock, NoBlock, mem, reg
<1> QED
  BY <1>1, RunInit, RunNext, ImplementsStep, PTL DEF Spec, ImplementsMemory, Memory!Spec
=============================================================================
