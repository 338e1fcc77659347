--------------------------- MODULE DeadCodeProofs ---------------------------
(***************************************************************************)
(* FuncInfo calls no function with an effect pure, and DeadCode keeps all   *)
(* that is needed: for every module, whatever its size.                     *)
(***************************************************************************)
EXTENDS DeadCode, TLAPS

(* The module that is compiled is one of Programs and does not change.      *)
ProgramOK ==
    \E p \in Programs : graph = p.graph /\ code = p.code /\ arrays = p.arrays

(* The same without the reference to Programs. *)
LEMMA ProgramFacts ==
    ASSUME ProgramOK
    PROVE  /\ graph \in [Blocks -> SUBSET Blocks]
           /\ block_func \in [Blocks -> Defined] /\ entry \in [Defined -> Blocks]
           /\ \A f \in Defined : block_func[entry[f]] = f
           /\ \A i \in Insts : code[i].block \in Blocks /\ code[i].uses \subseteq Insts
           /\ \A i \in Insts : \A j \in code[i].uses :
                 /\ func_of(j) = func_of(i)
                 /\ code[i].block \in Live => code[j].block \in Live
<1>1. PICK p \in Programs : graph = p.graph /\ code = p.code /\ arrays = p.arrays
  BY DEF ProgramOK
<1>2. WellFormed(p)
  BY FuncInfoAssumption DEF FuncInfoAssumption
<1>3. graph \in [Blocks -> SUBSET Blocks]
  BY <1>1, <1>2 DEF WellFormed
<1>4. \A i \in Insts : code[i].block \in Blocks /\ code[i].uses \subseteq Insts
  <2>1. code \in Seq(Instr(Len(code)))
    BY <1>1, <1>2 DEF WellFormed
  <2>2. Insts = 1 .. Len(code) /\ \A i \in Insts : code[i] \in Instr(Len(code))
    BY <2>1 DEF Insts
  <2> QED
    BY <2>2 DEF Instr
<1>5. \A i \in Insts : \A j \in code[i].uses :
         /\ func_of(j) = func_of(i)
         /\ code[i].block \in Live => code[j].block \in Live
  BY <1>1, <1>2 DEF WellFormed, Insts, func_of, Live
<1> QED
  BY <1>3, <1>4, <1>5, FuncInfoAssumption DEF FuncInfoAssumption

-----------------------------------------------------------------------------
(* The reference sets are the least ones of their kind. *)

LEMMA LiveLeast ==
    ASSUME ProgramOK
    PROVE  /\ Live \subseteq Blocks
           /\ \A f \in Defined : entry[f] \in Live
           /\ \A a \in Live : graph[a] \subseteq Live
           /\ \A S \in SUBSET Blocks :
                 (\A f \in Defined : entry[f] \in S) /\ (\A a \in S : graph[a] \subseteq S)
                    => Live \subseteq S
<1>1. graph \in [Blocks -> SUBSET Blocks] /\ \A f \in Defined : entry[f] \in Blocks
  BY ProgramFacts
<1>2. \A a \in Live : graph[a] \subseteq Live
  <2> SUFFICES ASSUME NEW a \in Live, NEW b \in graph[a]
               PROVE  b \in Live
    OBVIOUS
  <2>1. a \in Blocks
    BY DEF Live, LiveIn
  <2> QED
    BY <1>1, <2>1 DEF Live, LiveIn
<1> QED
  BY <1>1, <1>2 DEF Live, LiveIn

LEMMA CallersAreFuncs ==
    ASSUME ProgramOK
    PROVE  \A f : callers(f) \subseteq Funcs
  BY ProgramFacts DEF callers, func_of, Defined

LEMMA EffectiveLeast ==
    ASSUME ProgramOK,
           NEW S \in SUBSET Funcs,
           \A f \in Funcs : has_effect(f) => f \in S,
           \A f \in S : callers(f) \subseteq S
    PROVE  Effective \subseteq S
  BY DEF Effective

LEMMA NeededLeast ==
    ASSUME ProgramOK
    PROVE  /\ Needed \subseteq Insts
           /\ \A i \in Insts : is_critical(i) /\ code[i].block \in Live => i \in Needed
           /\ \A i \in Needed : code[i].uses \subseteq Needed
           /\ \A S \in SUBSET Insts :
                 /\ \A i \in Insts : is_critical(i) /\ code[i].block \in Live => i \in S
                 /\ \A i \in S : code[i].uses \subseteq S
                 => Needed \subseteq S
<1>1. \A i \in Insts : code[i].uses \subseteq Insts
  BY ProgramFacts
<1> QED
  BY <1>1 DEF Needed

(* A block that can be reached is an entry, or has a predecessor that can.  *)
LEMMA LiveReached ==
    ASSUME ProgramOK, NEW b \in Live, \A f \in Defined : entry[f] # b
    PROVE  \E a \in Live : b \in graph[a]
<1> SUFFICES ASSUME \A a \in Live : b \notin graph[a]
             PROVE  FALSE
  OBVIOUS
<1> DEFINE S == Live \ {b}
<1>1. S \subseteq Blocks /\ (\A f \in Defined : entry[f] \in S)
  BY LiveLeast
<1>2. \A a \in S : graph[a] \subseteq S
  BY LiveLeast
<1> QED
  BY <1>1, <1>2, LiveLeast

(* What is needed is in blocks that can be reached. *)
LEMMA NeededLive ==
    ASSUME ProgramOK
    PROVE  \A i \in Needed : code[i].block \in Live
<1> DEFINE S == {i \in Insts : code[i].block \in Live}
<1>1. \A i \in S : code[i].uses \subseteq S
  BY ProgramFacts
<1> QED
  BY <1>1, NeededLeast

-----------------------------------------------------------------------------
(* The work list is what is left to do: an impure function that is not on   *)
(* it has impure callers only.                                              *)
PurityInv ==
    /\ pc \in {"trivial", "process", "clear", "critical", "mark", "done"}
    /\ is_pure \in [Funcs -> BOOLEAN]
    /\ worklist \subseteq {f \in Funcs : ~is_pure[f]}
    /\ pc # "trivial" =>
          \A f \in Funcs :
             /\ trivial(f) => ~is_pure[f]
             /\ ~is_pure[f] /\ f \notin worklist =>
                   \A g \in callers(f) : ~is_pure[g]
    /\ pc \notin {"trivial", "process"} => worklist = {}

(* What the elimination keeps. *)
KeepInv ==
    /\ ~Eliminating => blocks = Blocks
    /\ Eliminating =>
        /\ insts \subseteq Insts
        /\ operands \in [Insts -> SUBSET Insts]
        /\ \A i \in Insts : operands[i] \subseteq code[i].uses
        /\ succ_bbs \in [Blocks -> SUBSET Blocks] /\ pre_bbs \in [Blocks -> SUBSET Blocks]
        /\ \A b \in Live : b \in blocks /\ succ_bbs[b] = graph[b]
        /\ \A a \in Live : \A b \in graph[a] : a \in pre_bbs[b]
        /\ \A i \in Needed : i \in insts /\ operands[i] = code[i].uses

(* The marks of the running function: closed but for the work list.         *)
MarkInv ==
    pc = "mark" =>
        /\ \A i \in own(func) : is_critical(i) => i \in marked
        /\ marked \subseteq Insts
        /\ \A i \in marked \ work_list : operands[i] \subseteq marked

IInv == ProgramOK /\ PurityInv /\ KeepInv /\ MarkInv

(* The initial state. *)
LEMMA InitInv == Init => IInv
<1> SUFFICES ASSUME Init PROVE IInv
  OBVIOUS
<1>1. ProgramOK
  BY DEF Init, InitInfo, ProgramOK
<1>2. PurityInv
  BY DEF Init, InitInfo, PurityInv
<1> QED
  BY <1>1, <1>2 DEF Init, InitInfo, IInv, KeepInv, MarkInv, Eliminating

(* Nothing that describes the program changes with the steps of the pass.   *)
LEMMA ReferencesStay ==
    ASSUME UNCHANGED program_vars
    PROVE  /\ ProgramOK => ProgramOK'
           /\ Insts' = Insts /\ Live' = Live
           /\ \A f : trivial(f)' <=> trivial(f)
           /\ \A f : callers(f)' = callers(f)
           /\ \A i : func_of(i)' = func_of(i)
           /\ UNCHANGED is_pure => Needed' = Needed /\ \A i : is_critical(i)' <=> is_critical(i)
<1>1. graph' = graph /\ code' = code /\ arrays' = arrays
  BY DEF program_vars
<1>2. Insts' = Insts /\ Live' = Live
  BY <1>1 DEF Insts, Live
<1>3. \A i : func_of(i)' = func_of(i)
  BY <1>1 DEF func_of
<1>4. \A f : trivial(f)' <=> trivial(f)
  BY <1>1 DEF trivial, Insts, func_of, is_side_effect_inst
<1>5. \A f : callers(f)' = callers(f)
  BY <1>1 DEF callers, Insts, func_of
<1>6. UNCHANGED is_pure => \A i : is_critical(i)' <=> is_critical(i)
  BY <1>1 DEF is_critical
<1>7. UNCHANGED is_pure => Needed' = Needed
  BY <1>1, <1>2, <1>6 DEF Needed
<1>8. ProgramOK => ProgramOK'
  BY <1>1 DEF ProgramOK
<1> QED
  BY <1>2, <1>3, <1>4, <1>5, <1>6, <1>7, <1>8

-----------------------------------------------------------------------------
(* The first loop of FuncInfo finds the functions that are impure alone.    *)
LEMMA TrivialMarkInv ==
    ASSUME IInv, TrivialMark, UNCHANGED <<cfg_vars, inst_vars, loop_vars, mark_vars>>
    PROVE  IInv'
<1>1. ProgramOK' /\ (\A f : trivial(f)' <=> trivial(f))
  BY ReferencesStay DEF IInv, TrivialMark
<1>2. pc' = "process" /\ is_pure' = [f \in Funcs |-> ~trivial(f)]
      /\ worklist' = {f \in Funcs : trivial(f)}
  BY DEF TrivialMark
<1>3. \A f \in Funcs : ~is_pure'[f] <=> trivial(f)
  BY <1>2
<1>4. is_pure' \in [Funcs -> BOOLEAN]
  BY <1>2
<1>5. \A f \in Funcs : /\ trivial(f)' => ~is_pure'[f]
                       /\ ~is_pure'[f] => f \in worklist'
  BY <1>1, <1>2, <1>3
<1>6. PurityInv'
  BY <1>2, <1>3, <1>4, <1>5 DEF PurityInv
<1>7. KeepInv' /\ MarkInv'
  BY <1>2 DEF IInv, KeepInv, MarkInv, Eliminating, cfg_vars, TrivialMark
<1> QED
  BY <1>1, <1>6, <1>7 DEF IInv

(* Whoever calls an impure function becomes impure, and is to be processed  *)
(* if that is news.                                                         *)
LEMMA ProcessInv ==
    ASSUME IInv, NEW f \in Funcs, Process(f),
           UNCHANGED <<cfg_vars, inst_vars, loop_vars, mark_vars>>
    PROVE  IInv'
<1>1. /\ ProgramOK'
      /\ \A g : trivial(g)' <=> trivial(g)
      /\ \A g : callers(g)' = callers(g)
  BY ReferencesStay DEF IInv, Process
<1>2. /\ pc = "process" /\ pc' = "process" /\ f \in worklist
      /\ is_pure' = [g \in Funcs |-> is_pure[g] /\ g \notin callers(f)]
      /\ worklist' = (worklist \ {f}) \cup {g \in callers(f) : is_pure[g]}
  BY DEF Process
<1>3. \A g \in Funcs : ~is_pure'[g] <=> ~is_pure[g] \/ g \in callers(f)
  BY <1>2
<1>4. \A g : callers(g) \subseteq Funcs
  BY CallersAreFuncs DEF IInv
<1>5. \A g \in Funcs : trivial(g)' => ~is_pure'[g]
  BY <1>1, <1>2, <1>3 DEF IInv, PurityInv
<1>6. ASSUME NEW g \in Funcs, ~is_pure'[g], g \notin worklist', NEW h \in callers(g)
      PROVE  ~is_pure'[h]
  <2>1. h \in Funcs
    BY <1>4, <1>6
  <2>2. CASE g = f
    BY <1>3, <2>1, <2>2, <1>6
  <2>3. CASE g # f
    <3>1. ~is_pure[g] /\ g \notin worklist
      BY <1>2, <1>3, <1>6, <2>3
    <3>2. ~is_pure[h]
      BY <1>2, <3>1, <1>6 DEF IInv, PurityInv
    <3> QED
      BY <3>2, <1>3, <2>1
  <2> QED
    BY <2>2, <2>3
<1>7. worklist' \subseteq {g \in Funcs : ~is_pure'[g]}
  BY <1>2, <1>3, <1>4 DEF IInv, PurityInv
<1>8. is_pure' \in [Funcs -> BOOLEAN]
  BY <1>2 DEF IInv, PurityInv
<1>9. \A g \in Funcs : ~is_pure'[g] /\ g \notin worklist' => \A h \in callers(g)' : ~is_pure'[h]
  BY <1>1, <1>6
<1>10. PurityInv'
  BY <1>2, <1>5, <1>7, <1>8, <1>9 DEF PurityInv
<1>11. KeepInv' /\ MarkInv'
  BY <1>2 DEF IInv, KeepInv, MarkInv, Eliminating, cfg_vars
<1> QED
  BY <1>1, <1>10, <1>11 DEF IInv

-----------------------------------------------------------------------------
(* Once the list is empty, purity is known and does not change.             *)
LEMMA PurityStays ==
    ASSUME IInv, UNCHANGED <<program_vars, info_vars>>, worklist = {}, pc # "trivial",
           pc' \in {"process", "clear", "critical", "mark", "done"}
    PROVE  ProgramOK' /\ PurityInv'
<1>1. /\ ProgramOK'
      /\ \A g : trivial(g)' <=> trivial(g)
      /\ \A g : callers(g)' = callers(g)
  BY ReferencesStay DEF IInv
<1>2. is_pure' = is_pure /\ worklist' = worklist
  BY DEF info_vars
<1>3. \A f \in Funcs :
         /\ trivial(f)' => ~is_pure'[f]
         /\ ~is_pure'[f] /\ f \notin worklist' => \A g \in callers(f)' : ~is_pure'[g]
  BY <1>1, <1>2 DEF IInv, PurityInv
<1>4. /\ pc' \in {"trivial", "process", "clear", "critical", "mark", "done"}
      /\ is_pure' \in [Funcs -> BOOLEAN]
      /\ worklist' \subseteq {f \in Funcs : ~is_pure'[f]}
      /\ worklist' = {}
  BY <1>2 DEF IInv, PurityInv
<1> QED
  BY <1>1, <1>3, <1>4 DEF PurityInv

(* What a step that changes neither the program nor its purity leaves.      *)
LEMMA Same ==
    ASSUME UNCHANGED <<program_vars, info_vars>>
    PROVE  /\ Insts' = Insts /\ Live' = Live /\ Needed' = Needed
           /\ graph' = graph /\ code' = code
           /\ \A i : func_of(i)' = func_of(i)
           /\ \A i : is_critical(i)' <=> is_critical(i)
  BY ReferencesStay DEF info_vars, program_vars

(* All of the program is there when the elimination begins.                 *)
LEMMA BeginInv ==
    ASSUME IInv, Begin
    PROVE  IInv'
<1>1. pc = "process" /\ worklist = {} /\ pc' = "clear" /\ UNCHANGED <<program_vars, info_vars>>
  BY DEF Begin
<1>2. ProgramOK' /\ PurityInv'
  BY <1>1, PurityStays
<1>3. /\ Insts' = Insts /\ Live' = Live /\ Needed' = Needed /\ graph' = graph /\ code' = code
  BY <1>1, Same
<1>4. /\ succ_bbs' = graph
      /\ pre_bbs' = [b \in Blocks |-> {a \in Blocks : b \in graph[a]}]
      /\ insts' = Insts
      /\ operands' = [i \in Insts |-> code[i].uses]
      /\ blocks' = Blocks
  BY DEF Begin, IInv, KeepInv, Eliminating
<1>5. /\ Live \subseteq Blocks /\ Needed \subseteq Insts
      /\ graph \in [Blocks -> SUBSET Blocks]
      /\ \A i \in Insts : code[i].uses \subseteq Insts
  BY LiveLeast, NeededLeast, ProgramFacts DEF IInv
<1>6. operands' \in [Insts -> SUBSET Insts] /\ \A i \in Insts : operands'[i] = code[i].uses
  BY <1>4, <1>5
<1>7. pre_bbs' \in [Blocks -> SUBSET Blocks] /\ \A a \in Live : \A b \in graph[a] : a \in pre_bbs'[b]
  BY <1>4, <1>5
<1>8. KeepInv'
  BY <1>1, <1>3, <1>4, <1>5, <1>6, <1>7 DEF KeepInv, Eliminating
<1>9. MarkInv'
  BY <1>1 DEF MarkInv
<1> QED
  BY <1>2, <1>8, <1>9 DEF IInv

(* Deleting what is not needed keeps what is. *)
LEMMA DeletedKeeps ==
    ASSUME IInv, Eliminating, NEW dead, Deleted(dead), dead \cap Needed = {}
    PROVE  /\ insts' \subseteq Insts
           /\ operands' \in [Insts -> SUBSET Insts]
           /\ \A i \in Insts : operands'[i] \subseteq code[i].uses
           /\ \A i \in Needed : i \in insts' /\ operands'[i] = code[i].uses
<1>1. /\ insts \subseteq Insts /\ operands \in [Insts -> SUBSET Insts]
      /\ \A i \in Insts : operands[i] \subseteq code[i].uses
      /\ \A i \in Needed : i \in insts /\ operands[i] = code[i].uses
  BY DEF IInv, KeepInv
<1>2. insts' = insts \ dead
      /\ operands' = [i \in Insts |-> IF i \in dead THEN {} ELSE operands[i] \ dead]
  BY DEF Deleted
<1>3. Needed \subseteq Insts /\ \A i \in Needed : code[i].uses \subseteq Needed
  BY NeededLeast DEF IInv
<1>4. operands' \in [Insts -> SUBSET Insts]
  BY <1>1, <1>2
<1>5. \A i \in Insts : operands'[i] \subseteq code[i].uses
  BY <1>1, <1>2
<1>6. \A i \in Needed : i \in insts' /\ operands'[i] = code[i].uses
  BY <1>1, <1>2, <1>3
<1> QED
  BY <1>1, <1>2, <1>4, <1>5, <1>6

(* A block that can be reached is not erased: it is an entry, or has a      *)
(* predecessor that can be reached and is therefore still there.            *)
LEMMA ClearInv ==
    ASSUME IInv, NEW f \in Defined, ClearBasicBlocks(f)
    PROVE  IInv'
<1> DEFINE gone == to_erase(f)
           dead == {i \in insts : code[i].block \in gone}
<1>1. /\ pc = "clear" /\ pc' = "critical" /\ Eliminating
      /\ UNCHANGED <<program_vars, info_vars>>
      /\ blocks' = blocks \ gone
      /\ succ_bbs' = [b \in Blocks |-> succ_bbs[b] \ gone]
      /\ pre_bbs' = [b \in Blocks |-> pre_bbs[b] \ gone]
      /\ Deleted(dead)
  BY DEF ClearBasicBlocks, Eliminating
<1>2. ProgramOK' /\ PurityInv'
  <2>1. worklist = {}
    BY <1>1 DEF IInv, PurityInv
  <2> QED
    BY <1>1, <2>1, PurityStays
<1>3. /\ Insts' = Insts /\ Live' = Live /\ Needed' = Needed /\ graph' = graph /\ code' = code
  BY <1>1, Same
<1>4. /\ succ_bbs \in [Blocks -> SUBSET Blocks] /\ pre_bbs \in [Blocks -> SUBSET Blocks]
      /\ \A b \in Live : b \in blocks /\ succ_bbs[b] = graph[b]
      /\ \A a \in Live : \A b \in graph[a] : a \in pre_bbs[b]
  BY <1>1 DEF IInv, KeepInv
<1>5. gone \cap Live = {}
  <2> SUFFICES ASSUME NEW b \in Live, b \in gone
               PROVE  FALSE
    OBVIOUS
  <2>1. block_func[b] = f /\ pre_bbs[b] = {} /\ b # entry[f]
    BY DEF to_erase
  <2>2. \A h \in Defined : entry[h] # b
    BY <2>1, ProgramFacts DEF IInv
  <2>3. PICK a \in Live : b \in graph[a]
    BY <2>2, LiveReached DEF IInv
  <2> QED
    BY <2>1, <2>3, <1>4
<1>6. dead \cap Needed = {}
  BY <1>5, NeededLive DEF IInv
<1>7. /\ insts' \subseteq Insts
      /\ operands' \in [Insts -> SUBSET Insts]
      /\ \A i \in Insts : operands'[i] \subseteq code[i].uses
      /\ \A i \in Needed : i \in insts' /\ operands'[i] = code[i].uses
  BY <1>1, <1>6, DeletedKeeps
<1>8. /\ succ_bbs' \in [Blocks -> SUBSET Blocks] /\ pre_bbs' \in [Blocks -> SUBSET Blocks]
      /\ \A b \in Live : b \in blocks' /\ succ_bbs'[b] = graph[b]
      /\ \A a \in Live : \A b \in graph[a] : a \in pre_bbs'[b]
  <2> HIDE DEF gone
  <2>1. /\ Live \subseteq Blocks /\ \A a \in Live : graph[a] \subseteq Live
    BY LiveLeast DEF IInv
  <2>2. succ_bbs' \in [Blocks -> SUBSET Blocks] /\ pre_bbs' \in [Blocks -> SUBSET Blocks]
    BY <1>1, <1>4
  <2>3. \A b \in Live : b \in blocks' /\ succ_bbs'[b] = graph[b]
    BY <1>1, <1>4, <1>5, <2>1
  <2>4. \A a \in Live : \A b \in graph[a] : a \in pre_bbs'[b]
    BY <1>1, <1>4, <1>5, <2>1
  <2> QED
    BY <2>2, <2>3, <2>4
<1>9. KeepInv'
  BY <1>1, <1>3, <1>7, <1>8 DEF KeepInv, Eliminating
<1>10. MarkInv'
  BY <1>1 DEF MarkInv
<1> QED
  BY <1>2, <1>9, <1>10 DEF IInv

-----------------------------------------------------------------------------
(* Marking deletes nothing. *)
LEMMA KeepStays ==
    ASSUME IInv, Eliminating, UNCHANGED <<program_vars, info_vars, cfg_vars, inst_vars>>,
           pc' \in {"critical", "mark"}
    PROVE  /\ ProgramOK' /\ PurityInv' /\ KeepInv'
           /\ \A f : own(f)' = own(f)
<1>1. ProgramOK' /\ PurityInv'
  <2>1. worklist = {} /\ pc # "trivial"
    BY DEF IInv, PurityInv, Eliminating
  <2> QED
    BY <2>1, PurityStays
<1>2. /\ Insts' = Insts /\ Live' = Live /\ Needed' = Needed /\ graph' = graph /\ code' = code
      /\ \A i : func_of(i)' = func_of(i)
  BY Same
<1>3. /\ insts' = insts /\ operands' = operands /\ blocks' = blocks
      /\ succ_bbs' = succ_bbs /\ pre_bbs' = pre_bbs
  BY DEF cfg_vars, inst_vars
<1>4. KeepInv'
  BY <1>2, <1>3 DEF IInv, KeepInv, Eliminating
<1>5. \A f : own(f)' = own(f)
  BY <1>2, <1>3 DEF own
<1> QED
  BY <1>1, <1>4, <1>5

(* All marks are on the list at first. *)
LEMMA MarkCriticalInv ==
    ASSUME IInv, MarkCritical
    PROVE  IInv'
<1>1. /\ pc = "critical" /\ pc' = "mark" /\ Eliminating
      /\ UNCHANGED <<program_vars, info_vars, cfg_vars, inst_vars, loop_vars>>
      /\ marked' = {i \in own(func) : is_critical(i)} /\ work_list' = marked'
  BY DEF MarkCritical, Eliminating
<1>2. ProgramOK' /\ PurityInv' /\ KeepInv' /\ own(func)' = own(func)
  <2>1. func' = func
    BY <1>1 DEF loop_vars
  <2> QED
    BY <1>1, <2>1, KeepStays DEF own
<1>3. Insts' = Insts /\ \A i : is_critical(i)' <=> is_critical(i)
  BY <1>1, Same
<1>4. own(func) \subseteq Insts
  BY <1>1 DEF own, IInv, KeepInv
<1>5. MarkInv'
  BY <1>1, <1>2, <1>3, <1>4 DEF MarkInv
<1> QED
  BY <1>2, <1>5 DEF IInv

(* What an instruction from the list needs is marked when it leaves: its    *)
(* operands are all of its function.                                        *)
LEMMA MarkStepInv ==
    ASSUME IInv, NEW i \in Insts, Mark(i)
    PROVE  IInv'
<1> DEFINE new == {d \in operands[i] \ marked : func_of(d) = func_of(i)}
<1>1. /\ pc = "mark" /\ pc' = "mark" /\ Eliminating /\ i \in work_list
      /\ UNCHANGED <<program_vars, info_vars, cfg_vars, inst_vars, loop_vars>>
      /\ marked' = marked \cup new
      /\ work_list' = (work_list \ {i}) \cup new
  BY DEF Mark, Eliminating
<1>2. ProgramOK' /\ PurityInv' /\ KeepInv' /\ own(func)' = own(func)
  <2>1. func' = func
    BY <1>1 DEF loop_vars
  <2> QED
    BY <1>1, <2>1, KeepStays DEF own
<1>3. Insts' = Insts /\ operands' = operands /\ \A j : is_critical(j)' <=> is_critical(j)
  BY <1>1, Same DEF inst_vars
<1>4. operands[i] \subseteq Insts /\ \A d \in operands[i] : func_of(d) = func_of(i)
  <2>1. operands[i] \subseteq code[i].uses
    BY <1>1 DEF IInv, KeepInv
  <2> QED
    BY <2>1, ProgramFacts DEF IInv
<1>5. operands[i] \subseteq marked'
  BY <1>1, <1>4
<1>6. \A j \in marked' \ work_list' : operands[j] \subseteq marked'
  <2> SUFFICES ASSUME NEW j \in marked', j \notin work_list'
               PROVE  operands[j] \subseteq marked'
    OBVIOUS
  <2>1. CASE j = i
    BY <1>5, <2>1
  <2>2. CASE j # i
    <3>1. j \in marked /\ j \notin work_list
      BY <1>1, <2>2
    <3>2. operands[j] \subseteq marked
      BY <1>1, <3>1 DEF IInv, MarkInv
    <3> QED
      BY <1>1, <3>2
  <2> QED
    BY <2>1, <2>2
<1>7. marked' \subseteq Insts /\ \A j \in own(func) : is_critical(j) => j \in marked'
  BY <1>1, <1>4 DEF IInv, MarkInv
<1>8. MarkInv'
  BY <1>1, <1>2, <1>3, <1>6, <1>7 DEF MarkInv
<1> QED
  BY <1>2, <1>8 DEF IInv

(* When the list is empty everything that is needed in the function has its *)
(* mark: with the rest of what is needed, the marked instructions hold the  *)
(* critical ones and all they use.                                          *)
LEMMA NeededMarked ==
    ASSUME IInv, pc = "mark", work_list = {}
    PROVE  (own(func) \ marked) \cap Needed = {}
<1> DEFINE S == {i \in Needed : func_of(i) = func => i \in marked}
<1>1. /\ Needed \subseteq Insts
      /\ \A i \in Insts : is_critical(i) /\ code[i].block \in Live => i \in Needed
      /\ \A i \in Needed : code[i].uses \subseteq Needed
  BY NeededLeast DEF IInv
<1>2. \A i \in Needed : i \in insts /\ operands[i] = code[i].uses
  BY DEF IInv, KeepInv, Eliminating
<1>3. /\ \A i \in own(func) : is_critical(i) => i \in marked
      /\ \A i \in marked : operands[i] \subseteq marked
  BY DEF IInv, MarkInv
<1>4. \A i \in Insts : is_critical(i) /\ code[i].block \in Live => i \in S
  BY <1>1, <1>2, <1>3 DEF own
<1>5. \A i \in S : code[i].uses \subseteq S
  <2> SUFFICES ASSUME NEW i \in S, NEW j \in code[i].uses
               PROVE  j \in S
    OBVIOUS
  <2>1. j \in Needed /\ func_of(j) = func_of(i)
    BY <1>1, ProgramFacts DEF IInv
  <2>2. func_of(j) = func => j \in marked
    BY <1>2, <1>3, <2>1
  <2> QED
    BY <2>1, <2>2
<1>6. Needed \subseteq S
  BY <1>1, <1>4, <1>5, NeededLeast DEF IInv
<1> QED
  BY <1>6 DEF own

LEMMA SweepInv ==
    ASSUME IInv, Sweep
    PROVE  IInv'
<1>1. /\ pc = "mark" /\ work_list = {} /\ Eliminating
      /\ Deleted(own(func) \ marked)
      /\ UNCHANGED <<program_vars, info_vars, cfg_vars>>
      /\ pc' \in {"clear", "done"}
  BY DEF Sweep, Eliminating, NextFunction
<1>2. ProgramOK' /\ PurityInv'
  <2>1. worklist = {}
    BY <1>1 DEF IInv, PurityInv
  <2> QED
    BY <1>1, <2>1, PurityStays
<1>3. /\ Insts' = Insts /\ Live' = Live /\ Needed' = Needed /\ graph' = graph /\ code' = code
  BY <1>1, Same
<1>4. /\ insts' \subseteq Insts
      /\ operands' \in [Insts -> SUBSET Insts]
      /\ \A i \in Insts : operands'[i] \subseteq code[i].uses
      /\ \A i \in Needed : i \in insts' /\ operands'[i] = code[i].uses
  BY <1>1, NeededMarked, DeletedKeeps
<1>5. blocks' = blocks /\ succ_bbs' = succ_bbs /\ pre_bbs' = pre_bbs
  BY <1>1 DEF cfg_vars
<1>6. KeepInv'
  BY <1>1, <1>3, <1>4, <1>5 DEF IInv, KeepInv, Eliminating
<1>7. MarkInv'
  BY <1>1 DEF MarkInv
<1> QED
  BY <1>2, <1>6, <1>7 DEF IInv

(* A step that changes no variable. *)
LEMMA StutterInv ==
    ASSUME IInv, UNCHANGED vars
    PROVE  IInv'
<1>1. UNCHANGED <<program_vars, pc, info_vars, cfg_vars, inst_vars, mark_vars>> /\ func' = func
  BY DEF vars, loop_vars
<1>2. /\ Insts' = Insts /\ Live' = Live /\ Needed' = Needed /\ graph' = graph /\ code' = code
      /\ \A i : func_of(i)' = func_of(i)
      /\ \A i : is_critical(i)' <=> is_critical(i)
  BY <1>1, Same
<1>3. /\ ProgramOK'
      /\ \A f : trivial(f)' <=> trivial(f)
      /\ \A f : callers(f)' = callers(f)
  BY <1>1, ReferencesStay DEF IInv
<1>4. PurityInv'
  BY <1>1, <1>3 DEF IInv, PurityInv, info_vars
<1>5. KeepInv'
  BY <1>1, <1>2 DEF IInv, KeepInv, Eliminating, cfg_vars, inst_vars
<1>6. own(func)' = own(func)
  BY <1>1, <1>2 DEF own, inst_vars
<1>7. MarkInv'
  BY <1>1, <1>2, <1>6 DEF IInv, MarkInv, mark_vars, inst_vars
<1> QED
  BY <1>3, <1>4, <1>5, <1>7 DEF IInv

-----------------------------------------------------------------------------
(* The inductive invariant holds in every state of the analysis and the     *)
(* pass.                                                                    *)
THEOREM Invariance == Spec => []IInv
<1>1. IInv /\ [Next]_vars => IInv'
  <2> SUFFICES ASSUME IInv, [Next]_vars PROVE IInv'
    OBVIOUS
  <2>1. CASE UNCHANGED vars
    BY <2>1, StutterInv
  <2>2. CASE Purity
    <3>1. CASE TrivialMark
      BY <2>2, <3>1, TrivialMarkInv DEF Purity
    <3>2. CASE \E f \in Funcs : Process(f)
      BY <2>2, <3>2, ProcessInv DEF Purity
    <3> QED
      BY <2>2, <3>1, <3>2 DEF Purity, InfoNext
  <2>3. CASE Begin
    BY <2>3, BeginInv
  <2>4. CASE \E f \in Defined : ClearBasicBlocks(f)
    BY <2>4, ClearInv
  <2>5. CASE MarkCritical
    BY <2>5, MarkCriticalInv
  <2>6. CASE \E i \in Insts : Mark(i)
    BY <2>6, MarkStepInv
  <2>7. CASE Sweep
    BY <2>7, SweepInv
  <2> QED
    BY <2>1, <2>2, <2>3, <2>4, <2>5, <2>6, <2>7 DEF Next, Run
<1> QED
  BY InitInv, <1>1, PTL DEF Spec

(* FuncInfo ends with no function marked pure that writes to memory of      *)
(* others, or reaches a library function or one that writes, through any    *)
(* chain or circle of calls.  The marked functions hold those with an       *)
(* effect of their own and, once the list is empty, the callers of each.    *)
THEOREM PurityKnown == Spec => []PuritySound
<1>1. IInv => PuritySound
  <2> SUFFICES ASSUME IInv, pc \notin {"trivial", "process"}
               PROVE  \A f \in Effective : ~is_pure[f]
    BY DEF PuritySound
  <2> DEFINE S == {f \in Funcs : ~is_pure[f]}
  <2>1. \A f \in S : callers(f) \subseteq S
    <3> SUFFICES ASSUME NEW f \in S, NEW g \in callers(f)
                 PROVE  g \in S
      OBVIOUS
    <3>1. g \in Funcs
      BY CallersAreFuncs DEF IInv
    <3>2. ~is_pure[g]
      BY DEF IInv, PurityInv
    <3> QED
      BY <3>1, <3>2
  <2>2. \A f \in Funcs : has_effect(f) => f \in S
    <3>1. \A f \in Funcs : has_effect(f) => trivial(f)
      BY DEF has_effect, trivial, is_side_effect_inst
    <3> QED
      BY <3>1 DEF IInv, PurityInv
  <2>3. Effective \subseteq S
    BY <2>1, <2>2, EffectiveLeast DEF IInv
  <2> QED
    BY <2>3
<1> QED
  BY Invariance, <1>1, PTL

(* DeadCode never deletes a block that can be reached, an instruction that  *)
(* something critical depends on, or an operand of one: in every module,    *)
(* and whatever the order in which functions are visited and marks are set. *)
THEOREM NothingNeededGoes == Spec => []NeededStays
<1>1. IInv => NeededStays
  BY DEF IInv, KeepInv, NeededStays
<1> QED
  BY Invariance, <1>1, PTL

-----------------------------------------------------------------------------
(* What is left over in the end.  The sets that hold what is critical and   *)
(* the operands of what they hold: an instruction is useful if it is in all *)
(* of them.                                                                 *)
UsefulSets ==
    {S \in SUBSET insts : /\ \A i \in insts : is_critical(i) => i \in S
                          /\ \A i \in S : operands[i] \subseteq S}

(* A function with nothing left to delete. *)
Clean(f) == to_erase(f) = {} /\ \A S \in UsefulSets : own(f) \subseteq S

(* The variables of the passes, beyond what IInv says of them. *)
PassTypes ==
    /\ blocks \subseteq Blocks
    /\ succ_bbs \in [Blocks -> SUBSET Blocks] /\ pre_bbs \in [Blocks -> SUBSET Blocks]
    /\ insts \subseteq Insts
    /\ todo \subseteq Defined /\ func \in Defined \cup {NoFunc} /\ changed \in BOOLEAN
    /\ marked \subseteq Insts /\ work_list \subseteq marked

(* As long as a round has deleted nothing, the functions it has visited are *)
(* clean, and the one it visits has no block to erase.  Marks are given to  *)
(* what is useful only.                                                     *)
RoundInv ==
    /\ ~Eliminating => ~changed
    /\ Eliminating /\ ~changed =>
          \A f \in Defined \ todo : (pc \in {"critical", "mark"} => f # func) => Clean(f)
    /\ pc \in {"critical", "mark"} /\ ~changed => to_erase(func) = {}
    /\ pc = "mark" => \A S \in UsefulSets : marked \subseteq S
    /\ pc = "done" => ~changed /\ todo = {}

(* What is useful, and what could be deleted, depends on the instructions   *)
(* and blocks that are left.                                                *)
LEMMA CleanStays ==
    ASSUME UNCHANGED <<program_vars, is_pure, insts, operands>>
    PROVE  /\ UsefulSets' = UsefulSets
           /\ \A f : own(f)' = own(f)
           /\ UNCHANGED <<blocks, pre_bbs>> =>
                 \A f : /\ to_erase(f)' = to_erase(f)
                        /\ Clean(f)' <=> Clean(f)
<1>1. /\ \A i : is_critical(i)' <=> is_critical(i)
      /\ \A i : func_of(i)' = func_of(i)
  BY ReferencesStay
<1>2. UsefulSets' = UsefulSets
  BY <1>1 DEF UsefulSets
<1>3. \A f : own(f)' = own(f)
  BY <1>1 DEF own
<1>4. UNCHANGED <<blocks, pre_bbs>> => \A f : to_erase(f)' = to_erase(f)
  BY DEF to_erase
<1>5. UNCHANGED <<blocks, pre_bbs>> => \A f : Clean(f)' <=> Clean(f)
  BY <1>2, <1>3, <1>4 DEF Clean
<1> QED
  BY <1>2, <1>3, <1>4, <1>5

(* To delete nothing changes nothing. *)
LEMMA DeletedNothing ==
    ASSUME IInv, Eliminating, Deleted({})
    PROVE  UNCHANGED <<insts, operands>>
<1>1. operands \in [Insts -> SUBSET Insts]
  BY DEF IInv, KeepInv
<1>2. insts' = insts \ {} /\ operands' = [i \in Insts |-> IF i \in {} THEN {} ELSE operands[i] \ {}]
  BY DEF Deleted
<1>3. operands' = [i \in Insts |-> operands[i]]
  BY <1>2
<1>4. operands' = operands
  BY <1>1, <1>3
<1> QED
  BY <1>2, <1>4

-----------------------------------------------------------------------------
(* The steps of FuncInfo leave the pass where it is. *)
LEMMA PurityRound ==
    ASSUME IInv, PassTypes, RoundInv, Purity
    PROVE  PassTypes' /\ RoundInv'
<1>1. /\ UNCHANGED <<program_vars, cfg_vars, inst_vars, loop_vars, mark_vars>>
      /\ pc \in {"trivial", "process"} /\ pc' \in {"trivial", "process"}
  BY DEF Purity, InfoNext, TrivialMark, Process
<1>2. Insts' = Insts
  BY <1>1, ReferencesStay
<1>3. PassTypes'
  BY <1>1, <1>2 DEF PassTypes, cfg_vars, inst_vars, loop_vars, mark_vars
<1>4. RoundInv'
  BY <1>1 DEF RoundInv, Eliminating, loop_vars
<1> QED
  BY <1>3, <1>4

(* A round begins with all functions to visit. *)
LEMMA BeginRound ==
    ASSUME IInv, PassTypes, RoundInv, Begin
    PROVE  PassTypes' /\ RoundInv'
<1>1. /\ UNCHANGED <<program_vars, info_vars, blocks, func, changed, mark_vars>>
      /\ pc = "process" /\ pc' = "clear" /\ todo' = Defined
      /\ succ_bbs' = graph /\ insts' = Insts
      /\ pre_bbs' = [b \in Blocks |-> {a \in Blocks : b \in graph[a]}]
  BY DEF Begin
<1>2. Insts' = Insts
  BY <1>1, ReferencesStay
<1>3. graph \in [Blocks -> SUBSET Blocks]
  BY ProgramFacts DEF IInv
<1>4. PassTypes'
  BY <1>1, <1>2, <1>3 DEF PassTypes, mark_vars
<1>5. RoundInv'
  BY <1>1 DEF RoundInv, Eliminating
<1> QED
  BY <1>4, <1>5

(* If no block is erased, nothing changes.  If one is, the round is not the *)
(* last.                                                                    *)
LEMMA ClearRound ==
    ASSUME IInv, PassTypes, RoundInv, NEW f \in Defined, ClearBasicBlocks(f)
    PROVE  PassTypes' /\ RoundInv'
<1> DEFINE gone == to_erase(f)
           dead == {i \in insts : code[i].block \in gone}
<1>1. /\ UNCHANGED <<program_vars, info_vars, mark_vars>>
      /\ pc = "clear" /\ pc' = "critical" /\ Eliminating /\ f \in todo
      /\ blocks' = blocks \ gone
      /\ succ_bbs' = [b \in Blocks |-> succ_bbs[b] \ gone]
      /\ pre_bbs' = [b \in Blocks |-> pre_bbs[b] \ gone]
      /\ Deleted(dead)
      /\ changed' = (changed \/ gone # {})
      /\ func' = f /\ todo' = todo \ {f}
  BY DEF ClearBasicBlocks, Eliminating
<1>2. Insts' = Insts
  BY <1>1, ReferencesStay
<1>3. PassTypes'
  <2>1. insts' \subseteq insts
    BY <1>1 DEF Deleted
  <2>2. succ_bbs' \in [Blocks -> SUBSET Blocks] /\ pre_bbs' \in [Blocks -> SUBSET Blocks]
    <3> HIDE DEF gone
    <3> QED
      BY <1>1 DEF PassTypes
  <2>3. changed' \in BOOLEAN
    BY <1>1
  <2> QED
    BY <1>1, <1>2, <2>1, <2>2, <2>3 DEF PassTypes, mark_vars
<1>4. CASE gone = {}
  <2>1. dead = {} /\ Deleted({})
    <3>1. dead = {}
      BY <1>4
    <3> QED
      BY <1>1, <3>1
  <2>2. UNCHANGED <<insts, operands>>
    BY <1>1, <2>1, DeletedNothing
  <2>3. UNCHANGED <<blocks, pre_bbs>>
    <3>1. pre_bbs' = [b \in Blocks |-> pre_bbs[b]]
      BY <1>1, <1>4
    <3>2. pre_bbs \in [Blocks -> SUBSET Blocks]
      BY DEF PassTypes
    <3> QED
      BY <1>1, <1>4, <3>1, <3>2
  <2>4. \A g : to_erase(g)' = to_erase(g) /\ (Clean(g)' <=> Clean(g))
    BY <1>1, <2>2, <2>3, CleanStays DEF info_vars
  <2>5. changed' <=> changed
    BY <1>1, <1>4
  <2>6. to_erase(func)' = {}
    BY <1>1, <1>4, <2>3 DEF to_erase, program_vars
  <2>7. ASSUME ~changed', NEW g \in Defined \ todo', g # func'
        PROVE  Clean(g)'
    <3>1. g \in Defined \ todo /\ ~changed
      BY <1>1, <2>5, <2>7
    <3>2. Clean(g)
      BY <1>1, <3>1 DEF RoundInv
    <3> QED
      BY <2>4, <3>2
  <2> QED
    BY <1>1, <1>3, <2>6, <2>7 DEF RoundInv, Eliminating
<1>5. CASE gone # {}
  <2>1. changed'
    BY <1>1, <1>5
  <2> QED
    BY <1>1, <1>3, <2>1 DEF RoundInv, Eliminating
<1> QED
  BY <1>4, <1>5

(* The first marks are those of the critical instructions. *)
LEMMA CriticalRound ==
    ASSUME IInv, PassTypes, RoundInv, MarkCritical
    PROVE  PassTypes' /\ RoundInv'
<1>1. /\ UNCHANGED <<program_vars, info_vars, cfg_vars, inst_vars, loop_vars>>
      /\ pc = "critical" /\ pc' = "mark"
      /\ marked' = {i \in own(func) : is_critical(i)}
      /\ work_list' = marked'
  BY DEF MarkCritical
<1>2. /\ Insts' = Insts /\ insts' = insts /\ blocks' = blocks
      /\ succ_bbs' = succ_bbs /\ pre_bbs' = pre_bbs
      /\ todo' = todo /\ func' = func /\ changed' = changed
  BY <1>1, ReferencesStay DEF cfg_vars, inst_vars, loop_vars
<1>3. own(func) \subseteq insts
  BY DEF own
<1>4. PassTypes'
  BY <1>1, <1>2, <1>3 DEF PassTypes
<1>5. /\ UsefulSets' = UsefulSets
      /\ \A f : to_erase(f)' = to_erase(f) /\ (Clean(f)' <=> Clean(f))
  BY <1>1, CleanStays DEF cfg_vars, inst_vars, info_vars
<1>6. \A S \in UsefulSets : marked' \subseteq S
  BY <1>1, <1>3 DEF UsefulSets
<1>7. to_erase(func)' = to_erase(func)
  BY <1>2, <1>1 DEF to_erase, program_vars
<1>8. \A f \in Defined \ todo' : ~changed' /\ f # func' => Clean(f)'
  BY <1>1, <1>2, <1>5 DEF RoundInv, Eliminating
<1> QED
  BY <1>1, <1>2, <1>4, <1>5, <1>6, <1>7, <1>8 DEF RoundInv, Eliminating

(* The operands of what is useful are useful. *)
LEMMA MarkRound ==
    ASSUME IInv, PassTypes, RoundInv, NEW i \in Insts, Mark(i)
    PROVE  PassTypes' /\ RoundInv'
<1> DEFINE new == {d \in operands[i] \ marked : func_of(d) = func_of(i)}
<1>1. /\ UNCHANGED <<program_vars, info_vars, cfg_vars, inst_vars, loop_vars>>
      /\ pc = "mark" /\ pc' = "mark" /\ i \in work_list
      /\ marked' = marked \cup new
      /\ work_list' = (work_list \ {i}) \cup new
  BY DEF Mark
<1>2. /\ Insts' = Insts /\ insts' = insts /\ blocks' = blocks
      /\ succ_bbs' = succ_bbs /\ pre_bbs' = pre_bbs
      /\ todo' = todo /\ func' = func /\ changed' = changed
  BY <1>1, ReferencesStay DEF cfg_vars, inst_vars, loop_vars
<1>3. new \subseteq operands[i] /\ operands[i] \subseteq Insts
  BY <1>1 DEF IInv, KeepInv, Eliminating
<1>4. PassTypes'
  <2> HIDE DEF new
  <2> QED
    BY <1>1, <1>2, <1>3 DEF PassTypes
<1>5. /\ UsefulSets' = UsefulSets
      /\ \A f : to_erase(f)' = to_erase(f) /\ (Clean(f)' <=> Clean(f))
  BY <1>1, CleanStays DEF cfg_vars, inst_vars, info_vars
<1>6. ASSUME NEW S \in UsefulSets
      PROVE  marked' \subseteq S
  <2> HIDE DEF new
  <2>1. marked \subseteq S /\ i \in marked
    BY <1>1 DEF RoundInv, PassTypes
  <2>2. operands[i] \subseteq S
    BY <2>1 DEF UsefulSets
  <2> QED
    BY <1>1, <1>3, <2>1, <2>2
<1>7. to_erase(func)' = to_erase(func)
  BY <1>2, <1>1 DEF to_erase, program_vars
<1>8. \A f \in Defined \ todo' : ~changed' /\ f # func' => Clean(f)'
  BY <1>1, <1>2, <1>5 DEF RoundInv, Eliminating
<1> QED
  BY <1>1, <1>2, <1>4, <1>5, <1>6, <1>7, <1>8 DEF RoundInv, Eliminating

(* A function in which nothing is swept is clean: all that it holds is      *)
(* marked, hence useful.                                                    *)
LEMMA SweepRound ==
    ASSUME IInv, PassTypes, RoundInv, Sweep
    PROVE  PassTypes' /\ RoundInv'
<1> DEFINE wait_del == own(func) \ marked
           change == changed \/ wait_del # {}
<1>1. /\ UNCHANGED <<program_vars, info_vars, cfg_vars, func, mark_vars>>
      /\ pc = "mark" /\ Eliminating
      /\ Deleted(wait_del)
      /\ NextFunction(change)
  BY DEF Sweep, Eliminating
<1>2. /\ Insts' = Insts /\ func' = func /\ blocks' = blocks
      /\ succ_bbs' = succ_bbs /\ pre_bbs' = pre_bbs
      /\ marked' = marked /\ work_list' = work_list
  BY <1>1, ReferencesStay DEF cfg_vars, mark_vars
<1>3. insts' \subseteq insts
  BY <1>1 DEF Deleted
<1>4. change \in BOOLEAN
  BY DEF PassTypes
<1>5. /\ pc' \in {"clear", "done"}
      /\ todo # {} => pc' = "clear" /\ todo' = todo /\ changed' = change
      /\ todo = {} => changed' = FALSE
      /\ todo = {} /\ change => pc' = "clear" /\ todo' = Defined
      /\ todo = {} /\ ~change => pc' = "done" /\ todo' = todo
  <2> HIDE DEF change
  <2> QED
    BY <1>1 DEF NextFunction
<1>6. PassTypes'
  <2>1. todo' \subseteq Defined /\ changed' \in BOOLEAN
    <3> HIDE DEF change
    <3> QED
      BY <1>4, <1>5 DEF PassTypes
  <2> QED
    BY <1>2, <1>3, <2>1 DEF PassTypes
<1>7. CASE change
  <2>1. pc' = "clear" /\ (changed' \/ todo' = Defined)
    <3> HIDE DEF change
    <3> QED
      BY <1>5, <1>7
  <2> QED
    BY <1>6, <2>1 DEF RoundInv, Eliminating
<1>8. CASE ~change
  <2>1. ~changed /\ wait_del = {}
    BY <1>8
  <2>2. UNCHANGED <<insts, operands>>
    <3> HIDE DEF wait_del
    <3> QED
      BY <1>1, <2>1, DeletedNothing
  <2>3. \A f : Clean(f)' <=> Clean(f)
    BY <1>1, <2>2, CleanStays DEF cfg_vars, info_vars
  <2>4. Clean(func)
    <3>1. own(func) \subseteq marked
      BY <2>1
    <3>2. to_erase(func) = {} /\ \A S \in UsefulSets : marked \subseteq S
      BY <1>1, <2>1 DEF RoundInv
    <3> QED
      BY <3>1, <3>2 DEF Clean
  <2>5. \A f \in Defined \ todo : Clean(f)
    BY <1>1, <2>1, <2>4 DEF RoundInv
  <2>6. todo' = todo /\ ~changed'
    <3> HIDE DEF change
    <3> QED
      BY <1>5, <1>8
  <2>7. \A f \in Defined \ todo' : Clean(f)'
    BY <2>3, <2>5, <2>6
  <2>8. pc' = "done" => todo' = {}
    <3> HIDE DEF change
    <3> QED
      BY <1>5
  <2> QED
    BY <1>5, <1>6, <2>6, <2>7, <2>8 DEF RoundInv, Eliminating
<1> QED
  BY <1>4, <1>7, <1>8

(* A step that changes no variable. *)
LEMMA StutterRound ==
    ASSUME PassTypes, RoundInv, UNCHANGED vars
    PROVE  PassTypes' /\ RoundInv'
<1>1. UNCHANGED <<program_vars, pc, info_vars, cfg_vars, inst_vars, loop_vars, mark_vars>>
  BY DEF vars
<1>2. /\ Insts' = Insts /\ insts' = insts /\ blocks' = blocks
      /\ succ_bbs' = succ_bbs /\ pre_bbs' = pre_bbs /\ pc' = pc
      /\ todo' = todo /\ func' = func /\ changed' = changed
      /\ marked' = marked /\ work_list' = work_list
  BY <1>1, ReferencesStay DEF cfg_vars, inst_vars, loop_vars, mark_vars
<1>3. /\ UsefulSets' = UsefulSets
      /\ \A f : to_erase(f)' = to_erase(f) /\ (Clean(f)' <=> Clean(f))
  BY <1>1, CleanStays DEF cfg_vars, inst_vars, info_vars
<1>4. to_erase(func)' = to_erase(func)
  BY <1>2, <1>1 DEF to_erase, program_vars
<1>5. PassTypes'
  BY <1>2 DEF PassTypes
<1>6. RoundInv'
  BY <1>2, <1>3, <1>4 DEF RoundInv, Eliminating
<1> QED
  BY <1>5, <1>6

(* Rounds go on until one of them finds every function clean. *)
LEMMA Rounds == Spec => [](IInv /\ PassTypes /\ RoundInv)
<1>1. Init => PassTypes /\ RoundInv
  <2> SUFFICES ASSUME Init PROVE PassTypes /\ RoundInv
    OBVIOUS
  <2>1. PassTypes
    BY DEF Init, PassTypes
  <2> QED
    BY <2>1 DEF Init, InitInfo, RoundInv, Eliminating
<1>2. IInv /\ PassTypes /\ RoundInv /\ [Next]_vars => PassTypes' /\ RoundInv'
  <2> SUFFICES ASSUME IInv, PassTypes, RoundInv, [Next]_vars
               PROVE  PassTypes' /\ RoundInv'
    OBVIOUS
  <2>1. CASE UNCHANGED vars
    BY <2>1, StutterRound
  <2>2. CASE Purity
    BY <2>2, PurityRound
  <2>3. CASE Begin
    BY <2>3, BeginRound
  <2>4. CASE \E f \in Defined : ClearBasicBlocks(f)
    BY <2>4, ClearRound
  <2>5. CASE MarkCritical
    BY <2>5, CriticalRound
  <2>6. CASE \E i \in Insts : Mark(i)
    BY <2>6, MarkRound
  <2>7. CASE Sweep
    BY <2>7, SweepRound
  <2> QED
    BY <2>1, <2>2, <2>3, <2>4, <2>5, <2>6, <2>7 DEF Next, Run
<1> QED
  BY Invariance, <1>1, <1>2, PTL DEF Spec

(* The variables keep their types. *)
THEOREM TypesKept == Spec => []TypeOK
<1>1. IInv /\ PassTypes => TypeOK
  <2> SUFFICES ASSUME IInv, PassTypes PROVE TypeOK
    OBVIOUS
  <2>1. PICK p \in Programs : graph = p.graph /\ code = p.code /\ arrays = p.arrays
    BY DEF IInv, ProgramOK
  <2>2. WellFormed(p)
    BY FuncInfoAssumption DEF FuncInfoAssumption
  <2>3. /\ graph \in [Blocks -> SUBSET Blocks] /\ code \in Seq(Instr(Len(code)))
        /\ arrays \subseteq Defined
    BY <2>1, <2>2 DEF WellFormed
  <2>4. worklist \subseteq Funcs
    BY DEF IInv, PurityInv
  <2>5. Eliminating => operands \in [Insts -> SUBSET Insts]
    BY DEF IInv, KeepInv
  <2> QED
    BY <2>3, <2>4, <2>5 DEF TypeOK, IInv, PurityInv, PassTypes
<1> QED
  BY Rounds, <1>1, PTL

(* When the pass ends, something critical depends on every instruction that *)
(* is left, and every block has a predecessor or is an entry: one round     *)
(* without a change is enough to know it, though the functions are visited  *)
(* one by one and each deletion may make others possible.                   *)
THEOREM NothingDeadStays == Spec => []DeadGone
<1>1. IInv /\ PassTypes /\ RoundInv => DeadGone
  <2> SUFFICES ASSUME IInv, PassTypes, RoundInv, pc = "done"
               PROVE  /\ \A f \in Defined : to_erase(f) = {}
                      /\ insts = Useful
    BY DEF DeadGone
  <2>1. \A f \in Defined : Clean(f)
    BY DEF RoundInv, Eliminating
  <2>2. \A i \in insts : func_of(i) \in Defined
    BY ProgramFacts DEF IInv, PassTypes, func_of
  <2>3. \A i \in insts : i \in own(func_of(i))
    BY DEF own
  <2>4. \A i \in insts : \A S \in UsefulSets : i \in S
    BY <2>1, <2>2, <2>3 DEF Clean
  <2>5. insts = Useful
    BY <2>4 DEF Useful, UsefulSets
  <2> QED
    BY <2>1, <2>5 DEF Clean
<1> QED
  BY Rounds, <1>1, PTL

=============================================================================
