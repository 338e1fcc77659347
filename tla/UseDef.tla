------------------------------- MODULE UseDef -------------------------------
(***************************************************************************)
(* The use-def chains of the light IR: lightir/Value.cpp, lightir/User.cpp *)
(* and the phi operations of lightir/Instruction.hpp.                      *)
(*                                                                         *)
(* Every User holds a vector of operands and every Value holds the list of *)
(* its uses (user, arg_no).  The two are kept in step by hand, one pointer *)
(* at a time; every pass relies on their agreement.                        *)
(*                                                                         *)
(* A use list is modelled as a bag: its order is never observable in       *)
(* operands_, but a use recorded twice, or lost, is.  arg_no is counted    *)
(* from 1 here, from 0 in the code.                                        *)
(***************************************************************************)
EXTENDS Naturals, Sequences

CONSTANTS
    Values,       \* every IR value: instructions, constants, basic blocks
    Users,        \* the values that have operands
    Phis,         \* the users that are PhiInst
    Blocks,       \* the values that are BasicBlock
    NoValue,      \* nullptr
    MaxOperands,  \* bound: operands of a phi
    MaxPlain      \* bound: operands of any other user

ASSUME UseDefAssumption ==
    /\ Users \subseteq Values
    /\ Phis \subseteq Users
    /\ Blocks \subseteq Values
    /\ Blocks \cap Users = {}
    /\ NoValue \notin Values
    /\ MaxOperands \in Nat
    /\ MaxPlain \in 0 .. MaxOperands

VARIABLES
    operands,  \* operands_ of every user
    use_list,  \* use_list_ of every value: how often each use is recorded
    alive,     \* the values whose destructor has not finished
    call       \* the replace_all_use_with call that is running, if any

vars == <<operands, use_list, alive, call>>

ArgNo == 1 .. MaxOperands
Uses  == Users \X ArgNo

Return == [this |-> NoValue, new_val |-> NoValue, dtor |-> FALSE]
Idle   == call.this = NoValue

-----------------------------------------------------------------------------
(* Value::add_use appends, Value::remove_use drops every equal entry.      *)

add_use(ul, v, u, i)    == [ul EXCEPT ![v][<<u, i>>] = @ + 1]
remove_use(ul, v, u, i) == [ul EXCEPT ![v][<<u, i>>] = 0]

(* Faulty variant: clearing an operand forgets to drop its use. *)
set_operand_uses_null_skipped(ul, u, i, v) ==
    LET old == operands[u][i]
    IN  IF v = NoValue THEN ul
        ELSE add_use(IF old = NoValue THEN ul ELSE remove_use(ul, old, u, i), v, u, i)

(* The use lists after operand i of u is overwritten with v: the old value, *)
(* if there is one, forgets the use before the new one, if any, records it.  *)
set_operand_uses(ul, u, i, v) ==
    LET old == operands[u][i]
        cut == IF old = NoValue THEN ul ELSE remove_use(ul, old, u, i)
    IN  IF v = NoValue THEN cut ELSE add_use(cut, v, u, i)

(* The use lists after the operands ops of u are all dropped. *)
remove_all_uses(ul, u, ops) ==
    [v \in Values |-> [w \in Uses |->
        IF w[1] = u /\ w[2] \in DOMAIN ops /\ ops[w[2]] = v THEN 0 ELSE ul[v][w]]]

(* Faulty variant: the shifted operands keep the use they had. *)
remove_operand_uses_unshifted(ul, u, ops, idx) ==
    [v \in Values |-> [w \in Uses |->
        IF w = <<u, idx>> /\ ops[idx] = v THEN 0 ELSE ul[v][w]]]

(* User::remove_operand(idx).  For i = idx+1, idx+2, ... operand i gives up *)
(* use i and records use i-1; only then does operand idx give up use idx.   *)
remove_operand_uses(ul, u, ops, idx) ==
    LET Left(v, i)    == IF i \in DOMAIN ops /\ i > idx /\ ops[i] = v
                         THEN 0 ELSE ul[v][<<u, i>>]
        Arrived(v, i) == IF i \in idx .. Len(ops) - 1 /\ ops[i + 1] = v
                         THEN 1 ELSE 0
    IN  [v \in Values |-> [w \in Uses |->
            IF w[1] # u THEN ul[v][w]
            ELSE IF w[2] = idx /\ ops[idx] = v THEN 0
            ELSE Left(v, w[2]) + Arrived(v, w[2])]]

(* Faulty variant: the rest is moved up, the vector keeps its length. *)
erase_no_resize(ops, idx) ==
    [i \in 1 .. Len(ops) |->
        IF i < idx THEN ops[i] ELSE IF i < Len(ops) THEN ops[i + 1] ELSE "moved from"]

(* operands_.erase(operands_.begin() + idx) *)
erase(ops, idx) ==
    [i \in 1 .. Len(ops) - 1 |-> IF i < idx THEN ops[i] ELSE ops[i + 1]]

-----------------------------------------------------------------------------
Init ==
    /\ operands = [u \in Users |-> <<>>]
    /\ use_list = [v \in Values |-> [w \in Uses |-> 0]]
    /\ alive = Values
    /\ call = Return

(* User::add_operand, from the constructors of the non-phi instructions. *)
AddOperand(u, v) ==
    /\ Idle
    /\ u \in alive \ Phis
    /\ v \in alive
    /\ Len(operands[u]) < MaxPlain
    /\ use_list' = add_use(use_list, v, u, Len(operands[u]) + 1)
    /\ operands' = [operands EXCEPT ![u] = Append(@, v)]
    /\ UNCHANGED <<alive, call>>

(* PhiInst::add_phi_pair_operand: the value, then the block it comes from. *)
AddPhiPair(u, v, bb) ==
    /\ Idle
    /\ u \in alive \cap Phis
    /\ v \in alive \ Blocks
    /\ bb \in alive \cap Blocks
    /\ Len(operands[u]) + 2 <= MaxOperands
    /\ use_list' = add_use(add_use(use_list, v, u, Len(operands[u]) + 1),
                           bb, u, Len(operands[u]) + 2)
    /\ operands' = [operands EXCEPT ![u] = Append(Append(@, v), bb)]
    /\ UNCHANGED <<alive, call>>

(* User::set_operand as LICM calls it: a block in a branch or a phi is      *)
(* redirected to another block.                                             *)
SetOperand(u, i, bb) ==
    /\ Idle
    /\ u \in alive
    /\ bb \in alive \cap Blocks
    /\ i \in DOMAIN operands[u]
    /\ operands[u][i] \in Blocks
    /\ use_list' = set_operand_uses(use_list, u, i, bb)
    /\ operands' = [operands EXCEPT ![u][i] = bb]
    /\ UNCHANGED <<alive, call>>

(* User::remove_all_operands *)
RemoveAllOperands(u) ==
    /\ Idle
    /\ u \in alive
    /\ operands[u] # <<>>
    /\ use_list' = remove_all_uses(use_list, u, operands[u])
    /\ operands' = [operands EXCEPT ![u] = <<>>]
    /\ UNCHANGED <<alive, call>>

(* Faulty variant: only the value of the pair is removed. *)
RemovePhiOperandOnce(u, i) ==
    /\ Idle
    /\ u \in alive \cap Phis
    /\ i \in DOMAIN operands[u]
    /\ i % 2 = 1
    /\ \A j \in DOMAIN operands[u] : operands[u][j] # NoValue
    /\ use_list' = remove_operand_uses(use_list, u, operands[u], i)
    /\ operands' = [operands EXCEPT ![u] = erase(@, i)]
    /\ UNCHANGED <<alive, call>>

(* PhiInst::remove_phi_operand(pre_bb): the first pair that names pre_bb    *)
(* loses its value and then, at the same index, its block.  remove_operand  *)
(* dereferences every later operand: a phi with null operands is never      *)
(* trimmed.                                                                 *)
RemovePhiOperand(u, i) ==
    LET ops  == operands[u]
        ops1 == erase(ops, i)
    IN  /\ Idle
        /\ u \in alive \cap Phis
        /\ i \in DOMAIN ops
        /\ i % 2 = 1
        /\ \A j \in DOMAIN ops : ops[j] # NoValue
        /\ \A j \in 1 .. i - 1 : ops[j] # ops[i + 1]
        /\ use_list' = remove_operand_uses(
                           remove_operand_uses(use_list, u, ops, i), u, ops1, i)
        /\ operands' = [operands EXCEPT ![u] = erase(ops1, i)]
        /\ UNCHANGED <<alive, call>>

(* Mem2Reg replaces a load by the value it would have read. *)
ReplaceAllUseWith(v, new_val) ==
    /\ Idle
    /\ v \in (Users \cap alive) \ Blocks
    /\ new_val \in alive \ Blocks
    /\ v # new_val
    /\ call' = [this |-> v, new_val |-> new_val, dtor |-> FALSE]
    /\ UNCHANGED <<operands, use_list, alive>>

(* Faulty variant: ~User does not drop the operands. *)
DeleteKeepingOperands(v) ==
    /\ Idle
    /\ v \in alive
    /\ call' = [this |-> v, new_val |-> NoValue, dtor |-> TRUE]
    /\ UNCHANGED <<operands, use_list, alive>>

(* delete v: ~User drops the operands, then ~Value starts replacing every   *)
(* remaining use by nullptr.                                                *)
Delete(v) ==
    /\ Idle
    /\ v \in alive
    /\ IF v \in Users
       THEN /\ use_list' = remove_all_uses(use_list, v, operands[v])
            /\ operands' = [operands EXCEPT ![v] = <<>>]
       ELSE UNCHANGED <<operands, use_list>>
    /\ call' = [this |-> v, new_val |-> NoValue, dtor |-> TRUE]
    /\ UNCHANGED alive

(* One turn of the loop of Value::replace_all_use_with: whatever use is at  *)
(* the front of the list, its user overwrites the operand it names.         *)
ReplaceUse(u, i) ==
    /\ ~Idle
    /\ use_list[call.this][<<u, i>>] > 0
    /\ i \in DOMAIN operands[u]
    /\ use_list' = set_operand_uses(use_list, u, i, call.new_val)
    /\ operands' = [operands EXCEPT ![u][i] = call.new_val]
    /\ UNCHANGED <<alive, call>>

(* The list is empty: the loop ends, and with it the destructor if it was   *)
(* the caller.                                                              *)
ReplaceDone ==
    /\ ~Idle
    /\ \A w \in Uses : use_list[call.this][w] = 0
    /\ alive' = IF call.dtor THEN alive \ {call.this} ELSE alive
    /\ call' = Return
    /\ UNCHANGED <<operands, use_list>>

Next ==
    \/ \E u \in Users, v \in Values : AddOperand(u, v)
    \/ \E u \in Phis, v \in Values, bb \in Blocks : AddPhiPair(u, v, bb)
    \/ \E u \in Users, i \in ArgNo, bb \in Blocks : SetOperand(u, i, bb)
    \/ \E u \in Users : RemoveAllOperands(u)
    \/ \E u \in Phis, i \in ArgNo : RemovePhiOperand(u, i)
    \/ \E v, new_val \in Values : ReplaceAllUseWith(v, new_val)
    \/ \E v \in Values : Delete(v)
    \/ \E u \in Users, i \in ArgNo : ReplaceUse(u, i)
    \/ ReplaceDone

(* The loop is sequential code: once entered it keeps running. *)
Loop == ReplaceDone \/ \E u \in Users, i \in ArgNo : ReplaceUse(u, i)

Spec == Init /\ [][Next]_vars /\ WF_vars(Loop)

-----------------------------------------------------------------------------
(* Type invariant, for lightir/Value.hpp and lightir/User.hpp. *)
TypeOK ==
    /\ operands \in [Users -> Seq(Values \cup {NoValue})]
    /\ \A u \in Users : Len(operands[u]) <= MaxOperands
    /\ use_list \in [Values -> [Uses -> Nat]]
    /\ alive \subseteq Values
    /\ call \in [this : Values \cup {NoValue},
                 new_val : Values \cup {NoValue}, dtor : BOOLEAN]

(* The operands of a phi alternate between a value and the block it comes   *)
(* from; deleted ones have become null (Instruction.hpp, get_phi_pairs).    *)
PhiShape ==
    \A u \in Phis :
        /\ Len(operands[u]) % 2 = 0
        /\ \A i \in DOMAIN operands[u] :
              operands[u][i] # NoValue => ((operands[u][i] \in Blocks) <=> i % 2 = 0)

(* Use (u, i) is recorded exactly once by the value that operand i of u is, *)
(* and by nobody else: after any sequence of add, set, remove, replace and  *)
(* delete, no use is lost, stale or counted twice.                          *)
UseListExact ==
    \A v \in Values, u \in Users, i \in ArgNo :
        use_list[v][<<u, i>>] =
            IF i \in DOMAIN operands[u] /\ operands[u][i] = v THEN 1 ELSE 0

(* Once a destructor has finished nobody refers to the value, neither as an *)
(* operand nor as a user: deletion leaves nulls, never dangling pointers.   *)
NoDangling ==
    /\ \A u \in Users : \A i \in DOMAIN operands[u] :
          operands[u][i] \in alive \cup {NoValue}
    /\ \A u \in Users \ alive : operands[u] = <<>>

(* The loop of replace_all_use_with, which pops the front of the list only  *)
(* indirectly (through the set_operand of the user), always comes to an end. *)
ReplaceEnds == ~Idle ~> Idle

=============================================================================
