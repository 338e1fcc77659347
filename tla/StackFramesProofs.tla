--------------------------- MODULE StackFramesProofs ---------------------------
(***************************************************************************)
(* The layout of frames and the discipline of calls, for every number and   *)
(* mix of arguments, instructions and arrays and every depth of calls.      *)
(***************************************************************************)
EXTENDS StackFrames, TLAPS, FiniteSets, FiniteSetTheorems

LEMMA Sizes == \A t \in Types : get_size(t) \in {1, 4, 8}
BY StackAssumption DEF StackAssumption, get_size

LEMMA Rounding ==
    ASSUME NEW x \in Nat \ {0}
    PROVE  ALIGN(x) \in Nat \ {0} /\ ALIGN(x) >= x /\ ALIGN(x) % 16 = 0
BY DEF ALIGN, PROLOGUE_ALIGN

-----------------------------------------------------------------------------
(* allocate.  The running offset is the end of what has been given out: the *)
(* next slot begins below it.                                               *)
LayoutType ==
    /\ offset \in [Funcs -> Nat]
    /\ offset_map \in [Funcs -> Seq(Slots)]
    /\ frame_size \in [Funcs -> Nat]
    /\ nargs \in [Funcs -> Nat]

Within(f) ==
    /\ offset[f] >= 16
    /\ frame_size[f] > 0 => frame_size[f] >= offset[f] /\ frame_size[f] % 16 = 0
    /\ \A i \in DOMAIN offset_map[f] :
          /\ offset_map[f][i].off + size(offset_map[f][i]) <= -16
          /\ base(offset_map[f][i]) >= 0 - offset[f]

Disjoint(f) ==
    \A i \in DOMAIN offset_map[f] : \A j \in 1 .. i - 1 :
        offset_map[f][i].off + size(offset_map[f][i]) <= base(offset_map[f][j])

(* Arguments come first and have no array. *)
ArgsFirst(f) ==
    /\ nargs[f] <= Len(offset_map[f]) /\ nargs[f] <= MaxArgs
    /\ \A i \in 1 .. nargs[f] : offset_map[f][i].extra = 0

LayoutInv == LayoutType /\ \A f \in Funcs : Within(f) /\ Disjoint(f) /\ ArgsFirst(f)

LEMMA LayoutIsSound ==
    ASSUME LayoutInv
    PROVE  LayoutSound
<1> SUFFICES ASSUME NEW f \in Funcs, NEW i \in DOMAIN offset_map[f]
             PROVE  LET s == offset_map[f][i]
                    IN  /\ s.off + size(s) <= -16
                        /\ frame_size[f] > 0 => /\ base(s) >= 0 - frame_size[f]
                                               /\ frame_size[f] % 16 = 0
                        /\ \A j \in 1 .. i - 1 : s.off + size(s) <= base(offset_map[f][j])
  BY DEF LayoutSound
<1>1. Within(f) /\ Disjoint(f) /\ LayoutType
  BY DEF LayoutInv
<1>2. offset_map[f][i] \in Slots /\ offset[f] \in Nat /\ frame_size[f] \in Nat
  BY <1>1 DEF LayoutType
<1>3. base(offset_map[f][i]) \in Int
  BY <1>2 DEF base, Slots
<1> QED
  BY <1>1, <1>2, <1>3 DEF Within, Disjoint

(* One more slot of n bytes and an array of e bytes.                        *)
LEMMA SlotAdded ==
    ASSUME LayoutInv, NEW f \in Funcs, NEW t \in Types, NEW e \in Nat,
           frame_size[f] = 0,
           LET o == offset[f] + get_size(t)
           IN  /\ offset' = [offset EXCEPT ![f] = o + e]
               /\ offset_map' = [offset_map EXCEPT
                      ![f] = Append(@, [type |-> t, off |-> 0 - o, extra |-> e])],
           UNCHANGED frame_size
    PROVE  /\ offset' \in [Funcs -> Nat]
           /\ offset_map' \in [Funcs -> Seq(Slots)]
           /\ \A g \in Funcs : Within(g)' /\ Disjoint(g)'
<1> DEFINE o == offset[f] + get_size(t)
           s == [type |-> t, off |-> 0 - o, extra |-> e]
<1>1. LayoutType
  BY DEF LayoutInv
<1>2. get_size(t) \in {1, 4, 8} /\ offset[f] \in Nat /\ offset_map[f] \in Seq(Slots)
  BY <1>1, Sizes DEF LayoutType
<1>3. o \in Nat /\ s \in Slots
  BY <1>2 DEF Slots
<1>4. size(s) = get_size(t) /\ s.off + size(s) = 0 - offset[f] /\ base(s) = 0 - (o + e)
  <2>1. s.type = t /\ s.off = 0 - o /\ s.extra = e
    OBVIOUS
  <2>2. get_size(t) \in Int /\ o \in Int
    BY <1>2, <1>3
  <2> HIDE DEF s
  <2> QED
    BY <1>2, <2>1, <2>2, SMTT(30) DEF size, base
<1>5. /\ offset'[f] = o + e
      /\ offset_map'[f] = Append(offset_map[f], s)
      /\ \A g \in Funcs \ {f} : offset'[g] = offset[g] /\ offset_map'[g] = offset_map[g]
  BY <1>1 DEF LayoutType
<1>6. /\ DOMAIN offset_map'[f] = 1 .. Len(offset_map[f]) + 1
      /\ DOMAIN offset_map[f] = 1 .. Len(offset_map[f])
      /\ offset_map'[f][Len(offset_map[f]) + 1] = s
      /\ \A i \in DOMAIN offset_map[f] : offset_map'[f][i] = offset_map[f][i]
      /\ Len(offset_map[f]) \in Nat
  BY <1>2, <1>3, <1>5, SMTT(30)
<1>7. \A i \in DOMAIN offset_map[f] : base(offset_map[f][i]) \in Int
  <2> TAKE i \in DOMAIN offset_map[f]
  <2>1. offset_map[f][i] \in Slots
    BY <1>2
  <2> QED
    BY <2>1 DEF base, Slots
<1>8. Within(f) /\ Disjoint(f)
  BY DEF LayoutInv
<1>9. Within(f)'
  <2>1. offset'[f] >= 16 /\ offset'[f] >= offset[f] /\ offset'[f] \in Nat
    BY <1>2, <1>3, <1>5, <1>8 DEF Within
  <2>2. ASSUME NEW i \in DOMAIN offset_map'[f]
        PROVE  /\ offset_map'[f][i].off + size(offset_map'[f][i]) <= -16
               /\ base(offset_map'[f][i]) >= 0 - offset'[f]
    <3>1. CASE i \in DOMAIN offset_map[f]
      BY <1>2, <1>6, <1>7, <1>8, <2>1, <3>1, SMTT(30) DEF Within
    <3>2. CASE i = Len(offset_map[f]) + 1
      BY <1>2, <1>3, <1>4, <1>5, <1>6, <1>8, <3>2, SMTT(30) DEF Within
    <3> QED
      BY <1>6, <3>1, <3>2
  <2> QED
    BY <1>1, <2>1, <2>2 DEF Within, size, base, LayoutType
<1>10. Disjoint(f)'
  <2> SUFFICES ASSUME NEW i \in DOMAIN offset_map'[f], NEW j \in 1 .. i - 1
               PROVE  offset_map'[f][i].off + size(offset_map'[f][i])
                         <= base(offset_map'[f][j])
    BY DEF Disjoint, size, base
  <2>1. j \in DOMAIN offset_map[f]
    BY <1>6
  <2>2. CASE i \in DOMAIN offset_map[f]
    BY <1>6, <1>8, <2>1, <2>2 DEF Disjoint
  <2>3. CASE i = Len(offset_map[f]) + 1
    BY <1>2, <1>4, <1>6, <1>7, <1>8, <2>1, <2>3, ZenonT(40) DEF Within
  <2> QED
    BY <1>6, <2>2, <2>3
<1>11. \A g \in Funcs \ {f} : Within(g)' /\ Disjoint(g)'
  BY <1>5 DEF LayoutInv, Within, Disjoint, size, base
<1> QED
  BY <1>1, <1>2, <1>3, <1>9, <1>10, <1>11 DEF LayoutType

LEMMA AllocateArgKeeps ==
    ASSUME LayoutInv, NEW f \in Funcs, NEW t \in ArgTypes, AllocateArg(f, t)
    PROVE  LayoutInv'
<1>1. LayoutType /\ t \in Types
  BY DEF LayoutInv, ArgTypes
<1>1a. offset[f] \in Nat /\ get_size(t) \in Nat
  <2>1. offset[f] \in Nat
    BY <1>1 DEF LayoutType
  <2>2. get_size(t) \in {1, 4, 8}
    BY <1>1, Sizes
  <2> QED
    BY <2>1, <2>2
<1>2. /\ offset' \in [Funcs -> Nat]
      /\ offset_map' \in [Funcs -> Seq(Slots)]
      /\ \A g \in Funcs : Within(g)' /\ Disjoint(g)'
  <2>1. LET o == offset[f] + get_size(t)
        IN  /\ offset' = [offset EXCEPT ![f] = o + 0]
            /\ offset_map' = [offset_map EXCEPT
                   ![f] = Append(@, [type |-> t, off |-> 0 - o, extra |-> 0])]
    <3>1. offset[f] + get_size(t) + 0 = offset[f] + get_size(t)
      BY <1>1a
    <3> QED
      BY <3>1 DEF AllocateArg
  <2>2. frame_size[f] = 0 /\ UNCHANGED frame_size
    BY DEF AllocateArg, allocating
  <2>3. t \in Types /\ 0 \in Nat
    BY <1>1
  <2> QED
    BY <2>1, <2>2, <2>3, SlotAdded
<1>3. LayoutType'
  BY <1>1, <1>2 DEF LayoutType, AllocateArg
<1>4. \A g \in Funcs \ {f} : ArgsFirst(g)'
  BY <1>1 DEF LayoutInv, LayoutType, ArgsFirst, AllocateArg
<1>5. ArgsFirst(f)'
  <2> DEFINE s == [type |-> t, off |-> 0 - (offset[f] + get_size(t)), extra |-> 0]
  <2>1. s \in Slots
    BY <1>1a, <1>1 DEF Slots
  <2>2. /\ offset_map'[f] = Append(offset_map[f], s) /\ nargs'[f] = nargs[f] + 1
        /\ Len(offset_map[f]) = nargs[f] /\ nargs[f] < MaxArgs
        /\ offset_map[f] \in Seq(Slots) /\ nargs[f] \in Nat
    BY <1>1 DEF LayoutType, AllocateArg
  <2>3. ArgsFirst(f)
    BY DEF LayoutInv
  <2>4. s.extra = 0
    OBVIOUS
  <2> HIDE DEF s
  <2>5. /\ Len(offset_map'[f]) = nargs[f] + 1 /\ offset_map'[f][nargs[f] + 1] = s
        /\ \A i \in 1 .. nargs[f] : offset_map'[f][i] = offset_map[f][i]
    BY <2>1, <2>2
  <2> QED
    BY <2>2, <2>3, <2>4, <2>5, StackAssumption, SMTT(30) DEF ArgsFirst, StackAssumption
<1> QED
  BY <1>2, <1>3, <1>4, <1>5 DEF LayoutInv

LEMMA AllocateInstrKeeps ==
    ASSUME LayoutInv, NEW f \in Funcs, NEW t \in Types, NEW n \in AllocaSizes \cup {0},
           AllocateInstr(f, t, n)
    PROVE  LayoutInv'
<1>1. LayoutType /\ n \in Nat
  BY StackAssumption DEF LayoutInv, StackAssumption
<1>2. /\ offset' \in [Funcs -> Nat]
      /\ offset_map' \in [Funcs -> Seq(Slots)]
      /\ \A g \in Funcs : Within(g)' /\ Disjoint(g)'
  BY <1>1, SlotAdded DEF AllocateInstr, alloca_space, allocating
<1>3. LayoutType'
  BY <1>1, <1>2 DEF LayoutType, AllocateInstr
<1>4. ASSUME NEW g \in Funcs
      PROVE  ArgsFirst(g)'
  <2> DEFINE s == [type |-> t, off |-> 0 - (offset[f] + get_size(t)), extra |-> n]
  <2>1. s \in Slots
    <3>1. offset[f] \in Nat
      BY <1>1 DEF LayoutType
    <3>2. get_size(t) \in {1, 4, 8}
      BY Sizes
    <3> QED
      BY <1>1, <3>1, <3>2 DEF Slots
  <2>2. /\ offset_map'[g] = IF g = f THEN Append(offset_map[g], s) ELSE offset_map[g]
        /\ nargs'[g] = nargs[g]
        /\ offset_map[g] \in Seq(Slots) /\ nargs[g] \in Nat
    BY <1>1 DEF LayoutType, AllocateInstr
  <2>3. ArgsFirst(g)
    BY DEF LayoutInv
  <2> HIDE DEF s
  <2>4. /\ Len(offset_map'[g]) >= Len(offset_map[g])
        /\ \A i \in 1 .. Len(offset_map[g]) : offset_map'[g][i] = offset_map[g][i]
    BY <2>1, <2>2
  <2> QED
    BY <2>2, <2>3, <2>4, StackAssumption DEF ArgsFirst, StackAssumption
<1> QED
  BY <1>2, <1>3, <1>4 DEF LayoutInv

LEMMA AllocateEndKeeps ==
    ASSUME LayoutInv, NEW f \in Funcs, AllocateEnd(f)
    PROVE  LayoutInv'
<1>1. LayoutType /\ Within(f)
  BY DEF LayoutInv
<1>2. /\ ALIGN(offset[f]) \in Nat \ {0} /\ ALIGN(offset[f]) >= offset[f]
      /\ ALIGN(offset[f]) % 16 = 0
  BY <1>1, Rounding DEF LayoutType, Within
<1>3. LayoutType'
  BY <1>1, <1>2 DEF LayoutType, AllocateEnd
<1>4. ASSUME NEW g \in Funcs
      PROVE  Within(g)' /\ Disjoint(g)' /\ ArgsFirst(g)'
  <2>1. /\ offset'[g] = offset[g] /\ offset_map'[g] = offset_map[g] /\ nargs'[g] = nargs[g]
        /\ frame_size'[g] = IF g = f THEN ALIGN(offset[f]) ELSE frame_size[g]
    BY <1>1 DEF LayoutType, AllocateEnd
  <2>2. Within(g) /\ Disjoint(g) /\ ArgsFirst(g)
    BY DEF LayoutInv
  <2> QED
    BY <1>2, <2>1, <2>2 DEF Within, Disjoint, ArgsFirst, size, base
<1> QED
  BY <1>3, <1>4 DEF LayoutInv

LEMMA RunningKeeps ==
    ASSUME LayoutInv, Running
    PROVE  LayoutInv'
BY DEF Running, layout_vars, LayoutInv, LayoutType, Within, Disjoint, ArgsFirst, size, base

LEMMA LayoutNext ==
    ASSUME LayoutInv, [Next]_vars
    PROVE  LayoutInv'
<1>1. CASE Running
  BY <1>1, RunningKeeps
<1>2. CASE \E f \in Funcs, t \in ArgTypes : AllocateArg(f, t)
  BY <1>2, AllocateArgKeeps
<1>3. CASE \E f \in Funcs, t \in Types, n \in AllocaSizes \cup {0} : AllocateInstr(f, t, n)
  BY <1>3, AllocateInstrKeeps
<1>4. CASE \E f \in Funcs : AllocateEnd(f)
  BY <1>4, AllocateEndKeeps
<1> QED
  BY <1>1, <1>2, <1>3, <1>4 DEF Next, vars, Running, Call, PassArg, Prologue, StoreArg,
     PrologueEnd, Compute, Alloca, StoreThrough, ExternalCall, Epilogue

LEMMA LayoutInit ==
    ASSUME Init
    PROVE  LayoutInv
BY StackAssumption DEF Init, LayoutInv, LayoutType, Within, Disjoint, ArgsFirst, StackAssumption,
   PROLOGUE_OFFSET_BASE

(* LayoutSound: whatever the arguments, results and arrays of a function,   *)
(* allocate gives each value bytes of its own within an aligned frame.      *)
THEOREM LayoutsSound == Spec => []LayoutSound
<1>1. LayoutInv /\ [Next]_vars => LayoutInv'
  BY LayoutNext
<1> QED
  BY <1>1, LayoutInit, LayoutIsSound, PTL DEF Spec

-----------------------------------------------------------------------------
(* The activations, whatever the values they hold.                          *)
Activations(A) ==
    [func : Funcs, args : Seq(Vals), sp : A, fp : A, ra : A, val : Seq(A), elem : Seq(A)]

CallsType == \E A : calls \in Seq(Activations(A))

LEMMA SeqGrows ==
    ASSUME NEW A, NEW B, A \subseteq B
    PROVE  Seq(A) \subseteq Seq(B)
OBVIOUS

LEMMA ActivationsGrow ==
    ASSUME NEW A, NEW B, A \subseteq B
    PROVE  Seq(Activations(A)) \subseteq Seq(Activations(B))
<1>1. Seq(A) \subseteq Seq(B)
  BY SeqGrows
<1>2. Activations(A) \subseteq Activations(B)
  BY <1>1 DEF Activations
<1> QED
  BY <1>2, SeqGrows

(* A result, an argument or an address is stored in its slot. *)
LEMMA ValStored ==
    ASSUME CallsType, Len(calls) > 0, NEW i \in DOMAIN top.val, NEW c,
           calls' = [calls EXCEPT ![Len(calls)].val[i] = c]
    PROVE  /\ CallsType'
           /\ Len(calls') = Len(calls) /\ DOMAIN calls' = DOMAIN calls
           /\ \A k \in DOMAIN calls :
                 /\ calls'[k].func = calls[k].func /\ calls'[k].args = calls[k].args
                 /\ calls'[k].sp = calls[k].sp /\ calls'[k].fp = calls[k].fp
                 /\ calls'[k].ra = calls[k].ra /\ calls'[k].elem = calls[k].elem
                 /\ Len(calls'[k].val) = Len(calls[k].val)
                 /\ \A j \in DOMAIN calls[k].val : calls'[k].val[j] =
                       IF k = Len(calls) /\ j = i THEN c ELSE calls[k].val[j]
<1>1. PICK A : calls \in Seq(Activations(A))
  BY DEF CallsType
<1> DEFINE B == A \cup {c}
           n == Len(calls)
           v == [calls[n].val EXCEPT ![i] = c]
           r == [calls[n] EXCEPT !.val = v]
<1>2. calls \in Seq(Activations(B)) /\ c \in B
  BY <1>1, ActivationsGrow
<1>3. n \in Nat \ {0} /\ n \in DOMAIN calls /\ DOMAIN calls = 1 .. n
  BY <1>1
<1>4. calls[n] \in Activations(B) /\ i \in DOMAIN calls[n].val
  BY <1>2, <1>3 DEF top
<1>5. v \in Seq(B) /\ Len(v) = Len(calls[n].val)
      /\ \A j \in DOMAIN calls[n].val : v[j] = IF j = i THEN c ELSE calls[n].val[j]
  <2>1. calls[n].val \in Seq(B)
    BY <1>4 DEF Activations
  <2> QED
    BY <1>2, <1>4, <2>1
<1>6. calls' = [calls EXCEPT ![n] = r]
  OBVIOUS
<1> HIDE DEF v
<1>7. /\ r \in Activations(B) /\ r.func = calls[n].func /\ r.args = calls[n].args
      /\ r.sp = calls[n].sp /\ r.fp = calls[n].fp /\ r.ra = calls[n].ra
      /\ r.elem = calls[n].elem /\ r.val = v
  BY <1>4, <1>5 DEF Activations
<1> HIDE DEF r, n, B
<1>8. /\ calls' \in Seq(Activations(B)) /\ Len(calls') = Len(calls)
      /\ DOMAIN calls' = DOMAIN calls /\ calls'[n] = r
      /\ \A k \in DOMAIN calls : k # n => calls'[k] = calls[k]
  BY <1>2, <1>3, <1>6, <1>7
<1>9. ASSUME NEW k \in DOMAIN calls
      PROVE  /\ calls'[k].func = calls[k].func /\ calls'[k].args = calls[k].args
             /\ calls'[k].sp = calls[k].sp /\ calls'[k].fp = calls[k].fp
             /\ calls'[k].ra = calls[k].ra /\ calls'[k].elem = calls[k].elem
             /\ Len(calls'[k].val) = Len(calls[k].val)
             /\ \A j \in DOMAIN calls[k].val : calls'[k].val[j] =
                   IF k = n /\ j = i THEN c ELSE calls[k].val[j]
  <2>1. CASE k = n
    BY <1>5, <1>7, <1>8, <2>1
  <2>2. CASE k # n
    <3>1. calls'[k] = calls[k]
      BY <1>8, <2>2
    <3>2. ASSUME NEW j \in DOMAIN calls[k].val
          PROVE  calls'[k].val[j] = IF k = n /\ j = i THEN c ELSE calls[k].val[j]
      <4>1. calls'[k].val[j] = calls[k].val[j]
        BY <3>1
      <4>2. ~ (k = n /\ j = i)
        BY <2>2
      <4> QED
        BY <4>1, <4>2
    <3>3. Len(calls'[k].val) = Len(calls[k].val)
      BY <3>1
    <3> QED
      BY <3>1, <3>2, <3>3
  <2> QED
    BY <2>1, <2>2
<1> QED
  BY <1>8, <1>9 DEF CallsType, n

(* Something is stored in an array. *)
LEMMA ElemStored ==
    ASSUME CallsType, Len(calls) > 0, NEW i \in DOMAIN top.elem, NEW c,
           calls' = [calls EXCEPT ![Len(calls)].elem[i] = c]
    PROVE  /\ CallsType'
           /\ Len(calls') = Len(calls) /\ DOMAIN calls' = DOMAIN calls
           /\ \A k \in DOMAIN calls :
                 /\ calls'[k].func = calls[k].func /\ calls'[k].args = calls[k].args
                 /\ calls'[k].sp = calls[k].sp /\ calls'[k].fp = calls[k].fp
                 /\ calls'[k].ra = calls[k].ra /\ calls'[k].val = calls[k].val
                 /\ Len(calls'[k].elem) = Len(calls[k].elem)
                 /\ \A j \in DOMAIN calls[k].elem : calls'[k].elem[j] =
                       IF k = Len(calls) /\ j = i THEN c ELSE calls[k].elem[j]
<1>1. PICK A : calls \in Seq(Activations(A))
  BY DEF CallsType
<1> DEFINE B == A \cup {c}
           n == Len(calls)
           v == [calls[n].elem EXCEPT ![i] = c]
           r == [calls[n] EXCEPT !.elem = v]
<1>2. calls \in Seq(Activations(B)) /\ c \in B
  BY <1>1, ActivationsGrow
<1>3. n \in Nat \ {0} /\ n \in DOMAIN calls /\ DOMAIN calls = 1 .. n
  BY <1>1
<1>4. calls[n] \in Activations(B) /\ i \in DOMAIN calls[n].elem
  BY <1>2, <1>3 DEF top
<1>5. v \in Seq(B) /\ Len(v) = Len(calls[n].elem)
      /\ \A j \in DOMAIN calls[n].elem : v[j] = IF j = i THEN c ELSE calls[n].elem[j]
  <2>1. calls[n].elem \in Seq(B)
    BY <1>4 DEF Activations
  <2> QED
    BY <1>2, <1>4, <2>1
<1>6. calls' = [calls EXCEPT ![n] = r]
  OBVIOUS
<1> HIDE DEF v
<1>7. /\ r \in Activations(B) /\ r.func = calls[n].func /\ r.args = calls[n].args
      /\ r.sp = calls[n].sp /\ r.fp = calls[n].fp /\ r.ra = calls[n].ra
      /\ r.val = calls[n].val /\ r.elem = v
  BY <1>4, <1>5 DEF Activations
<1> HIDE DEF r, n, B
<1>8. /\ calls' \in Seq(Activations(B)) /\ Len(calls') = Len(calls)
      /\ DOMAIN calls' = DOMAIN calls /\ calls'[n] = r
      /\ \A k \in DOMAIN calls : k # n => calls'[k] = calls[k]
  BY <1>2, <1>3, <1>6, <1>7
<1>9. ASSUME NEW k \in DOMAIN calls
      PROVE  /\ calls'[k].func = calls[k].func /\ calls'[k].args = calls[k].args
             /\ calls'[k].sp = calls[k].sp /\ calls'[k].fp = calls[k].fp
             /\ calls'[k].ra = calls[k].ra /\ calls'[k].val = calls[k].val
             /\ Len(calls'[k].elem) = Len(calls[k].elem)
             /\ \A j \in DOMAIN calls[k].elem : calls'[k].elem[j] =
                   IF k = n /\ j = i THEN c ELSE calls[k].elem[j]
  <2>1. CASE k = n
    BY <1>5, <1>7, <1>8, <2>1
  <2>2. CASE k # n
    <3>1. calls'[k] = calls[k]
      BY <1>8, <2>2
    <3>2. ASSUME NEW j \in DOMAIN calls[k].elem
          PROVE  calls'[k].elem[j] = IF k = n /\ j = i THEN c ELSE calls[k].elem[j]
      <4>1. calls'[k].elem[j] = calls[k].elem[j]
        BY <3>1
      <4>2. ~ (k = n /\ j = i)
        BY <2>2
      <4> QED
        BY <4>1, <4>2
    <3>3. Len(calls'[k].elem) = Len(calls[k].elem)
      BY <3>1
    <3> QED
      BY <3>1, <3>2, <3>3
  <2> QED
    BY <2>1, <2>2
<1> QED
  BY <1>8, <1>9 DEF CallsType, n

(* A call, a return.                                                        *)
LEMMA Pushed ==
    ASSUME CallsType, NEW A, NEW r \in Activations(A), calls' = Append(calls, r)
    PROVE  /\ CallsType'
           /\ Len(calls) \in Nat /\ DOMAIN calls = 1 .. Len(calls)
           /\ Len(calls') = Len(calls) + 1 /\ DOMAIN calls' = 1 .. Len(calls) + 1
           /\ calls'[Len(calls) + 1] = r
           /\ \A k \in DOMAIN calls : calls'[k] = calls[k]
<1>1. PICK B : calls \in Seq(Activations(B))
  BY DEF CallsType
<1>2. calls \in Seq(Activations(A \cup B)) /\ r \in Activations(A \cup B)
  <2>1. Seq(A) \subseteq Seq(A \cup B)
    BY SeqGrows
  <2> QED
    BY <1>1, <2>1, ActivationsGrow DEF Activations
<1>3. calls' \in Seq(Activations(A \cup B))
  BY <1>2
<1> QED
  BY <1>2, <1>3 DEF CallsType

LEMMA Popped ==
    ASSUME CallsType, Len(calls) > 0, calls' = SubSeq(calls, 1, Len(calls) - 1)
    PROVE  /\ CallsType'
           /\ Len(calls) \in Nat /\ DOMAIN calls = 1 .. Len(calls)
           /\ Len(calls') = Len(calls) - 1 /\ DOMAIN calls' = 1 .. Len(calls) - 1
           /\ \A k \in 1 .. Len(calls) - 1 : calls'[k] = calls[k]
<1>1. PICK B : calls \in Seq(Activations(B))
  BY DEF CallsType
<1>2. Len(calls) \in Nat \ {0} /\ DOMAIN calls = 1 .. Len(calls)
  BY <1>1
<1>3. /\ calls' \in Seq(Activations(B)) /\ Len(calls') = Len(calls) - 1
      /\ \A k \in 1 .. Len(calls) - 1 : calls'[k] = calls[k]
  BY <1>1, <1>2
<1>4. DOMAIN calls' = 1 .. Len(calls) - 1
  BY <1>3
<1> QED
  BY <1>2, <1>3, <1>4 DEF CallsType

-----------------------------------------------------------------------------
(* Registers are counted by the arguments before.                           *)
Before(P, i) == P \cap (1 .. i - 1)

LEMMA Counts ==
    ASSUME NEW P, NEW i \in Nat \ {0}
    PROVE  /\ Cardinality(Before(P, 1)) = 0
           /\ Cardinality(Before(P, i)) \in 0 .. i - 1
           /\ Cardinality(Before(P, i + 1)) =
                 IF i \in P THEN Cardinality(Before(P, i)) + 1 ELSE Cardinality(Before(P, i))
<1>1. Before(P, 1) = {}
  BY DEF Before
<1>2. IsFiniteSet(1 .. i - 1) /\ Cardinality(1 .. i - 1) = i - 1
  <2>1. 1 \in Int /\ i - 1 \in Int /\ i - 1 >= 0
    OBVIOUS
  <2>2. IsFiniteSet(1 .. i - 1)
        /\ Cardinality(1 .. i - 1) = IF 1 > i - 1 THEN 0 ELSE i - 1 - 1 + 1
    BY <2>1, FS_Interval
  <2> QED
    BY <2>1, <2>2
<1>3. IsFiniteSet(Before(P, i)) /\ Cardinality(Before(P, i)) \in 0 .. i - 1
  <2>1. Before(P, i) \subseteq 1 .. i - 1
    BY DEF Before
  <2> QED
    BY <1>2, <2>1, FS_Subset, FS_CardinalityType
<1>4. CASE i \in P
  <2>1. Before(P, i + 1) = Before(P, i) \cup {i} /\ i \notin Before(P, i)
    BY <1>4 DEF Before
  <2>2. Cardinality(Before(P, i + 1)) = Cardinality(Before(P, i)) + 1
    BY <1>3, <2>1, FS_AddElement
  <2> QED
    BY <1>1, <1>3, <1>4, <2>2, FS_EmptySet
<1>5. CASE i \notin P
  <2>1. Before(P, i + 1) = Before(P, i)
    BY <1>5 DEF Before
  <2> QED
    BY <1>1, <1>3, <1>5, <2>1, FS_EmptySet
<1> QED
  BY <1>4, <1>5

LEMMA CountsGrow ==
    ASSUME NEW P, NEW i \in Nat \ {0}, NEW j \in P, j \in 1 .. i - 1
    PROVE  Cardinality(Before(P, j)) < Cardinality(Before(P, i))
<1>1. Before(P, j) \cup {j} \subseteq Before(P, i) /\ j \notin Before(P, j)
  BY DEF Before
<1>2. IsFiniteSet(Before(P, i)) /\ IsFiniteSet(Before(P, j))
  <2>1. i - 1 \in Int /\ j - 1 \in Int
    OBVIOUS
  <2>2. IsFiniteSet(1 .. i - 1) /\ IsFiniteSet(1 .. j - 1)
    BY <2>1, FS_Interval
  <2>3. Before(P, i) \in SUBSET (1 .. i - 1) /\ Before(P, j) \in SUBSET (1 .. j - 1)
    BY DEF Before
  <2> QED
    BY <2>2, <2>3, FS_Subset
<1>3. Cardinality(Before(P, j) \cup {j}) = Cardinality(Before(P, j)) + 1
  BY <1>1, <1>2, FS_AddElement
<1>4. Cardinality(Before(P, j) \cup {j}) <= Cardinality(Before(P, i))
  BY <1>1, <1>2, FS_Subset
<1>5. Cardinality(Before(P, j)) \in Nat /\ Cardinality(Before(P, i)) \in Nat
  BY <1>2, FS_CardinalityType
<1> QED
  BY <1>3, <1>4, <1>5

-----------------------------------------------------------------------------
(* Calls fit the layouts of their functions, control is where it can be,    *)
(* the counters say how many arguments of either kind were seen, and what   *)
(* was passed is in the registers that the count names.                     *)
Fits(k) ==
    /\ Len(calls[k].val) = Len(offset_map[calls[k].func])
    /\ Len(calls[k].elem) = Len(offset_map[calls[k].func])
    /\ Len(calls[k].args) = nargs[calls[k].func]

Control ==
    /\ compiled \/ pc = "start"
    /\ pc = "start" => Len(calls) = 0
    /\ pc \in {"pass", "args", "body"} => Len(calls) > 0

FloatArgs(f) == {i \in 1 .. nargs[f] : offset_map[f][i].type = "float"}
OtherArgs(f) == {i \in 1 .. nargs[f] : offset_map[f][i].type # "float"}
farg(f, i)   == Cardinality(Before(FloatArgs(f), i))
garg(f, i)   == Cardinality(Before(OtherArgs(f), i))

Passed(f, args, n) ==
    \A j \in 1 .. n : /\ j \in FloatArgs(f) => freg[farg(f, j)] = args[j]
                      /\ j \in OtherArgs(f) => areg[garg(f, j)] = args[j]

Counted(f) ==
    /\ arg \in 1 .. nargs[f] + 1
    /\ farg_cnt = farg(f, arg) /\ garg_cnt = garg(f, arg)

Counting ==
    pc \in {"pass", "args"} =>
        /\ Counted(top.func)
        /\ Passed(top.func, top.args, IF pc = "pass" THEN arg - 1 ELSE nargs[top.func])

Registers == areg \in [0 .. 7 -> Int] /\ freg \in [0 .. 7 -> Int]

CallInv ==
    /\ CallsType /\ Control /\ Registers /\ Counting /\ ArgsArrive
    /\ \A k \in DOMAIN calls : Fits(k)

(* The activation that runs.                                                *)
LEMMA TopFits ==
    ASSUME LayoutInv, CallInv, Len(calls) > 0
    PROVE  /\ Len(calls) \in Nat \ {0} /\ Len(calls) \in DOMAIN calls
           /\ DOMAIN calls = 1 .. Len(calls)
           /\ top.func \in Funcs /\ top.args \in Seq(Vals)
           /\ Len(top.args) = nargs[top.func]
           /\ DOMAIN top.val = DOMAIN offset_map[top.func]
           /\ DOMAIN top.elem = DOMAIN offset_map[top.func]
           /\ DOMAIN offset_map[top.func] = 1 .. Len(offset_map[top.func])
           /\ nargs[top.func] \in 0 .. 8 /\ nargs[top.func] <= Len(offset_map[top.func])
           /\ Len(offset_map[top.func]) \in Nat
           /\ slots(Len(calls)) = offset_map[top.func]
<1>1. PICK A : calls \in Seq(Activations(A))
  BY DEF CallInv, CallsType
<1>2. /\ Len(calls) \in Nat \ {0} /\ Len(calls) \in DOMAIN calls
      /\ DOMAIN calls = 1 .. Len(calls)
  BY <1>1
<1>3. top \in Activations(A) /\ Fits(Len(calls))
  BY <1>1, <1>2 DEF top, CallInv
<1>4. /\ top.func \in Funcs /\ top.args \in Seq(Vals)
      /\ top.val \in Seq(A) /\ top.elem \in Seq(A)
  BY <1>3 DEF Activations
<1>5. /\ offset_map[top.func] \in Seq(Slots) /\ nargs[top.func] \in Nat
      /\ ArgsFirst(top.func)
  BY <1>4 DEF LayoutInv, LayoutType
<1> QED
  BY <1>2, <1>3, <1>4, <1>5, StackAssumption, SMTT(30) DEF Fits, top, ArgsFirst, slots, StackAssumption

(* Counting on, when an argument has been passed or stored.                 *)
LEMMA CountedOn ==
    ASSUME LayoutInv, NEW f \in Funcs, Counted(f), arg <= nargs[f], nargs[f] \in 0 .. 8,
           float_arg <=> offset_map[f][arg].type = "float",
           Count, arg' = arg + 1, Running
    PROVE  /\ Counted(f)' /\ farg_cnt \in 0 .. 7 /\ garg_cnt \in 0 .. 7
           /\ float_arg <=> arg \in FloatArgs(f)
           /\ ~ float_arg <=> arg \in OtherArgs(f)
<1>1. arg \in Nat \ {0} /\ arg \in 1 .. nargs[f]
  BY DEF Counted
<1>2. /\ float_arg <=> arg \in FloatArgs(f)
      /\ ~ float_arg <=> arg \in OtherArgs(f)
  BY <1>1 DEF FloatArgs, OtherArgs
<1>3. /\ farg(f, arg) \in 0 .. arg - 1 /\ garg(f, arg) \in 0 .. arg - 1
      /\ farg(f, arg + 1) = IF arg \in FloatArgs(f) THEN farg(f, arg) + 1 ELSE farg(f, arg)
      /\ garg(f, arg + 1) = IF arg \in OtherArgs(f) THEN garg(f, arg) + 1 ELSE garg(f, arg)
  BY <1>1, Counts DEF farg, garg
<1>4. nargs' = nargs /\ FloatArgs(f)' = FloatArgs(f) /\ OtherArgs(f)' = OtherArgs(f)
  BY DEF Running, layout_vars, FloatArgs, OtherArgs
<1>5. farg(f, arg)' = farg(f, arg + 1) /\ garg(f, arg)' = garg(f, arg + 1)
  BY <1>4 DEF farg, garg
<1> QED
  BY <1>1, <1>2, <1>3, <1>4, <1>5 DEF Counted, Count

LEMMA CountedFirst ==
    ASSUME LayoutInv, NEW f \in Funcs, first_arg, Running
    PROVE  Counted(f)'
<1>1. nargs' = nargs /\ nargs[f] \in Nat
  BY DEF Running, layout_vars, LayoutInv, LayoutType
<1>2. farg(f, 1)' = 0 /\ garg(f, 1)' = 0
  BY Counts DEF farg, garg
<1> QED
  BY <1>1, <1>2 DEF Counted, first_arg

-----------------------------------------------------------------------------
(* One lemma per action: CallInv is kept.                                   *)
LEMMA LayoutCalls ==
    ASSUME LayoutInv, CallInv, Layout, NEW f \in Funcs, frame_size[f] = 0
    PROVE  CallInv'
<1>1. pc = "start" /\ pc' = "start"
  BY DEF CallInv, Control, compiled, Layout
<1>2. Len(calls) = 0 /\ calls' = calls
  BY <1>1 DEF CallInv, Control, Layout
<1>3. DOMAIN calls = {}
  <2>1. PICK A : calls \in Seq(Activations(A))
    BY DEF CallInv, CallsType
  <2> QED
    BY <1>2, <2>1
<1>4. CallsType' /\ Registers'
  BY <1>2 DEF CallInv, CallsType, Registers, Layout, arg_vars
<1> QED
  BY <1>1, <1>2, <1>3, <1>4 DEF CallInv, Control, Counting, ArgsArrive

LEMMA CallCalls ==
    ASSUME LayoutInv, CallInv, NEW g \in Funcs, NEW args \in Args, Call(g, args)
    PROVE  CallInv'
<1> DEFINE n == Len(calls)
           none == [i \in DOMAIN offset_map[g] |-> None]
           r == [func |-> g, args |-> args, sp |-> sp, fp |-> fp, ra |-> n,
                 val |-> none, elem |-> none]
           A == {sp, fp, n, None}
<1>1. offset_map[g] \in Seq(Slots) /\ nargs[g] \in Nat
  BY DEF LayoutInv, LayoutType
<1>2. none \in Seq(A) /\ Len(none) = Len(offset_map[g])
      /\ \A i \in DOMAIN offset_map[g] : none[i] = None
  BY <1>1
<1>3. args \in Seq(Vals) /\ Len(args) = nargs[g]
  BY DEF Args, Call
<1> HIDE DEF none
<1>4. r \in Activations(A) /\ calls' = Append(calls, r)
  BY <1>2, <1>3 DEF Activations, Call, none
<1>5. /\ r.func = g /\ r.args = args /\ r.val = none /\ r.elem = none
  OBVIOUS
<1> HIDE DEF A, r
<1>6. /\ CallsType'
      /\ n \in Nat /\ DOMAIN calls = 1 .. n
      /\ Len(calls') = n + 1 /\ DOMAIN calls' = 1 .. n + 1
      /\ calls'[n + 1] = r
      /\ \A k \in DOMAIN calls : calls'[k] = calls[k]
  BY <1>4, Pushed DEF CallInv
<1> HIDE DEF n
<1>7. offset_map' = offset_map /\ nargs' = nargs /\ frame_size' = frame_size
  BY DEF Call, Running, layout_vars
<1>8. Control' /\ Registers'
  <2>1. compiled' <=> compiled
    BY <1>7 DEF compiled
  <2>2. compiled /\ pc' = "pass" /\ areg' = areg /\ freg' = freg
    BY DEF Call, CallInv, Control
  <2>3. Registers
    BY DEF CallInv
  <2> QED
    BY <1>6, <2>1, <2>2, <2>3 DEF Control, Registers
<1>9. Counting'
  <2>1. top' = r
    BY <1>6 DEF top
  <2>2. Counted(g)'
    BY CountedFirst DEF Call
  <2>3. arg' = 1 /\ pc' = "pass"
    BY DEF Call, first_arg
  <2> QED
    BY <1>5, <2>1, <2>2, <2>3 DEF Counting, Passed
<1>10. ASSUME NEW k \in DOMAIN calls'
       PROVE  Fits(k)' /\ \A i \in 1 .. nargs[calls[k].func]' :
                  calls'[k].val[i] \in {None, cell("val", calls'[k].args[i])}
  <2>1. CASE k \in DOMAIN calls
    BY <1>6, <1>7, <2>1 DEF CallInv, Fits, ArgsArrive
  <2>2. CASE k = n + 1
    <3>1. ArgsFirst(g)
      BY DEF LayoutInv
    <3>2. \A i \in 1 .. nargs[g] : i \in DOMAIN offset_map[g]
      BY <1>1, <3>1 DEF ArgsFirst
    <3> QED
      BY <1>2, <1>3, <1>5, <1>6, <1>7, <2>2, <3>2 DEF Fits
  <2> QED
    BY <1>6, <2>1, <2>2
<1>11. ArgsArrive'
  BY <1>10 DEF ArgsArrive
<1> QED
  BY <1>6, <1>8, <1>9, <1>10, <1>11 DEF CallInv

LEMMA PassArgCalls ==
    ASSUME LayoutInv, CallInv, PassArg
    PROVE  CallInv'
<1>0. PICK f \in Funcs : f = top.func
  BY TopFits DEF PassArg, CallInv, Control
<1>1. Len(calls) > 0 /\ pc = "pass" /\ arg <= nargs[f]
  BY <1>0 DEF PassArg, CallInv, Control
<1>2. /\ top.args \in Seq(Vals) /\ Len(top.args) = nargs[f]
      /\ nargs[f] \in 0 .. 8
      /\ slots(Len(calls)) = offset_map[f]
  BY <1>0, <1>1, TopFits
<1>3. Counted(f) /\ Passed(f, top.args, arg - 1)
  BY <1>0, <1>1 DEF CallInv, Counting
<1>4. /\ calls' = calls /\ top' = top /\ pc' = pc /\ arg' = arg + 1
      /\ nargs' = nargs /\ offset_map' = offset_map /\ frame_size' = frame_size
      /\ FloatArgs(f)' = FloatArgs(f) /\ OtherArgs(f)' = OtherArgs(f)
  BY DEF PassArg, Running, layout_vars, top, FloatArgs, OtherArgs
<1>5. /\ Counted(f)' /\ farg_cnt \in 0 .. 7 /\ garg_cnt \in 0 .. 7
      /\ float_arg <=> arg \in FloatArgs(f)
      /\ ~ float_arg <=> arg \in OtherArgs(f)
  <2>1. float_arg <=> offset_map[f][arg].type = "float"
    BY <1>2 DEF float_arg
  <2>2. Count /\ arg' = arg + 1 /\ Running
    BY DEF PassArg
  <2> QED
    BY <1>1, <1>2, <1>3, <2>1, <2>2, CountedOn
<1>6. arg \in 1 .. nargs[f] /\ top.args[arg] \in Int
  <2>1. arg \in 1 .. nargs[f]
    BY <1>1, <1>2, <1>3 DEF Counted
  <2>2. top.args[arg] \in Vals
    BY <1>2, <2>1
  <2> QED
    BY <2>1, <2>2, StackAssumption DEF StackAssumption
<1>7. Registers'
  BY <1>5, <1>6 DEF CallInv, Registers, PassArg
<1>8. /\ farg_cnt = farg(f, arg) /\ garg_cnt = garg(f, arg)
      /\ \A j : farg(f, j)' = farg(f, j) /\ garg(f, j)' = garg(f, j)
  BY <1>3, <1>4 DEF Counted, farg, garg
<1>9. Passed(f, top.args, arg - 1)'
  <2>3. arg' - 1 = arg
    BY <1>4, <1>6
  <2> SUFFICES ASSUME NEW j \in 1 .. arg
               PROVE  /\ j \in FloatArgs(f) => freg'[farg(f, j)] = top.args[j]
                      /\ j \in OtherArgs(f) => areg'[garg(f, j)] = top.args[j]
    BY <1>4, <1>8, <2>3 DEF Passed
  <2>1. CASE j = arg
    BY <1>5, <1>8, <2>1 DEF PassArg, CallInv, Registers
  <2>2. CASE j < arg
    <3>1. /\ j \in FloatArgs(f) => freg[farg(f, j)] = top.args[j]
          /\ j \in OtherArgs(f) => areg[garg(f, j)] = top.args[j]
      BY <1>3, <1>6, <2>2 DEF Passed
    <3>2. /\ j \in FloatArgs(f) => farg(f, j) < farg(f, arg)
          /\ j \in OtherArgs(f) => garg(f, j) < garg(f, arg)
      BY <1>6, <2>2, CountsGrow DEF farg, garg
    <3>3. /\ farg(f, j) \in 0 .. 7 /\ garg(f, j) \in 0 .. 7
      <4>1. j \in Nat \ {0} /\ j <= 8
        BY <1>2, <1>6
      <4>2. farg(f, j) \in 0 .. j - 1 /\ garg(f, j) \in 0 .. j - 1
        BY <4>1, Counts DEF farg, garg
      <4> QED
        BY <4>1, <4>2
    <3>4. CASE float_arg
      <4>1. freg' = [freg EXCEPT ![farg_cnt] = top.args[arg]] /\ areg' = areg
        BY <3>4 DEF PassArg
      <4> QED
        BY <1>5, <1>8, <3>1, <3>2, <3>3, <4>1 DEF CallInv, Registers
    <3>5. CASE ~ float_arg
      <4>1. areg' = [areg EXCEPT ![garg_cnt] = top.args[arg]] /\ freg' = freg
        BY <3>5 DEF PassArg
      <4> QED
        BY <1>5, <1>8, <3>1, <3>2, <3>3, <4>1 DEF CallInv, Registers
    <3> QED
      BY <3>4, <3>5
  <2> QED
    BY <1>6, <2>1, <2>2
<1>10. Counting'
  BY <1>0, <1>1, <1>4, <1>5, <1>6, <1>9 DEF Counting
<1>11. CallsType' /\ Control' /\ ArgsArrive' /\ \A k \in DOMAIN calls' : Fits(k)'
  BY <1>4 DEF CallInv, CallsType, Control, ArgsArrive, Fits, compiled
<1> QED
  BY <1>7, <1>10, <1>11 DEF CallInv

(* A slot of the running activation is written. *)
LEMMA StoredCalls ==
    ASSUME LayoutInv, CallInv, Len(calls) > 0, Running, pc' = pc \/ pc' = "body", pc # "start",
           NEW i \in DOMAIN offset_map[top.func], NEW c,
           i <= nargs[top.func] => c = cell("val", top.args[i]),
           calls' = [calls EXCEPT ![Len(calls)].val[i] = c]
    PROVE  /\ CallsType' /\ ArgsArrive' /\ Control' /\ \A k \in DOMAIN calls' : Fits(k)'
           /\ Len(calls') = Len(calls)
           /\ top'.func = top.func /\ top'.args = top.args
<1>1. /\ Len(calls) \in DOMAIN calls /\ i \in DOMAIN top.val
  BY TopFits
<1>2. /\ CallsType'
      /\ Len(calls') = Len(calls) /\ DOMAIN calls' = DOMAIN calls
      /\ \A k \in DOMAIN calls :
            /\ calls'[k].func = calls[k].func /\ calls'[k].args = calls[k].args
            /\ Len(calls'[k].val) = Len(calls[k].val)
            /\ Len(calls'[k].elem) = Len(calls[k].elem)
  BY <1>1, ValStored DEF CallInv
<1>3. /\ offset_map' = offset_map /\ nargs' = nargs /\ frame_size' = frame_size
  BY DEF Running, layout_vars
<1>4. \A k \in DOMAIN calls' : Fits(k)'
  BY <1>2, <1>3 DEF CallInv, Fits
<1>5. top'.func = top.func /\ top'.args = top.args
  BY <1>1, <1>2 DEF top
<1>6. Control'
  <2>1. compiled
    BY DEF CallInv, Control
  <2>2. compiled'
    BY <1>3, <2>1 DEF compiled
  <2> QED
    BY <1>2, <2>2 DEF Control
<1>7. ASSUME NEW k \in DOMAIN calls, NEW j \in 1 .. nargs[calls[k].func]
      PROVE  calls'[k].val[j] \in {None, cell("val", calls'[k].args[j])}
  <2>1. j \in DOMAIN calls[k].val
    <3>1. PICK A : calls \in Seq(Activations(A))
      BY DEF CallInv, CallsType
    <3>2. calls[k] \in Activations(A) /\ Fits(k)
      BY <3>1 DEF CallInv
    <3>3. calls[k].func \in Funcs /\ calls[k].val \in Seq(A)
      BY <3>2 DEF Activations
    <3>4. /\ ArgsFirst(calls[k].func) /\ nargs[calls[k].func] \in Nat
          /\ offset_map[calls[k].func] \in Seq(Slots)
      BY <3>3 DEF LayoutInv, LayoutType
    <3> QED
      BY <3>2, <3>3, <3>4 DEF Fits, ArgsFirst
  <2>2. calls[k].val[j] \in {None, cell("val", calls[k].args[j])}
    BY DEF CallInv, ArgsArrive
  <2>3. calls'[k].val[j] = IF k = Len(calls) /\ j = i THEN c ELSE calls[k].val[j]
    BY <1>1, <2>1, ValStored DEF CallInv
  <2> HIDE DEF None
  <2>4. CASE k = Len(calls) /\ j = i
    <3>1. calls[k] = top /\ calls'[k].val[j] = c /\ calls'[k].args = top.args
      BY <1>2, <2>3, <2>4 DEF top
    <3>2. c = cell("val", top.args[j])
      BY <2>4, <3>1
    <3> QED
      BY <3>1, <3>2
  <2>5. CASE ~ (k = Len(calls) /\ j = i)
    <3>1. calls'[k].val[j] = calls[k].val[j] /\ calls'[k].args = calls[k].args
      BY <1>2, <2>3, <2>5
    <3> QED
      BY <2>2, <3>1
  <2> QED
    BY <2>4, <2>5
<1>8. ArgsArrive'
  BY <1>2, <1>3, <1>7 DEF ArgsArrive
<1> QED
  BY <1>2, <1>4, <1>5, <1>6, <1>8

(* An array of the running activation is written. *)
LEMMA ElemCalls ==
    ASSUME LayoutInv, CallInv, Len(calls) > 0, Running, pc' = pc \/ pc' = "body", pc # "start",
           NEW i \in DOMAIN offset_map[top.func], NEW c,
           calls' = [calls EXCEPT ![Len(calls)].elem[i] = c]
    PROVE  /\ CallsType' /\ ArgsArrive' /\ Control' /\ \A k \in DOMAIN calls' : Fits(k)'
           /\ Len(calls') = Len(calls)
           /\ top'.func = top.func /\ top'.args = top.args
<1>1. /\ Len(calls) \in DOMAIN calls /\ i \in DOMAIN top.elem
  BY TopFits
<1>2. /\ CallsType'
      /\ Len(calls') = Len(calls) /\ DOMAIN calls' = DOMAIN calls
      /\ \A k \in DOMAIN calls :
            /\ calls'[k].func = calls[k].func /\ calls'[k].args = calls[k].args
            /\ Len(calls'[k].val) = Len(calls[k].val)
            /\ Len(calls'[k].elem) = Len(calls[k].elem)
  BY <1>1, ElemStored DEF CallInv
<1>3. /\ offset_map' = offset_map /\ nargs' = nargs /\ frame_size' = frame_size
  BY DEF Running, layout_vars
<1>4. \A k \in DOMAIN calls' : Fits(k)'
  BY <1>2, <1>3 DEF CallInv, Fits
<1>5. top'.func = top.func /\ top'.args = top.args
  BY <1>1, <1>2 DEF top
<1>6. Control'
  <2>1. compiled
    BY DEF CallInv, Control
  <2>2. compiled'
    BY <1>3, <2>1 DEF compiled
  <2> QED
    BY <1>2, <2>2 DEF Control
<1>8. ArgsArrive'
  <2>1. \A k \in DOMAIN calls : calls'[k].val = calls[k].val
    BY <1>1, ElemStored DEF CallInv
  <2> QED
    BY <1>2, <1>3, <2>1 DEF CallInv, ArgsArrive
<1> QED
  BY <1>2, <1>4, <1>5, <1>6, <1>8

LEMMA PrologueCalls ==
    ASSUME LayoutInv, CallInv, Prologue
    PROVE  CallInv'
<1>1. PICK f \in Funcs : f = top.func
  BY TopFits DEF Prologue, CallInv, Control
<1>2. Len(calls) > 0 /\ pc = "pass" /\ arg > nargs[f] /\ nargs[f] \in 0 .. 8
  BY <1>1, TopFits DEF Prologue, CallInv, Control
<1>3. Counted(f) /\ Passed(f, top.args, arg - 1)
  BY <1>1, <1>2 DEF CallInv, Counting
<1>4. Passed(f, top.args, nargs[f])
  <2>1. arg - 1 = nargs[f]
    BY <1>2, <1>3 DEF Counted
  <2> QED
    BY <1>3, <2>1
<1>5. /\ calls' = calls /\ top' = top /\ pc' = "args" /\ areg' = areg /\ freg' = freg
      /\ nargs' = nargs /\ offset_map' = offset_map /\ frame_size' = frame_size
      /\ FloatArgs(f)' = FloatArgs(f) /\ OtherArgs(f)' = OtherArgs(f)
  BY DEF Prologue, Running, layout_vars, top, FloatArgs, OtherArgs
<1>6. Counted(f)'
  BY CountedFirst DEF Prologue
<1>7. Passed(f, top.args, nargs[f])'
  BY <1>4, <1>5 DEF Passed, farg, garg
<1>8. Counting'
  BY <1>1, <1>5, <1>6, <1>7 DEF Counting
<1>9. /\ CallsType' /\ Control' /\ ArgsArrive' /\ Registers'
      /\ \A k \in DOMAIN calls' : Fits(k)'
  BY <1>2, <1>5 DEF CallInv, CallsType, Control, ArgsArrive, Fits, compiled, Registers
<1> QED
  BY <1>8, <1>9 DEF CallInv

LEMMA StoreArgCalls ==
    ASSUME LayoutInv, CallInv, StoreArg
    PROVE  CallInv'
<1>1. PICK f \in Funcs : f = top.func
  BY TopFits DEF StoreArg, CallInv, Control
<1>2. /\ Len(calls) > 0 /\ pc = "args" /\ arg <= nargs[f] /\ nargs[f] \in 0 .. 8
      /\ slots(Len(calls)) = offset_map[f]
      /\ DOMAIN offset_map[f] = 1 .. Len(offset_map[f])
      /\ nargs[f] <= Len(offset_map[f]) /\ Len(offset_map[f]) \in Nat
  BY <1>1, TopFits DEF StoreArg, CallInv, Control
<1>3. Counted(f) /\ Passed(f, top.args, nargs[f])
  BY <1>1, <1>2 DEF CallInv, Counting
<1>4. /\ pc' = pc /\ areg' = areg /\ freg' = freg /\ arg' = arg + 1 /\ Running /\ Count
      /\ nargs' = nargs /\ offset_map' = offset_map /\ frame_size' = frame_size
      /\ FloatArgs(f)' = FloatArgs(f) /\ OtherArgs(f)' = OtherArgs(f)
  BY DEF StoreArg, Running, layout_vars, top, FloatArgs, OtherArgs
<1>5. /\ Counted(f)' /\ farg_cnt \in 0 .. 7 /\ garg_cnt \in 0 .. 7
      /\ float_arg <=> arg \in FloatArgs(f)
      /\ ~ float_arg <=> arg \in OtherArgs(f)
  <2>1. float_arg <=> offset_map[f][arg].type = "float"
    BY <1>2 DEF float_arg
  <2> QED
    BY <1>1, <1>2, <1>3, <1>4, <2>1, CountedOn
<1>6. arg \in 1 .. nargs[f] /\ farg_cnt = farg(f, arg) /\ garg_cnt = garg(f, arg)
  BY <1>2, <1>3 DEF Counted
<1>7. (IF float_arg THEN freg[farg_next] ELSE areg[garg_cnt]) = top.args[arg]
  <2>1. /\ arg \in FloatArgs(f) => freg[farg(f, arg)] = top.args[arg]
        /\ arg \in OtherArgs(f) => areg[garg(f, arg)] = top.args[arg]
    BY <1>3, <1>6 DEF Passed
  <2> QED
    BY <1>5, <1>6, <2>1 DEF farg_next
<1>8. calls' = [calls EXCEPT ![Len(calls)].val[arg] = cell("val", top.args[arg])]
  BY <1>7 DEF StoreArg, StoreSlot
<1>9. /\ CallsType' /\ ArgsArrive' /\ Control' /\ \A k \in DOMAIN calls' : Fits(k)'
      /\ top'.func = top.func /\ top'.args = top.args
  <2>1. arg \in DOMAIN offset_map[top.func]
    BY <1>1, <1>2, <1>6, SMTT(30)
  <2> QED
    BY <1>2, <1>4, <1>8, <2>1, StoredCalls
<1>10. Passed(f, top.args, nargs[f])'
  BY <1>3, <1>4, <1>9 DEF Passed, farg, garg
<1>11. Counting'
  BY <1>1, <1>2, <1>4, <1>5, <1>9, <1>10 DEF Counting
<1>12. Registers'
  BY <1>4 DEF CallInv, Registers
<1> QED
  BY <1>9, <1>11, <1>12 DEF CallInv

(* The steps of a body.                                                     *)
LEMMA BodyCalls ==
    ASSUME LayoutInv, CallInv, NEW i, NEW v,
           Compute(i, v) \/ Alloca(i) \/ StoreThrough(i, v)
    PROVE  CallInv'
<1>1. PICK f \in Funcs : f = top.func
  BY TopFits DEF Compute, Alloca, StoreThrough, CallInv, Control
<1>2. /\ pc = "body" /\ pc' = "body" /\ Running /\ areg' = areg /\ freg' = freg
      /\ Len(calls) > 0 /\ i \in DOMAIN slots(Len(calls))
  BY DEF Compute, Alloca, StoreThrough, CallInv, Control, arg_vars
<1>3. /\ i \in DOMAIN offset_map[top.func] /\ slots(Len(calls)) = offset_map[top.func]
      /\ DOMAIN offset_map[f] = 1 .. Len(offset_map[f]) /\ Len(offset_map[f]) \in Nat
      /\ nargs[f] \in 0 .. 8
  BY <1>1, <1>2, TopFits
<1>4. Counting' /\ Registers'
  BY <1>2 DEF Counting, CallInv, Registers
<1>5. CASE Compute(i, v)
  <2>1. ~ i <= nargs[top.func]
    BY <1>1, <1>3, <1>5 DEF Compute
  <2>2. calls' = [calls EXCEPT ![Len(calls)].val[i] = cell("val", v)]
    BY <1>5 DEF Compute, StoreSlot
  <2> QED
    BY <1>2, <1>3, <1>4, <2>1, <2>2, StoredCalls DEF CallInv
<1>6. CASE Alloca(i)
  <2>1. ~ i <= nargs[top.func]
    <3>1. ArgsFirst(f) /\ offset_map[f][i].extra > 0
      BY <1>1, <1>3, <1>6 DEF LayoutInv, Alloca
    <3> QED
      BY <1>1, <1>3, <3>1 DEF ArgsFirst
  <2>2. PICK c : calls' = [calls EXCEPT ![Len(calls)].val[i] = c]
    BY <1>6 DEF Alloca, StoreSlot
  <2> QED
    BY <1>2, <1>3, <1>4, <2>1, <2>2, StoredCalls DEF CallInv
<1>7. CASE StoreThrough(i, v)
  <2>1. calls' = [calls EXCEPT ![Len(calls)].elem[i] = cell("val", v)]
    BY <1>7 DEF StoreThrough
  <2> QED
    BY <1>2, <1>3, <1>4, <2>1, ElemCalls DEF CallInv
<1> QED
  BY <1>5, <1>6, <1>7

LEMMA PlainCalls ==
    ASSUME LayoutInv, CallInv, PrologueEnd \/ ExternalCall
    PROVE  CallInv'
<1>1. /\ pc \in {"args", "body"} /\ pc' = "body" /\ calls' = calls /\ areg' = areg
      /\ freg' = freg /\ Running
  BY DEF PrologueEnd, ExternalCall, arg_vars
<1>2. nargs' = nargs /\ offset_map' = offset_map /\ frame_size' = frame_size
  BY <1>1 DEF Running, layout_vars
<1> QED
  BY <1>1, <1>2 DEF CallInv, CallsType, Control, ArgsArrive, Fits, compiled, Registers, Counting

LEMMA EpilogueCalls ==
    ASSUME LayoutInv, CallInv, Epilogue
    PROVE  CallInv'
<1>1. /\ pc = "body" /\ Len(calls) > 0 /\ areg' = areg /\ freg' = freg /\ Running
      /\ calls' = SubSeq(calls, 1, Len(calls) - 1)
      /\ pc' \in {"wild", "exit", "body"}
      /\ pc' = "body" => ra' = Len(calls) - 1 /\ ra' # 0
  BY DEF Epilogue, CallInv, Control, arg_vars
<1>2. nargs' = nargs /\ offset_map' = offset_map /\ frame_size' = frame_size
  BY <1>1 DEF Running, layout_vars
<1>3. /\ CallsType'
      /\ Len(calls) \in Nat /\ DOMAIN calls = 1 .. Len(calls)
      /\ Len(calls') = Len(calls) - 1 /\ DOMAIN calls' = 1 .. Len(calls) - 1
      /\ \A k \in 1 .. Len(calls) - 1 : calls'[k] = calls[k]
  BY <1>1, Popped DEF CallInv
<1>4. Control'
  <2>1. compiled'
    BY <1>1, <1>2 DEF compiled, CallInv, Control
  <2> QED
    BY <1>1, <1>3, <2>1 DEF Control
<1>5. ASSUME NEW k \in DOMAIN calls'
      PROVE  /\ Fits(k)'
             /\ \A i \in 1 .. nargs'[calls'[k].func] :
                    calls'[k].val[i] \in {None, cell("val", calls'[k].args[i])}
  <2>1. k \in DOMAIN calls /\ calls'[k] = calls[k]
    BY <1>3
  <2> QED
    BY <1>2, <2>1 DEF CallInv, Fits, ArgsArrive
<1> QED
  BY <1>1, <1>3, <1>4, <1>5 DEF CallInv, ArgsArrive, Registers, Counting

LEMMA CallsNext ==
    ASSUME LayoutInv, CallInv, [Next]_vars
    PROVE  CallInv'
<1>1. CASE UNCHANGED vars
  <2>1. /\ layout_vars' = layout_vars /\ arg_vars' = arg_vars /\ calls' = calls /\ pc' = pc
        /\ nargs' = nargs /\ offset_map' = offset_map /\ frame_size' = frame_size
        /\ areg' = areg /\ freg' = freg
        /\ arg' = arg /\ farg_cnt' = farg_cnt /\ garg_cnt' = garg_cnt
    BY <1>1 DEF vars, layout_vars, arg_vars
  <2>2. CallsType' /\ Control' /\ Registers' /\ ArgsArrive'
        /\ \A k \in DOMAIN calls' : Fits(k)'
    BY <2>1 DEF CallInv, CallsType, Control, ArgsArrive, Fits, compiled, Registers
  <2>3. \A f : FloatArgs(f)' = FloatArgs(f) /\ OtherArgs(f)' = OtherArgs(f)
    BY <2>1 DEF FloatArgs, OtherArgs
  <2>4. \A f, i : farg(f, i)' = farg(f, i) /\ garg(f, i)' = garg(f, i)
    BY <2>3 DEF farg, garg
  <2>5. top' = top
    BY <2>1 DEF top
  <2>6. Counting'
    BY <2>1, <2>3, <2>4, <2>5 DEF CallInv, Counting, Counted, Passed
  <2> QED
    BY <2>2, <2>6 DEF CallInv
<1>2. ASSUME NEW f \in Funcs, NEW t, NEW n,
             AllocateArg(f, t) \/ AllocateInstr(f, t, n) \/ AllocateEnd(f)
      PROVE  CallInv'
  BY <1>2, LayoutCalls DEF AllocateArg, AllocateInstr, AllocateEnd, allocating
<1>3. CASE \E g \in Funcs, args \in Args : Call(g, args)
  BY <1>3, CallCalls
<1>4. CASE PassArg \/ Prologue \/ StoreArg \/ PrologueEnd \/ ExternalCall \/ Epilogue
  BY <1>4, PassArgCalls, PrologueCalls, StoreArgCalls, PlainCalls, EpilogueCalls
<1>5. ASSUME NEW i, NEW v, Compute(i, v) \/ Alloca(i) \/ StoreThrough(i, v)
      PROVE  CallInv'
  BY <1>5, BodyCalls
<1> QED
  BY <1>1, <1>2, <1>3, <1>4, <1>5 DEF Next

LEMMA CallsInit ==
    ASSUME Init
    PROVE  CallInv
<1>1. calls \in Seq(Activations({})) /\ Len(calls) = 0 /\ DOMAIN calls = {}
  BY DEF Init
<1>2. CallsType
  BY <1>1 DEF CallsType
<1>3. Control /\ Registers /\ Counting /\ ArgsArrive /\ \A k \in DOMAIN calls : Fits(k)
  BY <1>1 DEF Init, Control, Registers, Counting, ArgsArrive
<1> QED
  BY <1>2, <1>3 DEF CallInv

(* ArgsArrive: whatever the types of the parameters, caller and callee      *)
(* count the argument registers of either file alike.                       *)
THEOREM ArgumentsArrive == Spec => []ArgsArrive
<1>1. LayoutInv /\ CallInv /\ [Next]_vars => LayoutInv' /\ CallInv'
  BY LayoutNext, CallsNext
<1>2. CallInv => ArgsArrive
  BY DEF CallInv
<1> QED
  BY <1>1, <1>2, LayoutInit, CallsInit, PTL DEF Spec

-----------------------------------------------------------------------------
(***************************************************************************)
(* The stack: that activations keep what they store, and that returns       *)
(* restore sp, fp and ra, for every program and every depth of calls.       *)
(***************************************************************************)
-----------------------------------------------------------------------------
(* Memory.                                                                  *)
Memory == 0 .. StackTop - 1

LEMMA Written ==
    ASSUME NEW m, DOMAIN m = Memory, NEW a \in Int, NEW n \in Nat, NEW c
    PROVE  /\ DOMAIN Write(m, a, n, c) = Memory
           /\ \A x \in Memory : x \notin a .. a + n - 1 => Write(m, a, n, c)[x] = m[x]
           /\ a >= 0 /\ a + n <= StackTop => Holds(Write(m, a, n, c), a, n, c)
BY StackAssumption DEF Write, Holds, Memory, StackAssumption

LEMMA HeldOn ==
    ASSUME NEW m, NEW w, NEW a \in Int, NEW n \in Nat, NEW c, Holds(m, a, n, c),
           \A x \in a .. a + n - 1 : w[x] = m[x]
    PROVE  Holds(w, a, n, c)
BY DEF Holds

LEMMA Loaded ==
    ASSUME NEW m, NEW a \in Int, NEW n \in Nat \ {0}, NEW w, NEW x,
           Holds(m, a, n, cell(w, x))
    PROVE  Load(m, a, n, w) = x
<1> DEFINE c == [cell(w, x) EXCEPT !.at = a]
<1>1. c.what = w /\ c.v = x /\ c.at = a
  BY DEF cell
<1>2. \A y \in a .. a + n - 1 : m[y] = c
  BY DEF Holds
<1> HIDE DEF c
<1>3. m[a] = c
  BY <1>2
<1> QED
  BY <1>1, <1>2, <1>3 DEF Load

-----------------------------------------------------------------------------
(* Where slots lie.                                                         *)
LEMMA SlotPlace ==
    ASSUME LayoutInv, NEW f \in Funcs, NEW i \in DOMAIN offset_map[f], compiled
    PROVE  LET s == offset_map[f][i]
           IN  /\ s.off \in Int /\ size(s) \in Nat \ {0} /\ s.extra \in Nat
               /\ base(s) \in Int /\ base(s) = s.off - s.extra
               /\ frame_size[f] \in Nat /\ frame_size[f] >= 16
               /\ 0 - frame_size[f] <= base(s) /\ base(s) <= s.off
               /\ s.off + size(s) <= -16
<1>1. /\ offset_map[f][i] \in Slots /\ frame_size[f] \in Nat /\ offset[f] \in Nat
      /\ Within(f)
  BY DEF LayoutInv, LayoutType
<1>2. frame_size[f] > 0
  BY DEF compiled
<1> DEFINE s == offset_map[f][i]
<1>3. s.type \in Types /\ s.off \in Int /\ s.extra \in Nat
  BY <1>1 DEF Slots
<1>4. s.off + size(s) <= -16 /\ base(s) >= 0 - offset[f]
  BY <1>1 DEF Within
<1> HIDE DEF s
<1>5. size(s) \in {1, 4, 8}
  BY <1>3, Sizes DEF size
<1>6. base(s) = s.off - s.extra
  BY DEF base
<1>7. offset[f] <= frame_size[f] /\ 16 <= offset[f]
  BY <1>1, <1>2 DEF Within
<1> QED
  BY <1>1, <1>3, <1>4, <1>5, <1>6, <1>7 DEF s

LEMMA SlotsApart ==
    ASSUME LayoutInv, NEW f \in Funcs, NEW i \in DOMAIN offset_map[f],
           NEW j \in DOMAIN offset_map[f], i # j
    PROVE  \/ offset_map[f][i].off + size(offset_map[f][i]) <= base(offset_map[f][j])
           \/ offset_map[f][j].off + size(offset_map[f][j]) <= base(offset_map[f][i])
<1>1. Disjoint(f) /\ offset_map[f] \in Seq(Slots)
  BY DEF LayoutInv, LayoutType
<1>2. DOMAIN offset_map[f] = 1 .. Len(offset_map[f]) /\ Len(offset_map[f]) \in Nat
  BY <1>1
<1>3. i \in 1 .. j - 1 \/ j \in 1 .. i - 1
  BY <1>2
<1> QED
  BY <1>1, <1>3 DEF Disjoint

-----------------------------------------------------------------------------
(* What memory holds for an activation of f whose frame begins under a.     *)
SlotHeld(m, f, a, i, v, e) ==
    LET s == offset_map[f][i]
    IN  /\ v # None => Holds(m, a + s.off, size(s), v)
        /\ e # None => Holds(m, a + base(s), s.extra, e)
        /\ v.what = "ptr" => v = cell("ptr", a + base(s))

SavedIn(m, a, r, p) == /\ Holds(m, a - 8, 8, cell("ra", r))
                       /\ Holds(m, a - 16, 8, cell("fp", p))

FrameHeld(m, k) ==
    /\ SavedIn(m, calls[k].sp, calls[k].ra, calls[k].fp)
    /\ \A i \in DOMAIN slots(k) :
          SlotHeld(m, calls[k].func, calls[k].sp, i, calls[k].val[i], calls[k].elem[i])

(* A slot, or a frame, all bytes of which stay the same.                    *)
LEMMA SlotKept ==
    ASSUME LayoutInv, compiled, NEW f \in Funcs, NEW i \in DOMAIN offset_map[f],
           NEW a \in Int, NEW v, NEW e, NEW m, NEW w, SlotHeld(m, f, a, i, v, e),
           \A x \in a + base(offset_map[f][i]) ..
                    a + offset_map[f][i].off + size(offset_map[f][i]) - 1 : w[x] = m[x]
    PROVE  SlotHeld(w, f, a, i, v, e)
<1> DEFINE s == offset_map[f][i]
<1>1. /\ s.off \in Int /\ size(s) \in Nat \ {0} /\ s.extra \in Nat
      /\ base(s) \in Int /\ base(s) = s.off - s.extra
  BY SlotPlace
<1>2. \A x \in a + base(s) .. a + s.off + size(s) - 1 : w[x] = m[x]
  OBVIOUS
<1>3. /\ v # None => Holds(m, a + s.off, size(s), v)
      /\ e # None => Holds(m, a + base(s), s.extra, e)
      /\ v.what = "ptr" => v = cell("ptr", a + base(s))
  BY DEF SlotHeld
<1> HIDE DEF s, None
<1>4. \A x \in a + s.off .. a + s.off + size(s) - 1 : w[x] = m[x]
  BY <1>1, <1>2
<1>5. \A x \in a + base(s) .. a + base(s) + s.extra - 1 : w[x] = m[x]
  BY <1>1, <1>2
<1>6. v # None => Holds(w, a + s.off, size(s), v)
  <2>1. a + s.off \in Int
    BY <1>1
  <2> QED
    BY <1>1, <1>3, <1>4, <2>1, HeldOn
<1>7. e # None => Holds(w, a + base(s), s.extra, e)
  <2>1. a + base(s) \in Int
    BY <1>1
  <2> QED
    BY <1>1, <1>3, <1>5, <2>1, HeldOn
<1> QED
  BY <1>3, <1>6, <1>7 DEF SlotHeld, s

LEMMA SavedKept ==
    ASSUME NEW a \in Int, NEW r, NEW p, NEW m, NEW w, SavedIn(m, a, r, p),
           \A x \in a - 16 .. a - 1 : w[x] = m[x]
    PROVE  SavedIn(w, a, r, p)
<1>1. /\ \A x \in a - 8 .. a - 8 + 8 - 1 : w[x] = m[x]
      /\ \A x \in a - 16 .. a - 16 + 8 - 1 : w[x] = m[x]
      /\ a - 8 \in Int /\ a - 16 \in Int
  OBVIOUS
<1> QED
  BY <1>1, HeldOn DEF SavedIn

-----------------------------------------------------------------------------
(* Frames lie one under another, each activation was called from the one    *)
(* before it, and memory holds what each has stored.                        *)
fs(k)      == frame_size[calls[k].func]
Entered(k) == k < Len(calls) \/ pc \in {"args", "body"}

Numbers ==
    /\ sp \in Int /\ 0 <= sp /\ sp <= StackTop
    /\ \A k \in DOMAIN calls :
          calls[k].sp \in Int /\ calls[k].sp <= StackTop /\ fs(k) <= calls[k].sp

Stacked ==
    \A k, l \in DOMAIN calls : k < l => calls[l].sp <= calls[k].sp - fs(k)

Linked ==
    \A k \in DOMAIN calls :
        /\ calls[k].ra = k - 1
        /\ k > 1 => /\ calls[k].sp = calls[k - 1].sp - fs(k - 1)
                    /\ calls[k].fp = calls[k - 1].sp

Current ==
    /\ pc # "wild"
    /\ pc = "pass" => sp = top.sp /\ fp = top.fp
    /\ pc \in {"args", "body"} => sp = top.sp - fs(Len(calls)) /\ fp = top.sp

Untouched(k) == \A i \in DOMAIN slots(k) : calls[k].val[i] = None /\ calls[k].elem[i] = None

Frames ==
    /\ DOMAIN mem = Memory
    /\ \A k \in DOMAIN calls : IF Entered(k) THEN FrameHeld(mem, k) ELSE Untouched(k)

StackInv == SmallFrames \/ pc = "start" => Numbers /\ Stacked /\ Linked /\ Current /\ Frames

(* Any activation.                                                          *)
LEMMA AnyFits ==
    ASSUME LayoutInv, CallInv, NEW k \in DOMAIN calls
    PROVE  /\ Len(calls) \in Nat \ {0} /\ DOMAIN calls = 1 .. Len(calls)
           /\ compiled
           /\ calls[k].func \in Funcs /\ slots(k) = offset_map[calls[k].func]
           /\ fs(k) \in Nat /\ fs(k) >= 16
           /\ DOMAIN calls[k].val = DOMAIN slots(k) /\ DOMAIN calls[k].elem = DOMAIN slots(k)
<1>1. PICK A : calls \in Seq(Activations(A))
  BY DEF CallInv, CallsType
<1>2. Len(calls) \in Nat \ {0} /\ DOMAIN calls = 1 .. Len(calls)
  BY <1>1
<1>3. compiled
  BY <1>2 DEF CallInv, Control
<1>4. calls[k] \in Activations(A) /\ Fits(k)
  BY <1>1 DEF CallInv
<1>5. calls[k].func \in Funcs /\ calls[k].val \in Seq(A) /\ calls[k].elem \in Seq(A)
  BY <1>4 DEF Activations
<1>6. /\ offset_map[calls[k].func] \in Seq(Slots) /\ slots(k) = offset_map[calls[k].func]
      /\ offset[calls[k].func] \in Nat /\ Within(calls[k].func)
      /\ fs(k) \in Nat
  BY <1>5 DEF LayoutInv, LayoutType, slots, fs
<1>7. fs(k) > 0
  BY <1>3, <1>5 DEF compiled, fs
<1>8. fs(k) >= 16
  BY <1>6, <1>7 DEF Within, fs
<1> QED
  BY <1>2, <1>3, <1>4, <1>5, <1>6, <1>8 DEF Fits

(* A frame that is not written to.                                          *)
LEMMA FrameKept ==
    ASSUME LayoutInv, CallInv, Running, NEW k \in DOMAIN calls, calls[k].sp \in Int,
           FrameHeld(mem, k),
           calls'[k].func = calls[k].func, calls'[k].sp = calls[k].sp,
           calls'[k].ra = calls[k].ra, calls'[k].fp = calls[k].fp,
           \A i \in DOMAIN slots(k) : /\ calls'[k].val[i] = calls[k].val[i]
                                      /\ calls'[k].elem[i] = calls[k].elem[i],
           \A x \in calls[k].sp - fs(k) .. calls[k].sp - 1 : mem'[x] = mem[x]
    PROVE  FrameHeld(mem, k)'
<1> DEFINE a == calls[k].sp
<1>1. PICK f \in Funcs : f = calls[k].func
  BY AnyFits
<1>2. compiled /\ slots(k) = offset_map[f] /\ fs(k) = frame_size[f] /\ fs(k) \in Nat
      /\ fs(k) >= 16
  BY <1>1, AnyFits DEF fs
<1>3. offset_map' = offset_map /\ slots(k)' = offset_map[f]
  BY <1>1 DEF Running, layout_vars, slots
<1>4. SavedIn(mem', a, calls[k].ra, calls[k].fp)
  <2>1. SavedIn(mem, a, calls[k].ra, calls[k].fp)
    BY DEF FrameHeld
  <2>2. \A x \in a - 16 .. a - 1 : mem'[x] = mem[x]
    BY <1>2
  <2> HIDE DEF a
  <2> QED
    BY <2>1, <2>2, SavedKept DEF a
<1>5. ASSUME NEW i \in DOMAIN offset_map[f]
      PROVE  SlotHeld(mem', f, a, i, calls[k].val[i], calls[k].elem[i])
  <2>1. SlotHeld(mem, f, a, i, calls[k].val[i], calls[k].elem[i])
    BY <1>1, <1>2 DEF FrameHeld
  <2>2. LET s == offset_map[f][i]
        IN  /\ s.off \in Int /\ size(s) \in Nat /\ base(s) \in Int
            /\ 0 - frame_size[f] <= base(s) /\ s.off + size(s) <= -16
    BY <1>2, SlotPlace
  <2>3. \A x \in a + base(offset_map[f][i]) ..
                 a + offset_map[f][i].off + size(offset_map[f][i]) - 1 : mem'[x] = mem[x]
    BY <1>2, <2>2
  <2>4. a \in Int
    OBVIOUS
  <2> HIDE DEF a
  <2> QED
    BY <1>2, <2>1, <2>3, <2>4, SlotKept
<1>6. ASSUME NEW i \in DOMAIN offset_map[f]
      PROVE  SlotHeld(mem, f, a, i, calls[k].val[i], calls[k].elem[i])'
  <2>1. calls'[k].val[i] = calls[k].val[i] /\ calls'[k].elem[i] = calls[k].elem[i]
    BY <1>2
  <2> QED
    BY <1>3, <1>5, <2>1 DEF SlotHeld
<1> QED
  BY <1>1, <1>3, <1>4, <1>6 DEF FrameHeld

-----------------------------------------------------------------------------
(* The steps that leave the stack alone.                                    *)
LEMMA PlainStack ==
    ASSUME LayoutInv, CallInv, StackInv, SmallFrames, PassArg \/ PrologueEnd
    PROVE  StackInv'
<1>1. Numbers /\ Stacked /\ Linked /\ Current /\ Frames
  BY DEF StackInv
<1>2. /\ calls' = calls /\ mem' = mem /\ sp' = sp /\ fp' = fp
      /\ \/ pc = "pass" /\ pc' = "pass"
         \/ pc = "args" /\ pc' = "body"
      /\ offset_map' = offset_map /\ frame_size' = frame_size
  <2>1. CASE PassArg
    BY <2>1 DEF PassArg, Running, layout_vars
  <2>2. CASE PrologueEnd
    BY <2>2 DEF PrologueEnd, Running, layout_vars
  <2> QED
    BY <2>1, <2>2
<1>3. Numbers' /\ Stacked' /\ Linked'
  BY <1>1, <1>2 DEF Numbers, Stacked, Linked, fs
<1>4. Current'
  BY <1>1, <1>2 DEF Current, fs, top
<1>5. Frames'
  <2>1. \A k \in DOMAIN calls : /\ Entered(k)' <=> Entered(k)
                                /\ Untouched(k)' <=> Untouched(k)
                                /\ FrameHeld(mem, k)' <=> FrameHeld(mem, k)
    BY <1>2 DEF Entered, Untouched, FrameHeld, SlotHeld, slots
  <2> QED
    BY <1>1, <1>2, <2>1 DEF Frames
<1> QED
  BY <1>3, <1>4, <1>5 DEF StackInv

LEMMA LayoutStack ==
    ASSUME LayoutInv, CallInv, StackInv, Layout, NEW f \in Funcs, frame_size[f] = 0
    PROVE  StackInv'
<1>1. pc = "start" /\ Len(calls) = 0
  BY DEF CallInv, Control, compiled
<1>2. PICK A : calls \in Seq(Activations(A))
  BY DEF CallInv, CallsType
<1>3. DOMAIN calls = {}
  BY <1>1, <1>2
<1>4. Numbers /\ DOMAIN mem = Memory
  BY <1>1 DEF StackInv, Frames
<1>5. calls' = calls /\ mem' = mem /\ sp' = sp /\ pc' = pc
  BY DEF Layout
<1> QED
  BY <1>1, <1>3, <1>4, <1>5 DEF StackInv, Numbers, Stacked, Linked, Current, Frames

LEMMA CallStack ==
    ASSUME LayoutInv, CallInv, StackInv, SmallFrames,
           NEW g \in Funcs, NEW args \in Args, Call(g, args)
    PROVE  StackInv'
<1>2. PICK A : calls \in Seq(Activations(A))
  BY DEF CallInv, CallsType
<1>0. PICK n \in Nat : n = Len(calls)
  BY <1>2
<1> DEFINE none == [i \in DOMAIN offset_map[g] |-> None]
           r == [func |-> g, args |-> args, sp |-> sp, fp |-> fp, ra |-> n,
                 val |-> none, elem |-> none]
<1>1. Numbers /\ Stacked /\ Linked /\ Current /\ Frames
  BY DEF StackInv
<1>3. /\ \A i \in DOMAIN offset_map[g] : none[i] = None
      /\ r.func = g /\ r.sp = sp /\ r.fp = fp /\ r.ra = n /\ r.val = none /\ r.elem = none
  OBVIOUS
<1>4. calls' = Append(calls, r)
  BY <1>0 DEF Call
<1> HIDE DEF none, r
<1>5. /\ DOMAIN calls = 1 .. n
      /\ Len(calls') = n + 1 /\ DOMAIN calls' = 1 .. n + 1 /\ calls'[n + 1] = r
      /\ \A k \in DOMAIN calls : calls'[k] = calls[k]
  BY <1>0, <1>2, <1>4
<1>6. /\ mem' = mem /\ sp' = sp /\ fp' = fp /\ pc' = "pass" /\ pc \in {"start", "body"}
      /\ frame_size[g] <= sp
      /\ offset_map' = offset_map /\ frame_size' = frame_size
  BY <1>1 DEF Call, Running, layout_vars, Numbers, LayoutInv, LayoutType
<1>7. pc = "start" => n = 0
  BY <1>0 DEF CallInv, Control
<1>8. n > 0 => sp = calls[n].sp - fs(n) /\ fp = calls[n].sp
  BY <1>0, <1>1, <1>6, <1>7 DEF Current, top
<1>9. \A k \in DOMAIN calls : fs(k)' = fs(k) /\ fs(k) \in Nat /\ calls[k].sp \in Int
  BY <1>1, <1>5, <1>6, AnyFits DEF fs, Numbers
<1>10. fs(n + 1)' = frame_size[g] /\ sp \in Int /\ frame_size[g] \in Nat
  <2>1. frame_size[g] \in Nat
    BY DEF LayoutInv, LayoutType
  <2>2. fs(n + 1)' = frame_size[g]
    BY <1>3, <1>5, <1>6 DEF fs
  <2> QED
    BY <1>1, <2>1, <2>2 DEF Numbers
<1>11. Numbers'
  <2>1. ASSUME NEW k \in DOMAIN calls'
        PROVE  calls'[k].sp \in Int /\ calls'[k].sp <= StackTop /\ fs(k)' <= calls'[k].sp
    <3>1. CASE k \in DOMAIN calls
      BY <1>1, <1>5, <1>9, <3>1 DEF Numbers
    <3>2. CASE k = n + 1
      BY <1>1, <1>3, <1>5, <1>6, <1>10, <3>2 DEF Numbers
    <3> QED
      BY <1>5, <3>1, <3>2
  <2> QED
    BY <1>1, <1>6, <2>1 DEF Numbers
<1>12. ASSUME NEW k \in DOMAIN calls', NEW l \in DOMAIN calls', k < l
       PROVE  calls'[l].sp <= calls'[k].sp - fs(k)'
  <2>1. k \in DOMAIN calls /\ calls'[k] = calls[k] /\ n > 0 /\ n \in DOMAIN calls
    BY <1>5, <1>12
  <2>2. CASE l \in DOMAIN calls
    BY <1>1, <1>5, <1>9, <1>12, <2>1, <2>2 DEF Stacked
  <2>3. CASE l = n + 1
    <3>1. sp <= calls[k].sp - fs(k)
      <4>1. CASE k = n
        BY <1>8, <1>9, <2>1, <4>1
      <4>2. CASE k < n
        <5>1. calls[n].sp <= calls[k].sp - fs(k)
          BY <1>1, <2>1, <4>2 DEF Stacked
        <5> QED
          BY <1>8, <1>9, <2>1, <5>1
      <4> QED
        BY <1>5, <2>1, <4>1, <4>2
    <3> QED
      BY <1>3, <1>5, <1>9, <2>1, <2>3, <3>1
  <2> QED
    BY <1>5, <2>2, <2>3
<1>13. Stacked'
  BY <1>12 DEF Stacked
<1>14. Linked'
  <2> SUFFICES ASSUME NEW k \in DOMAIN calls'
               PROVE  /\ calls'[k].ra = k - 1
                      /\ k > 1 => /\ calls'[k].sp = calls'[k - 1].sp - fs(k - 1)'
                                  /\ calls'[k].fp = calls'[k - 1].sp
    BY DEF Linked
  <2>1. CASE k \in DOMAIN calls
    <3>1. k > 1 => k - 1 \in DOMAIN calls
      BY <1>5, <2>1
    <3> QED
      BY <1>1, <1>5, <1>9, <2>1, <3>1 DEF Linked
  <2>2. CASE k = n + 1
    <3>1. k > 1 => n > 0 /\ n \in DOMAIN calls /\ k - 1 = n
      BY <1>5, <2>2
    <3>2. calls'[k] = r /\ k - 1 = n
      BY <1>5, <2>2
    <3> QED
      BY <1>3, <1>5, <1>8, <1>9, <3>1, <3>2
  <2> QED
    BY <1>5, <2>1, <2>2
<1>15. Current'
  BY <1>3, <1>5, <1>6 DEF Current, top
<1>16. Frames'
  <2> SUFFICES ASSUME NEW k \in DOMAIN calls'
               PROVE  IF Entered(k)' THEN FrameHeld(mem, k)' ELSE Untouched(k)'
    BY <1>1, <1>6 DEF Frames
  <2>1. CASE k \in DOMAIN calls
    <3>1. k <= n /\ n > 0 /\ pc = "body"
      BY <1>5, <1>6, <1>7, <2>1
    <3>2. Entered(k)' /\ Entered(k)
      BY <1>0, <1>5, <2>1, <3>1 DEF Entered
    <3>3. FrameHeld(mem, k)
      BY <1>1, <2>1, <3>2 DEF Frames
    <3>4. calls'[k] = calls[k]
      BY <1>5, <2>1
    <3>5. FrameHeld(mem, k)'
      BY <1>6, <1>9, <2>1, <3>3, <3>4, FrameKept DEF Call
    <3> QED
      BY <3>2, <3>5
  <2>2. CASE k = n + 1
    <3>1. ~ Entered(k)'
      BY <1>5, <1>6, <2>2 DEF Entered
    <3>2. Untouched(k)'
      BY <1>3, <1>5, <1>6, <2>2 DEF Untouched, slots
    <3> QED
      BY <3>1, <3>2
  <2> QED
    BY <1>5, <2>1, <2>2
<1> QED
  BY <1>11, <1>13, <1>14, <1>15, <1>16 DEF StackInv

(* While an activation runs, it writes below the place where its frame      *)
(* begins; then the frames of the others are as they were.                  *)
LEMMA OthersKept ==
    ASSUME LayoutInv, CallInv, StackInv, SmallFrames, Running,
           NEW n \in Nat \ {0}, n = Len(calls),
           Len(calls') = n, DOMAIN calls' = DOMAIN calls,
           \A k \in DOMAIN calls :
               /\ calls'[k].func = calls[k].func /\ calls'[k].sp = calls[k].sp
               /\ calls'[k].fp = calls[k].fp /\ calls'[k].ra = calls[k].ra,
           \A k \in 1 .. n - 1 : \A i \in DOMAIN slots(k) :
               calls'[k].val[i] = calls[k].val[i] /\ calls'[k].elem[i] = calls[k].elem[i],
           \A x \in Memory : x >= top.sp => mem'[x] = mem[x]
    PROVE  /\ Stacked' /\ Linked'
           /\ \A k \in DOMAIN calls : /\ fs(k)' = fs(k) /\ calls'[k].sp \in Int
                                      /\ calls'[k].sp <= StackTop /\ fs(k)' <= calls'[k].sp
           /\ \A k \in 1 .. n - 1 : FrameHeld(mem, k)'
<1>1. Numbers /\ Stacked /\ Linked /\ Frames /\ DOMAIN calls = 1 .. n /\ n \in DOMAIN calls
  <2>1. PICK A : calls \in Seq(Activations(A))
    BY DEF CallInv, CallsType
  <2> QED
    BY <2>1 DEF StackInv
<1>2. frame_size' = frame_size
  BY DEF Running, layout_vars
<1>3. \A k \in DOMAIN calls : /\ fs(k)' = fs(k) /\ calls[k].sp \in Int
                              /\ calls[k].sp <= StackTop /\ fs(k) <= calls[k].sp
                              /\ calls'[k].sp = calls[k].sp /\ fs(k) \in Nat
  BY <1>1, <1>2, AnyFits DEF fs, Numbers
<1>4. Stacked'
  BY <1>1, <1>3 DEF Stacked
<1>5. Linked'
  <2>1. \A k \in DOMAIN calls : k > 1 => k - 1 \in DOMAIN calls
    BY <1>1
  <2> QED
    BY <1>1, <1>3, <2>1, SMTT(30) DEF Linked
<1>6. ASSUME NEW k \in 1 .. n - 1
      PROVE  FrameHeld(mem, k)'
  <2>1. k \in DOMAIN calls /\ FrameHeld(mem, k)
    <3>1. k \in DOMAIN calls /\ Entered(k)
      BY <1>1 DEF Entered
    <3> QED
      BY <1>1, <3>1 DEF Frames
  <2>2. top.sp <= calls[k].sp - fs(k) /\ top.sp >= 0
    <3>1. fs(n) <= calls[n].sp /\ fs(n) \in Nat /\ calls[n].sp \in Int
      BY <1>1, <1>3
    <3>2. calls[n].sp <= calls[k].sp - fs(k)
      BY <1>1, <2>1 DEF Stacked
    <3> QED
      BY <3>1, <3>2 DEF top
  <2>3. \A x \in calls[k].sp - fs(k) .. calls[k].sp - 1 : mem'[x] = mem[x]
    <3>1. ASSUME NEW x \in calls[k].sp - fs(k) .. calls[k].sp - 1
          PROVE  x \in Memory /\ x >= top.sp
      <4>1. top.sp \in Int
        BY <1>1, <1>3 DEF top
      <4> QED
        BY <1>3, <2>1, <2>2, <4>1, StackAssumption, SMTT(30) DEF Memory, StackAssumption
    <3> QED
      BY <3>1
  <2> QED
    BY <1>3, <2>1, <2>3, FrameKept
<1> QED
  BY <1>3, <1>4, <1>5, <1>6

LEMMA PrologueStack ==
    ASSUME LayoutInv, CallInv, StackInv, SmallFrames, Prologue
    PROVE  StackInv'
<1>1. Numbers /\ Current /\ Frames
  BY DEF StackInv
<1>2. /\ pc = "pass" /\ pc' = "args" /\ calls' = calls /\ sp' = sp - frame_size[top.func]
      /\ fp' = sp /\ sp = top.sp /\ fp = top.fp
      /\ Running /\ frame_size' = frame_size /\ offset_map' = offset_map
  BY <1>1 DEF Prologue, Running, layout_vars, Current
<1>3. PICK n \in Nat \ {0} : n = Len(calls)
  BY <1>2, TopFits DEF CallInv, Control
<1>4. /\ n \in DOMAIN calls /\ DOMAIN calls = 1 .. n /\ fs(n) \in Nat /\ fs(n) >= 16
      /\ frame_size[top.func] = fs(n) /\ calls[n] = top
  <2>1. n \in DOMAIN calls
    BY <1>2, <1>3, TopFits DEF CallInv, Control
  <2> QED
    BY <1>3, <2>1, AnyFits DEF fs, top
<1>5. sp \in Int /\ sp >= fs(n) /\ sp <= StackTop
  BY <1>1, <1>2, <1>4 DEF Numbers
<1> DEFINE m == Write(mem, sp - 8, 8, cell("ra", top.ra))
<1>6. mem' = Write(m, sp - 16, 8, cell("fp", fp))
  BY DEF Prologue
<1>7. /\ DOMAIN m = Memory
      /\ \A x \in Memory : x \notin sp - 8 .. sp - 1 => m[x] = mem[x]
      /\ Holds(m, sp - 8, 8, cell("ra", top.ra))
  <2>1. sp - 8 \in Int /\ sp - 8 >= 0 /\ sp - 8 + 8 <= StackTop /\ sp - 8 + 8 - 1 = sp - 1
    BY <1>4, <1>5
  <2>2. DOMAIN mem = Memory
    BY <1>1 DEF Frames
  <2> QED
    BY <2>1, <2>2, Written
<1> HIDE DEF m
<1>8. /\ DOMAIN mem' = Memory
      /\ \A x \in Memory : x \notin sp - 16 .. sp - 9 => mem'[x] = m[x]
      /\ Holds(mem', sp - 16, 8, cell("fp", fp))
  <2>1. sp - 16 \in Int /\ sp - 16 >= 0 /\ sp - 16 + 8 <= StackTop /\ sp - 16 + 8 - 1 = sp - 9
    <3>1. sp \in Int /\ sp >= 16 /\ sp <= StackTop /\ StackTop \in Int
      BY <1>4, <1>5, StackAssumption DEF StackAssumption
    <3> HIDE DEF Memory
    <3> QED
      BY <3>1
  <2> QED
    BY <1>6, <1>7, <2>1, Written
<1>9. Holds(mem', sp - 8, 8, cell("ra", top.ra))
  <2>1. \A x \in sp - 8 .. sp - 8 + 8 - 1 : mem'[x] = m[x]
    BY <1>4, <1>5, <1>8, StackAssumption DEF Memory, StackAssumption
  <2>2. sp - 8 \in Int
    BY <1>5
  <2> QED
    BY <1>7, <2>1, <2>2, HeldOn
<1>10. FrameHeld(mem, n)'
  <2>1. SavedIn(mem', sp, top.ra, fp)
    BY <1>8, <1>9 DEF SavedIn
  <2>2. Untouched(n)
    <3>1. ~ Entered(n)
      BY <1>2, <1>3 DEF Entered
    <3> QED
      BY <1>1, <1>4, <3>1 DEF Frames
  <2>3. slots(n)' = slots(n) /\ calls'[n] = top
    BY <1>2, <1>4 DEF slots
  <2>4. None.what # "ptr"
    BY DEF None, Junk, cell
  <2>5. ASSUME NEW i \in DOMAIN slots(n)
        PROVE  SlotHeld(mem, calls[n].func, calls[n].sp, i, calls[n].val[i], calls[n].elem[i])'
    <3>1. calls'[n].val[i] = None /\ calls'[n].elem[i] = None
      BY <1>2, <2>2 DEF Untouched
    <3> HIDE DEF None
    <3> QED
      BY <2>4, <3>1 DEF SlotHeld
  <2> QED
    BY <1>2, <2>1, <2>3, <2>5 DEF FrameHeld
<1>11. \A x \in Memory : x >= top.sp => mem'[x] = mem[x]
  BY <1>2, <1>5, <1>7, <1>8 DEF Memory
<1>12. /\ Stacked' /\ Linked'
       /\ \A k \in DOMAIN calls : /\ fs(k)' = fs(k) /\ calls'[k].sp \in Int
                                  /\ calls'[k].sp <= StackTop /\ fs(k)' <= calls'[k].sp
       /\ \A k \in 1 .. n - 1 : FrameHeld(mem, k)'
  BY <1>2, <1>3, <1>11, OthersKept
<1>13. Numbers'
  <2>1. sp' \in Int /\ 0 <= sp' /\ sp' <= StackTop
    <3>1. sp' = sp - fs(n) /\ StackTop \in Int
      BY <1>2, <1>4, StackAssumption DEF StackAssumption
    <3> QED
      BY <1>4, <1>5, <3>1
  <2> QED
    BY <1>2, <1>12, <2>1 DEF Numbers
<1>14. Current'
  <2>1. top' = top /\ fs(Len(calls))' = fs(n)
    BY <1>2, <1>3 DEF top, fs
  <2> QED
    BY <1>2, <1>4, <2>1 DEF Current
<1>15. Frames'
  <2>1. \A k \in DOMAIN calls' : FrameHeld(mem, k)' /\ Entered(k)'
    BY <1>2, <1>4, <1>10, <1>12 DEF Entered
  <2> QED
    BY <1>8, <2>1 DEF Frames
<1> QED
  BY <1>12, <1>13, <1>14, <1>15 DEF StackInv

(* A step of the running activation: what it has to show of itself.         *)
LEMMA RunningStack ==
    ASSUME LayoutInv, CallInv, StackInv, SmallFrames, Running,
           pc \in {"args", "body"}, pc' = pc, sp' = sp, fp' = fp,
           NEW n \in Nat \ {0}, n = Len(calls),
           Len(calls') = n, DOMAIN calls' = DOMAIN calls,
           \A k \in DOMAIN calls :
               /\ calls'[k].func = calls[k].func /\ calls'[k].sp = calls[k].sp
               /\ calls'[k].fp = calls[k].fp /\ calls'[k].ra = calls[k].ra,
           \A k \in 1 .. n - 1 : \A i \in DOMAIN slots(k) :
               calls'[k].val[i] = calls[k].val[i] /\ calls'[k].elem[i] = calls[k].elem[i],
           DOMAIN mem' = Memory,
           \A x \in Memory : x >= top.sp => mem'[x] = mem[x],
           FrameHeld(mem, n)'
    PROVE  StackInv'
<1>1. Numbers /\ Current
  BY DEF StackInv
<1>2. /\ Stacked' /\ Linked'
      /\ \A k \in DOMAIN calls : /\ fs(k)' = fs(k) /\ calls'[k].sp \in Int
                                 /\ calls'[k].sp <= StackTop /\ fs(k)' <= calls'[k].sp
      /\ \A k \in 1 .. n - 1 : FrameHeld(mem, k)'
  BY OthersKept
<1>3. n \in DOMAIN calls /\ DOMAIN calls = 1 .. n
  BY TopFits
<1>4. Numbers'
  BY <1>1, <1>2 DEF Numbers
<1>5. Current'
  <2>1. top'.sp = top.sp
    BY <1>3 DEF top
  <2>2. fs(Len(calls))' = fs(n)' /\ fs(Len(calls)) = fs(n)
    BY DEF fs
  <2> QED
    BY <1>1, <1>2, <1>3, <2>1, <2>2 DEF Current
<1>6. Frames'
  <2>1. \A k \in DOMAIN calls' : FrameHeld(mem, k)' /\ Entered(k)'
    BY <1>2, <1>3 DEF Entered
  <2> QED
    BY <2>1 DEF Frames
<1> QED
  BY <1>2, <1>4, <1>5, <1>6 DEF StackInv

LEMMA ExternalCallStack ==
    ASSUME LayoutInv, CallInv, StackInv, SmallFrames, ExternalCall
    PROVE  StackInv'
<1>1. Numbers /\ Current /\ Frames
  BY DEF StackInv
<1>2. /\ pc = "body" /\ pc' = pc /\ calls' = calls /\ sp' = sp /\ fp' = fp /\ Running
      /\ mem' = [x \in DOMAIN mem |-> IF x < sp THEN Junk ELSE mem[x]]
  BY DEF ExternalCall
<1>3. PICK n \in Nat \ {0} : n = Len(calls)
  BY <1>2, TopFits DEF CallInv, Control
<1>4. /\ n \in DOMAIN calls /\ DOMAIN calls = 1 .. n /\ fs(n) \in Nat /\ calls[n] = top
      /\ sp = top.sp - fs(n)
  <2>1. n \in DOMAIN calls
    BY <1>2, <1>3, TopFits DEF CallInv, Control
  <2> QED
    BY <1>1, <1>2, <1>3, <2>1, AnyFits DEF fs, top, Current
<1>5. top.sp \in Int /\ sp \in Int /\ top.sp >= sp /\ DOMAIN mem = Memory
      /\ top.sp <= StackTop /\ sp >= 0
  BY <1>1, <1>4 DEF Numbers, Frames
<1>6. DOMAIN mem' = Memory /\ \A x \in Memory : x >= sp => mem'[x] = mem[x]
  BY <1>2, <1>5 DEF Memory
<1>7. \A x \in Memory : x >= top.sp => mem'[x] = mem[x]
  BY <1>5, <1>6 DEF Memory
<1>8. FrameHeld(mem, n)'
  <2>1. FrameHeld(mem, n)
    <3>1. Entered(n)
      BY <1>2 DEF Entered
    <3> QED
      BY <1>1, <1>4, <3>1 DEF Frames
  <2>2. \A x \in calls[n].sp - fs(n) .. calls[n].sp - 1 : mem'[x] = mem[x]
    BY <1>4, <1>5, <1>6, StackAssumption, SMTT(30) DEF Memory, StackAssumption
  <2> QED
    BY <1>2, <1>4, <1>5, <2>1, <2>2, FrameKept
<1> QED
  BY <1>2, <1>3, <1>6, <1>7, <1>8, RunningStack

(* While only the bytes of slot i and of its array are written, the running *)
(* activation keeps all else that it has stored.                            *)
LEMMA AroundSlot ==
    ASSUME LayoutInv, CallInv, StackInv, SmallFrames, Len(calls) > 0,
           pc \in {"args", "body"}, NEW i \in DOMAIN slots(Len(calls)),
           LET s == slots(Len(calls))[i]
           IN  \A x \in Memory :
                   x < top.sp + base(s) \/ top.sp + s.off + size(s) <= x => mem'[x] = mem[x]
    PROVE  /\ SavedIn(mem', top.sp, top.ra, top.fp)
           /\ \A j \in DOMAIN slots(Len(calls)) \ {i} :
                 SlotHeld(mem', top.func, top.sp, j, top.val[j], top.elem[j])
           /\ \A x \in Memory : x >= top.sp => mem'[x] = mem[x]
<1>1. Numbers /\ Current /\ Frames
  BY SMTT(30) DEF StackInv
<1>2. PICK n \in Nat \ {0} : n = Len(calls)
  BY TopFits
<1>3. PICK f \in Funcs : f = top.func
  BY TopFits
<1>4. /\ n \in DOMAIN calls /\ DOMAIN calls = 1 .. n /\ calls[n] = top
      /\ slots(n) = offset_map[f] /\ compiled
      /\ DOMAIN top.val = DOMAIN offset_map[f] /\ DOMAIN top.elem = DOMAIN offset_map[f]
      /\ fs(n) = frame_size[f] /\ fs(n) \in Nat
  <2>1. n \in DOMAIN calls
    BY <1>2, TopFits
  <2> QED
    BY <1>2, <1>3, <2>1, AnyFits DEF fs, top
<1> DEFINE s == offset_map[f][i]
           a == top.sp
<1>5. i \in DOMAIN offset_map[f]
  BY <1>2, <1>4
<1>6. /\ s.off \in Int /\ size(s) \in Nat \ {0} /\ s.extra \in Nat
      /\ base(s) \in Int /\ base(s) = s.off - s.extra
      /\ 0 - fs(n) <= base(s) /\ base(s) <= s.off /\ s.off + size(s) <= -16
  BY <1>4, <1>5, SlotPlace
<1>7. a \in Int /\ a <= StackTop /\ fs(n) <= a /\ fp = a /\ DOMAIN mem = Memory
  BY <1>1, <1>4 DEF Numbers, Current, Frames
<1>8. \A x \in Memory : x < a + base(s) \/ a + s.off + size(s) <= x => mem'[x] = mem[x]
  BY <1>2, <1>4
<1> HIDE DEF s, a
<1>11. PICK o \in Int, z \in Nat \ {0}, e \in Nat, l \in Int, q \in Nat, d \in Int :
           /\ o = s.off /\ z = size(s) /\ e = s.extra /\ l = base(s) /\ q = fs(n) /\ d = a
           /\ l = o - e /\ 0 - q <= l /\ o + z <= -16 /\ q <= d /\ d <= StackTop
  BY <1>4, <1>6, <1>7
<1>12. l = o - e /\ 0 - q <= l /\ o + z <= -16 /\ q <= d /\ d <= StackTop /\ StackTop \in Int
  BY <1>11, StackAssumption DEF StackAssumption
<1>13. \A x \in Memory : x < d + l \/ d + o + z <= x => mem'[x] = mem[x]
  BY <1>8, <1>11
<1>14. FrameHeld(mem, n)
  <2>1. Entered(n)
    BY DEF Entered
  <2> QED
    BY <1>1, <1>4, <2>1 DEF Frames
<1>15. SavedIn(mem', d, top.ra, top.fp)
  <2>1. SavedIn(mem, d, top.ra, top.fp)
    BY <1>4, <1>11, <1>14 DEF FrameHeld, a
  <2>2. \A x \in d - 16 .. d - 1 : x \in Memory /\ d + o + z <= x
    BY <1>12 DEF Memory
  <2>3. \A x \in d - 16 .. d - 1 : mem'[x] = mem[x]
    BY <1>13, <2>2
  <2> QED
    BY <2>1, <2>3, SavedKept
<1>16. ASSUME NEW j \in DOMAIN offset_map[f], j # i
       PROVE  SlotHeld(mem', f, d, j, top.val[j], top.elem[j])
  <2>1. SlotHeld(mem, f, d, j, top.val[j], top.elem[j])
    BY <1>3, <1>4, <1>11, <1>14 DEF FrameHeld, a
  <2> DEFINE t == offset_map[f][j]
  <2>2. /\ t.off \in Int /\ size(t) \in Nat \ {0} /\ base(t) \in Int
        /\ 0 - fs(n) <= base(t) /\ base(t) <= t.off /\ t.off + size(t) <= -16
    BY <1>4, SlotPlace
  <2>3. t.off + size(t) <= base(s) \/ s.off + size(s) <= base(t)
    BY <1>5, <1>16, SlotsApart DEF s
  <2> HIDE DEF t
  <2>4. PICK o2 \in Int, z2 \in Nat \ {0}, l2 \in Int :
            /\ o2 = t.off /\ z2 = size(t) /\ l2 = base(t)
            /\ 0 - q <= l2 /\ l2 <= o2 /\ o2 + z2 <= -16
            /\ o2 + z2 <= l \/ o + z <= l2
    BY <1>11, <2>2, <2>3
  <2>5. /\ 0 - q <= l2 /\ l2 <= o2 /\ o2 + z2 <= -16
        /\ o2 + z2 <= l \/ o + z <= l2
    BY <2>4
  <2>6. ASSUME NEW x \in d + l2 .. d + o2 + z2 - 1
        PROVE  mem'[x] = mem[x]
    <3>1. x \in Memory
      BY <1>12, <2>5 DEF Memory
    <3>2. x < d + l \/ d + o + z <= x
      BY <1>12, <2>5
    <3> QED
      BY <1>13, <3>1, <3>2
  <2>7. \A x \in d + base(t) .. d + t.off + size(t) - 1 : mem'[x] = mem[x]
    BY <2>4, <2>6
  <2> QED
    BY <1>4, <2>1, <2>7, SlotKept DEF t
<1>17. \A x \in Memory : x >= d => d + o + z <= x
  BY <1>12 DEF Memory
<1> QED
  BY <1>2, <1>3, <1>4, <1>11, <1>13, <1>15, <1>16, <1>17 DEF a

(* A slot of the running activation is written.                             *)
LEMMA SlotWritten ==
    ASSUME LayoutInv, CallInv, StackInv, SmallFrames, Running, Len(calls) > 0,
           pc \in {"args", "body"}, pc' = pc, sp' = sp, fp' = fp,
           NEW i \in DOMAIN slots(Len(calls)), NEW c, StoreSlot(i, c),
           c.what = "ptr" => c = cell("ptr", fp + base(slots(Len(calls))[i]))
    PROVE  StackInv'
<1>1. Numbers /\ Current /\ Frames
  BY DEF StackInv
<1>2. PICK n \in Nat \ {0} : n = Len(calls)
  BY TopFits
<1>3. PICK f \in Funcs : f = top.func
  BY TopFits
<1>4. /\ n \in DOMAIN calls /\ DOMAIN calls = 1 .. n /\ calls[n] = top
      /\ slots(n) = offset_map[f] /\ compiled
      /\ DOMAIN top.val = DOMAIN offset_map[f] /\ DOMAIN top.elem = DOMAIN offset_map[f]
      /\ fs(n) = frame_size[f] /\ fs(n) \in Nat
  <2>1. n \in DOMAIN calls
    BY <1>2, TopFits
  <2> QED
    BY <1>2, <1>3, <2>1, AnyFits DEF fs, top
<1> DEFINE s == offset_map[f][i]
           a == top.sp
<1>5. i \in DOMAIN offset_map[f]
  BY <1>2, <1>4
<1>6. /\ s.off \in Int /\ size(s) \in Nat \ {0} /\ s.extra \in Nat
      /\ base(s) \in Int /\ base(s) = s.off - s.extra
      /\ 0 - fs(n) <= base(s) /\ base(s) <= s.off /\ s.off + size(s) <= -16
  BY <1>4, <1>5, SlotPlace
<1>7. a \in Int /\ a <= StackTop /\ fs(n) <= a /\ fp = a /\ DOMAIN mem = Memory
  BY <1>1, <1>4 DEF Numbers, Current, Frames
<1>8. /\ mem' = Write(mem, a + s.off, size(s), c)
      /\ calls' = [calls EXCEPT ![Len(calls)].val[i] = c]
  BY <1>2, <1>4, <1>7 DEF StoreSlot
<1>9. c.what = "ptr" => c = cell("ptr", a + base(s))
  BY <1>2, <1>4, <1>7
<1>10. /\ Len(calls') = n /\ DOMAIN calls' = DOMAIN calls
       /\ \A k \in DOMAIN calls :
             /\ calls'[k].func = calls[k].func /\ calls'[k].sp = calls[k].sp
             /\ calls'[k].fp = calls[k].fp /\ calls'[k].ra = calls[k].ra
             /\ calls'[k].elem = calls[k].elem
             /\ \A j \in DOMAIN slots(k) : calls'[k].val[j] =
                   IF k = n /\ j = i THEN c ELSE calls[k].val[j]
  <2>1. i \in DOMAIN top.val
    BY <1>4, <1>5
  <2>2. \A k \in DOMAIN calls : DOMAIN calls[k].val = DOMAIN slots(k)
    BY AnyFits
  <2> QED
    BY <1>2, <1>8, <2>1, <2>2, ValStored DEF CallInv
<1> HIDE DEF s, a
<1>11. PICK o \in Int, z \in Nat \ {0}, e \in Nat, l \in Int, q \in Nat, d \in Int :
           /\ o = s.off /\ z = size(s) /\ e = s.extra /\ l = base(s) /\ q = fs(n) /\ d = a
           /\ l = o - e /\ 0 - q <= l /\ o + z <= -16 /\ q <= d /\ d <= StackTop
  BY <1>4, <1>6, <1>7
<1>12. l = o - e /\ 0 - q <= l /\ o + z <= -16 /\ q <= d /\ d <= StackTop /\ StackTop \in Int
  BY <1>11, StackAssumption DEF StackAssumption
<1>14. FrameHeld(mem, n)
  <2>1. Entered(n)
    BY DEF Entered
  <2> QED
    BY <1>1, <1>4, <2>1 DEF Frames
<1>13. /\ DOMAIN mem' = Memory
       /\ \A x \in Memory : x < d + o \/ d + o + z <= x => mem'[x] = mem[x]
       /\ Holds(mem', d + o, z, c)
  <2>1. mem' = Write(mem, d + o, z, c)
    BY <1>8, <1>11
  <2>2. d + o \in Int /\ d + o >= 0 /\ d + o + z <= StackTop
    BY <1>12
  <2>3. /\ DOMAIN mem' = Memory /\ Holds(mem', d + o, z, c)
        /\ \A x \in Memory : x \notin d + o .. d + o + z - 1 => mem'[x] = mem[x]
    BY <1>7, <2>1, <2>2, Written
  <2>4. \A x \in Memory : x < d + o \/ d + o + z <= x
                             => x \notin d + o .. d + o + z - 1
    BY DEF Memory
  <2> QED
    BY <2>3, <2>4
<1>15. /\ SavedIn(mem', d, top.ra, top.fp)
       /\ \A j \in DOMAIN offset_map[f] \ {i} :
             SlotHeld(mem', f, d, j, top.val[j], top.elem[j])
       /\ \A x \in Memory : x >= d => mem'[x] = mem[x]
  <2>1. \A x \in Memory : x < d + l \/ d + o + z <= x => mem'[x] = mem[x]
    <3>1. \A x \in Memory : x < d + l \/ d + o + z <= x
                                => x < d + o \/ d + o + z <= x
      <4>1. d + l <= d + o /\ d + o + z <= d + o + z
        BY <1>12
      <4> QED
        BY <4>1 DEF Memory
    <3> QED
      BY <1>13, <3>1
  <2>2. \A x \in Memory : x < a + base(s) \/ a + s.off + size(s) <= x => mem'[x] = mem[x]
    BY <1>11, <2>1
  <2> QED
    BY <1>2, <1>3, <1>4, <1>11, <2>2, AroundSlot DEF a, s
<1>16. SlotHeld(mem, f, d, i, top.val[i], top.elem[i])
  BY <1>3, <1>4, <1>5, <1>11, <1>14 DEF FrameHeld, a
<1>17. SlotHeld(mem', f, d, i, calls'[n].val[i], calls'[n].elem[i])
  <2>1. calls'[n].val[i] = c /\ calls'[n].elem[i] = top.elem[i]
    BY <1>4, <1>5, <1>10
  <2>2. top.elem[i] # None => Holds(mem, d + l, e, top.elem[i])
    BY <1>11, <1>16 DEF SlotHeld, s
  <2>3. \A x \in d + l .. d + l + e - 1 : x \in Memory /\ x < d + o
    BY <1>12 DEF Memory
  <2> HIDE DEF None
  <2>4. top.elem[i] # None => Holds(mem', d + l, e, top.elem[i])
    <3>1. \A x \in d + l .. d + l + e - 1 : mem'[x] = mem[x]
      BY <1>13, <2>3
    <3>2. d + l \in Int
      OBVIOUS
    <3> QED
      BY <2>2, <3>1, <3>2, HeldOn
  <2>5. c.what = "ptr" => c = cell("ptr", d + base(s))
    BY <1>9, <1>11
  <2>6. Holds(mem', d + s.off, size(s), c)
    BY <1>11, <1>13
  <2>7. top.elem[i] # None => Holds(mem', d + base(s), s.extra, top.elem[i])
    BY <1>11, <2>4
  <2> QED
    BY <2>1, <2>5, <2>6, <2>7 DEF SlotHeld, s
<1>18. FrameHeld(mem, n)'
  <2>1. /\ calls'[n].func = f /\ calls'[n].sp = d /\ calls'[n].ra = top.ra
        /\ calls'[n].fp = top.fp /\ offset_map' = offset_map
        /\ slots(n)' = offset_map[f]
    BY <1>3, <1>4, <1>10, <1>11 DEF a, Running, layout_vars, slots
  <2>2. ASSUME NEW j \in DOMAIN offset_map[f]
        PROVE  SlotHeld(mem', f, d, j, calls'[n].val[j], calls'[n].elem[j])
    <3>1. CASE j = i
      BY <1>17, <3>1
    <3>2. CASE j # i
      <4>1. calls'[n].val[j] = top.val[j] /\ calls'[n].elem[j] = top.elem[j]
        BY <1>4, <1>10, <3>2
      <4> QED
        BY <1>15, <3>2, <4>1
    <3> QED
      BY <3>1, <3>2
  <2>3. ASSUME NEW j \in DOMAIN offset_map[f]
        PROVE  SlotHeld(mem, calls[n].func, calls[n].sp, j, calls[n].val[j], calls[n].elem[j])'
    BY <2>1, <2>2 DEF SlotHeld
  <2> QED
    BY <1>15, <2>1, <2>3 DEF FrameHeld
<1>19. \A x \in Memory : x >= top.sp => mem'[x] = mem[x]
  BY <1>11, <1>15 DEF a
<1>20. \A k \in 1 .. n - 1 : \A j \in DOMAIN slots(k) :
           calls'[k].val[j] = calls[k].val[j] /\ calls'[k].elem[j] = calls[k].elem[j]
  BY <1>4, <1>10
<1> QED
  BY <1>2, <1>10, <1>13, <1>18, <1>19, <1>20, RunningStack, SMTT(30)

(* A slot of z bytes at o in a frame of q bytes at d, and below it an array  *)
(* of e bytes: both are in memory, the array beside the slot.               *)
LEMMA ArrayBelow ==
    ASSUME NEW d \in Int, NEW o \in Int, NEW z \in Nat \ {0}, NEW e \in Nat, NEW l \in Int,
           NEW q \in Nat, l = o - e, 0 - q <= l, o + z <= -16, q <= d, d <= StackTop
    PROVE  /\ \A x \in d + o .. d + o + z - 1 : x \in Memory /\ d + l + e <= x
           /\ \A x \in Memory : x < d + l \/ d + o + z <= x => x < d + l \/ d + l + e <= x
           /\ d + l \in Int /\ d + l >= 0 /\ d + l + e <= StackTop
BY StackAssumption DEF Memory, StackAssumption

(* The array of a slot of the running activation is written.                *)
LEMMA ArrayWritten ==
    ASSUME LayoutInv, CallInv, StackInv, SmallFrames, Running, Len(calls) > 0,
           pc \in {"args", "body"}, pc' = pc, sp' = sp, fp' = fp,
           NEW i \in DOMAIN slots(Len(calls)), NEW c, 
           mem' = Write(mem, fp + base(slots(Len(calls))[i]), slots(Len(calls))[i].extra, c),
           calls' = [calls EXCEPT ![Len(calls)].elem[i] = c]
    PROVE  StackInv'
<1>1. Numbers /\ Current /\ Frames
  BY DEF StackInv
<1>2. PICK n \in Nat \ {0} : n = Len(calls)
  BY TopFits
<1>3. PICK f \in Funcs : f = top.func
  BY TopFits
<1>4. /\ n \in DOMAIN calls /\ DOMAIN calls = 1 .. n /\ calls[n] = top
      /\ slots(n) = offset_map[f] /\ compiled
      /\ DOMAIN top.val = DOMAIN offset_map[f] /\ DOMAIN top.elem = DOMAIN offset_map[f]
      /\ fs(n) = frame_size[f] /\ fs(n) \in Nat
  <2>1. n \in DOMAIN calls
    BY <1>2, TopFits
  <2> QED
    BY <1>2, <1>3, <2>1, AnyFits DEF fs, top
<1> DEFINE s == offset_map[f][i]
           a == top.sp
<1>5. i \in DOMAIN offset_map[f]
  BY <1>2, <1>4
<1>6. /\ s.off \in Int /\ size(s) \in Nat \ {0} /\ s.extra \in Nat
      /\ base(s) \in Int /\ base(s) = s.off - s.extra
      /\ 0 - fs(n) <= base(s) /\ base(s) <= s.off /\ s.off + size(s) <= -16
  BY <1>4, <1>5, SlotPlace
<1>7. a \in Int /\ a <= StackTop /\ fs(n) <= a /\ fp = a /\ DOMAIN mem = Memory
  BY <1>1, <1>4 DEF Numbers, Current, Frames
<1>8. /\ mem' = Write(mem, a + base(s), s.extra, c)
      /\ calls' = [calls EXCEPT ![Len(calls)].elem[i] = c]
  BY <1>2, <1>4, <1>7
<1>10. /\ Len(calls') = n /\ DOMAIN calls' = DOMAIN calls
       /\ \A k \in DOMAIN calls :
             /\ calls'[k].func = calls[k].func /\ calls'[k].sp = calls[k].sp
             /\ calls'[k].fp = calls[k].fp /\ calls'[k].ra = calls[k].ra
             /\ calls'[k].val = calls[k].val
             /\ \A j \in DOMAIN slots(k) : calls'[k].elem[j] =
                   IF k = n /\ j = i THEN c ELSE calls[k].elem[j]
  <2>1. i \in DOMAIN top.elem
    BY <1>4, <1>5
  <2>2. \A k \in DOMAIN calls : DOMAIN calls[k].elem = DOMAIN slots(k)
    BY AnyFits
  <2> QED
    BY <1>2, <1>8, <2>1, <2>2, ElemStored DEF CallInv
<1> HIDE DEF s, a
<1>11. PICK o \in Int, z \in Nat \ {0}, e \in Nat, l \in Int, q \in Nat, d \in Int :
           /\ o = s.off /\ z = size(s) /\ e = s.extra /\ l = base(s) /\ q = fs(n) /\ d = a
           /\ l = o - e /\ 0 - q <= l /\ o + z <= -16 /\ q <= d /\ d <= StackTop
  BY <1>4, <1>6, <1>7
<1>12. l = o - e /\ 0 - q <= l /\ o + z <= -16 /\ q <= d /\ d <= StackTop /\ StackTop \in Int
  BY <1>11, StackAssumption DEF StackAssumption
<1>14. FrameHeld(mem, n)
  <2>1. Entered(n)
    BY DEF Entered
  <2> QED
    BY <1>1, <1>4, <2>1 DEF Frames
<1>13. /\ DOMAIN mem' = Memory
       /\ \A x \in Memory : x < d + l \/ d + l + e <= x => mem'[x] = mem[x]
       /\ Holds(mem', d + l, e, c)
  <2>1. mem' = Write(mem, d + l, e, c)
    BY <1>8, <1>11
  <2>2. d + l \in Int /\ d + l >= 0 /\ d + l + e <= StackTop
    BY <1>12, ArrayBelow, SMTT(30)
  <2>3. /\ DOMAIN mem' = Memory /\ Holds(mem', d + l, e, c)
        /\ \A x \in Memory : x \notin d + l .. d + l + e - 1 => mem'[x] = mem[x]
    BY <1>7, <2>1, <2>2, Written, SMTT(30)
  <2>4. \A x \in Memory : x < d + l \/ d + l + e <= x
                             => x \notin d + l .. d + l + e - 1
    BY DEF Memory
  <2> QED
    BY <2>3, <2>4
<1>15. /\ SavedIn(mem', d, top.ra, top.fp)
       /\ \A j \in DOMAIN offset_map[f] \ {i} :
             SlotHeld(mem', f, d, j, top.val[j], top.elem[j])
       /\ \A x \in Memory : x >= d => mem'[x] = mem[x]
  <2>1. \A x \in Memory : x < d + l \/ d + o + z <= x => mem'[x] = mem[x]
    <3>1. \A x \in Memory : x < d + l \/ d + o + z <= x
                                => x < d + l \/ d + l + e <= x
      BY <1>12, ArrayBelow, SMTT(30)
    <3> QED
      BY <1>13, <3>1
  <2>2. \A x \in Memory : x < a + base(s) \/ a + s.off + size(s) <= x => mem'[x] = mem[x]
    BY <1>11, <2>1
  <2> QED
    BY <1>2, <1>3, <1>4, <1>11, <2>2, AroundSlot DEF a, s
<1>16. SlotHeld(mem, f, d, i, top.val[i], top.elem[i])
  BY <1>3, <1>4, <1>5, <1>11, <1>14 DEF FrameHeld, a
<1>17. SlotHeld(mem', f, d, i, calls'[n].val[i], calls'[n].elem[i])
  <2>1. calls'[n].elem[i] = c /\ calls'[n].val[i] = top.val[i]
    BY <1>4, <1>5, <1>10
  <2>2. /\ top.val[i] # None => Holds(mem, d + o, z, top.val[i])
        /\ top.val[i].what = "ptr" => top.val[i] = cell("ptr", d + base(s))
    BY <1>11, <1>16 DEF SlotHeld, s
  <2>3. \A x \in d + o .. d + o + z - 1 : x \in Memory /\ d + l + e <= x
    BY <1>12, ArrayBelow, SMTT(30)
  <2> HIDE DEF None
  <2>4. top.val[i] # None => Holds(mem', d + o, z, top.val[i])
    <3>1. \A x \in d + o .. d + o + z - 1 : mem'[x] = mem[x]
      BY <1>13, <2>3
    <3>2. d + o \in Int
      OBVIOUS
    <3> QED
      BY <2>2, <3>1, <3>2, HeldOn
  <2>5. top.val[i] # None => Holds(mem', d + s.off, size(s), top.val[i])
    BY <1>11, <2>4
  <2>6. Holds(mem', d + base(s), s.extra, c)
    BY <1>11, <1>13
  <2> QED
    BY <2>1, <2>2, <2>5, <2>6 DEF SlotHeld, s
<1>18. FrameHeld(mem, n)'
  <2>1. /\ calls'[n].func = f /\ calls'[n].sp = d /\ calls'[n].ra = top.ra
        /\ calls'[n].fp = top.fp /\ offset_map' = offset_map
        /\ slots(n)' = offset_map[f]
    BY <1>3, <1>4, <1>10, <1>11 DEF a, Running, layout_vars, slots
  <2>2. ASSUME NEW j \in DOMAIN offset_map[f]
        PROVE  SlotHeld(mem', f, d, j, calls'[n].val[j], calls'[n].elem[j])
    <3>1. CASE j = i
      BY <1>17, <3>1
    <3>2. CASE j # i
      <4>1. calls'[n].val[j] = top.val[j] /\ calls'[n].elem[j] = top.elem[j]
        BY <1>4, <1>10, <3>2
      <4> QED
        BY <1>15, <3>2, <4>1
    <3> QED
      BY <3>1, <3>2
  <2>3. ASSUME NEW j \in DOMAIN offset_map[f]
        PROVE  SlotHeld(mem, calls[n].func, calls[n].sp, j, calls[n].val[j], calls[n].elem[j])'
    BY <2>1, <2>2 DEF SlotHeld
  <2> QED
    BY <1>15, <2>1, <2>3 DEF FrameHeld
<1>19. \A x \in Memory : x >= top.sp => mem'[x] = mem[x]
  BY <1>11, <1>15 DEF a
<1>20. \A k \in 1 .. n - 1 : \A j \in DOMAIN slots(k) :
           calls'[k].val[j] = calls[k].val[j] /\ calls'[k].elem[j] = calls[k].elem[j]
  BY <1>4, <1>10
<1> QED
  BY <1>2, <1>10, <1>13, <1>18, <1>19, <1>20, RunningStack

LEMMA StoreArgStack ==
    ASSUME LayoutInv, CallInv, StackInv, SmallFrames, StoreArg
    PROVE  StackInv'
<1>1. pc = "args" /\ Len(calls) > 0 /\ arg <= nargs[top.func]
  BY DEF StoreArg, CallInv, Control
<1>2. arg \in DOMAIN slots(Len(calls))
  <2>1. arg \in 1 .. nargs[top.func] + 1
    BY <1>1 DEF CallInv, Counting, Counted
  <2> QED
    BY <1>1, <2>1, TopFits
<1>3. PICK v : StoreSlot(arg, cell("val", v))
  BY DEF StoreArg
<1>4. cell("val", v).what # "ptr"
  BY DEF cell
<1>5. pc' = pc /\ sp' = sp /\ fp' = fp /\ Running
  BY DEF StoreArg
<1> QED
  BY <1>1, <1>2, <1>3, <1>4, <1>5, SlotWritten

LEMMA BodyStack ==
    ASSUME LayoutInv, CallInv, StackInv, SmallFrames, NEW i, NEW v,
           Compute(i, v) \/ Alloca(i) \/ StoreThrough(i, v)
    PROVE  StackInv'
<1>1. /\ pc = "body" /\ pc' = pc /\ sp' = sp /\ fp' = fp /\ Running
      /\ Len(calls) > 0 /\ i \in DOMAIN slots(Len(calls))
  BY DEF Compute, Alloca, StoreThrough, CallInv, Control
<1>2. CASE Compute(i, v)
  <2>1. StoreSlot(i, cell("val", v))
    BY <1>2 DEF Compute
  <2>2. cell("val", v).what # "ptr"
    BY DEF cell
  <2> QED
    BY <1>1, <2>1, <2>2, SlotWritten
<1>3. CASE Alloca(i)
  <2>1. StoreSlot(i, cell("ptr", fp + base(slots(Len(calls))[i])))
    BY <1>3 DEF Alloca
  <2> QED
    BY <1>1, <2>1, SlotWritten
<1>4. CASE StoreThrough(i, v)
  <2> DEFINE s == slots(Len(calls))[i]
  <2>1. Load(mem, fp + s.off, size(s), "ptr") = fp + base(s)
    <3>1. Current /\ Frames /\ Numbers
      BY DEF StackInv
    <3>2. PICK f \in Funcs : f = top.func
      BY <1>1, TopFits
    <3>3. /\ Len(calls) \in DOMAIN calls /\ s = offset_map[f][i] /\ i \in DOMAIN offset_map[f]
          /\ calls[Len(calls)] = top /\ compiled
      <4>1. Len(calls) \in DOMAIN calls
        BY <1>1, TopFits
      <4> QED
        BY <1>1, <3>2, <4>1, AnyFits DEF top
    <3>4. FrameHeld(mem, Len(calls))
      <4>1. Entered(Len(calls))
        BY <1>1 DEF Entered
      <4> QED
        BY <3>1, <3>3, <4>1 DEF Frames
    <3>5. SlotHeld(mem, f, top.sp, i, top.val[i], top.elem[i])
      BY <1>1, <3>2, <3>3, <3>4 DEF FrameHeld
    <3>6. top.val[i].what = "ptr" /\ fp = top.sp
      BY <1>1, <1>4, <3>1 DEF StoreThrough, Current
    <3>7. top.val[i] # None
      BY <3>6 DEF None, Junk, cell
    <3>8. Holds(mem, fp + s.off, size(s), cell("ptr", fp + base(s)))
      BY <3>3, <3>5, <3>6, <3>7 DEF SlotHeld
    <3>9. fp + s.off \in Int /\ size(s) \in Nat \ {0}
      <4>1. s.off \in Int /\ size(s) \in Nat \ {0}
        BY <3>3, SlotPlace
      <4>2. fp \in Int
        BY <3>1, <3>3, <3>6 DEF Numbers
      <4> QED
        BY <4>1, <4>2
    <3> HIDE DEF s
    <3> QED
      BY <3>8, <3>9, Loaded
  <2>2. /\ mem' = Write(mem, fp + base(s), s.extra, cell("val", v))
        /\ calls' = [calls EXCEPT ![Len(calls)].elem[i] = cell("val", v)]
    BY <1>4, <2>1 DEF StoreThrough
  <2> QED
    BY <1>1, <2>2, ArrayWritten
<1> QED
  BY <1>2, <1>3, <1>4

(* A return.                                                                *)
LEMMA Returns ==
    ASSUME LayoutInv, CallInv, StackInv, SmallFrames, Epilogue
    PROVE  Returned
<1>1. Numbers /\ Current /\ Frames
  BY DEF StackInv
<1>2. pc = "body" /\ Len(calls) > 0
  BY SMTT(30) DEF Epilogue, CallInv, Control
<1>3. PICK n \in Nat \ {0} : n = Len(calls)
  BY <1>2, TopFits
<1>4. /\ n \in DOMAIN calls /\ calls[n] = top /\ fs(n) = frame_size[top.func]
      /\ fs(n) \in Nat /\ fs(n) >= 16 /\ top.func \in Funcs
  <2>1. n \in DOMAIN calls
    BY <1>2, <1>3, TopFits
  <2> QED
    BY <1>3, <2>1, AnyFits DEF fs, top
<1>5. fs(n) <= 2047
  BY <1>4 DEF SmallFrames, IMM_12_MAX
<1>6. IS_IMM_12(0 - frame_size[top.func])
  <2>1. PICK q \in Nat : q = fs(n)
    BY <1>4
  <2>2. q >= 16 /\ q <= 2047
    BY <1>4, <1>5, <2>1
  <2>3. 0 - q >= 0 - 2048 /\ 0 - q <= 2047 /\ 0 - q \in Int
    BY <2>2
  <2>4. IS_IMM_12(0 - q)
    BY <2>3 DEF IS_IMM_12, IMM_12_MAX, IMM_12_MIN
  <2> QED
    BY <1>4, <2>1, <2>4
<1>7. top.sp \in Int /\ fs(n) <= top.sp /\ sp = top.sp - fs(n)
  BY <1>1, <1>2, <1>3, <1>4 DEF Numbers, Current
<1>8. sp + frame_size[top.func] = top.sp /\ top.sp >= 16
  BY <1>4, <1>7
<1>9. SavedIn(mem, top.sp, top.ra, top.fp)
  <2>1. Entered(n)
    BY <1>2 DEF Entered
  <2> QED
    BY <1>1, <1>4, <2>1 DEF Frames, FrameHeld
<1>10. /\ Load(mem, top.sp - 8, 8, "ra") = top.ra
       /\ Load(mem, top.sp - 16, 8, "fp") = top.fp
  <2>1. top.sp - 8 \in Int /\ top.sp - 16 \in Int
    BY <1>7
  <2> QED
    BY <1>9, <2>1, Loaded DEF SavedIn
<1>11. sp' = top.sp
  BY <1>6, <1>8 DEF Epilogue
<1>12. fp' = top.fp /\ ra' = top.ra
  <2>1. ~ top.sp < 16 /\ ~ top.sp < 8
    BY <1>7, <1>8
  <2> QED
    BY <1>6, <1>8, <1>10, <2>1 DEF Epilogue, saved_fp
<1> QED
  BY <1>11, <1>12 DEF Returned

LEMMA EpilogueStack ==
    ASSUME LayoutInv, CallInv, StackInv, SmallFrames, Epilogue
    PROVE  StackInv'
<1>1. Numbers /\ Stacked /\ Linked /\ Current /\ Frames
  BY DEF StackInv
<1>2. Returned
  BY Returns
<1>3. PICK n \in Nat \ {0} : n = Len(calls)
  BY TopFits DEF Epilogue, CallInv, Control
<1>4. /\ pc = "body" /\ mem' = mem /\ Running
      /\ frame_size' = frame_size /\ offset_map' = offset_map
      /\ calls' = SubSeq(calls, 1, Len(calls) - 1)
      /\ pc' = IF ra' # n - 1 THEN "wild" ELSE IF ra' = 0 THEN "exit" ELSE "body"
  BY <1>3 DEF Epilogue, Running, layout_vars
<1>5. /\ DOMAIN calls = 1 .. n
      /\ Len(calls') = n - 1 /\ DOMAIN calls' = 1 .. n - 1
      /\ \A k \in 1 .. n - 1 : calls'[k] = calls[k]
  BY <1>3, <1>4, Popped DEF CallInv
<1>6. \A k \in 1 .. n - 1 : fs(k)' = fs(k) /\ fs(k) \in Nat
  BY <1>4, <1>5, AnyFits DEF fs
<1>7. n \in DOMAIN calls /\ calls[n] = top
  BY <1>3, <1>5 DEF top
<1>8. Numbers'
  <2>1. sp' \in Int /\ 0 <= sp' /\ sp' <= StackTop
    <3>1. fs(n) \in Nat
      BY <1>7, AnyFits
    <3> QED
      BY <1>1, <1>2, <1>7, <3>1 DEF Numbers, Returned
  <2> QED
    BY <1>1, <1>5, <1>6, <2>1 DEF Numbers
<1>9. Stacked'
  BY <1>1, <1>5, <1>6 DEF Stacked
<1>10. Linked'
  BY <1>1, <1>5, <1>6 DEF Linked
<1>11. ra' = n - 1
  BY <1>1, <1>2, <1>7 DEF Linked, Returned
<1>12. pc' = IF n = 1 THEN "exit" ELSE "body"
  BY <1>4, <1>11
<1>13. Current'
  <2>1. CASE n = 1
    BY <1>12, <2>1 DEF Current
  <2>2. CASE n > 1
    <3>1. top' = calls[n - 1] /\ fs(Len(calls))' = fs(n - 1)
      BY <1>5, <1>6, <2>2 DEF top, fs
    <3>2. top.sp = calls[n - 1].sp - fs(n - 1) /\ top.fp = calls[n - 1].sp
      BY <1>1, <1>7, <2>2 DEF Linked
    <3>3. pc' = "body"
      BY <1>12, <2>2
    <3> QED
      BY <1>2, <3>1, <3>2, <3>3 DEF Current, Returned
  <2> QED
    BY <2>1, <2>2
<1>14. Frames'
  <2>1. ASSUME NEW k \in DOMAIN calls'
        PROVE  Entered(k)' /\ FrameHeld(mem, k)'
    <3>1. /\ k \in DOMAIN calls /\ k < n /\ n > 1 /\ calls'[k] = calls[k]
          /\ calls[k].sp \in Int
      BY <1>1, <1>5 DEF Numbers
    <3>2. Entered(k)'
      BY <1>12, <3>1 DEF Entered
    <3>3. FrameHeld(mem, k)
      <4>1. Entered(k)
        BY <1>3, <3>1 DEF Entered
      <4> QED
        BY <1>1, <3>1, <4>1 DEF Frames
    <3> QED
      BY <1>4, <3>1, <3>2, <3>3, FrameKept
  <2> QED
    BY <1>1, <1>4, <2>1 DEF Frames
<1> QED
  BY <1>8, <1>9, <1>10, <1>13, <1>14 DEF StackInv

-----------------------------------------------------------------------------
LEMMA StackNext ==
    ASSUME LayoutInv, CallInv, StackInv, [Next]_vars
    PROVE  StackInv'
<1>1. CASE UNCHANGED vars
  <2>1. /\ calls' = calls /\ mem' = mem /\ sp' = sp /\ fp' = fp /\ pc' = pc
        /\ offset_map' = offset_map /\ frame_size' = frame_size
    BY <1>1 DEF vars, layout_vars
  <2>2. /\ (SmallFrames \/ pc = "start")' <=> (SmallFrames \/ pc = "start")
        /\ (Numbers /\ Stacked /\ Linked)' <=> (Numbers /\ Stacked /\ Linked)
    BY <2>1 DEF SmallFrames, Numbers, Stacked, Linked, fs
  <2>3. Current' <=> Current
    BY <2>1 DEF Current, top, fs
  <2>4. \A k : /\ Entered(k)' <=> Entered(k)
               /\ Untouched(k)' <=> Untouched(k)
               /\ FrameHeld(mem, k)' <=> FrameHeld(mem, k)
    BY <2>1 DEF Entered, Untouched, FrameHeld, SlotHeld, slots
  <2>5. Frames' <=> Frames
    BY <2>1, <2>4 DEF Frames
  <2> QED
    BY <2>2, <2>3, <2>5 DEF StackInv
<1>2. ASSUME NEW f \in Funcs, NEW t, NEW n,
             AllocateArg(f, t) \/ AllocateInstr(f, t, n) \/ AllocateEnd(f)
      PROVE  StackInv'
  BY <1>2, LayoutStack DEF AllocateArg, AllocateInstr, AllocateEnd, allocating
<1>3. CASE Running /\ SmallFrames /\ Next
  <2>1. ASSUME NEW g \in Funcs, NEW args \in Args, Call(g, args)
        PROVE  StackInv'
    BY <1>3, <2>1, CallStack
  <2>2. CASE PassArg \/ Prologue \/ StoreArg \/ PrologueEnd \/ ExternalCall \/ Epilogue
    BY <1>3, <2>2, PlainStack, PrologueStack, StoreArgStack, ExternalCallStack, EpilogueStack
  <2>3. ASSUME NEW i, NEW v, Compute(i, v) \/ Alloca(i) \/ StoreThrough(i, v)
        PROVE  StackInv'
    BY <1>3, <2>3, BodyStack
  <2> QED
    BY <1>2, <1>3, <2>1, <2>2, <2>3 DEF Next
<1>4. CASE Running /\ ~ SmallFrames
  <2>1. ~ SmallFrames'
    BY <1>4 DEF Running, layout_vars, SmallFrames
  <2>2. ASSUME NEW g \in Funcs, NEW args \in Args, Call(g, args)
        PROVE  pc' # "start"
    BY <2>2 DEF Call
  <2>3. CASE PassArg \/ Prologue \/ StoreArg \/ PrologueEnd \/ ExternalCall \/ Epilogue
    <3>1. CASE Epilogue
      <4>1. pc' \in {"wild", "exit", "body"}
        BY <3>1 DEF Epilogue
      <4> QED
        BY <2>1, <4>1 DEF StackInv
    <3>2. CASE PassArg \/ Prologue \/ StoreArg \/ PrologueEnd \/ ExternalCall
      <4>1. pc' # "start"
        BY <3>2 DEF PassArg, Prologue, StoreArg, PrologueEnd, ExternalCall
      <4> QED
        BY <2>1, <4>1 DEF StackInv
    <3> QED
      BY <2>3, <3>1, <3>2
  <2>4. ASSUME NEW i, NEW v, Compute(i, v) \/ Alloca(i) \/ StoreThrough(i, v)
        PROVE  pc' # "start"
    BY <2>4 DEF Compute, Alloca, StoreThrough
  <2>5. (\E g \in Funcs, args \in Args : Call(g, args)) => StackInv'
    BY <2>1, <2>2 DEF StackInv
  <2>6. ASSUME NEW i, NEW v, Compute(i, v) \/ Alloca(i) \/ StoreThrough(i, v)
        PROVE  StackInv'
    BY <2>1, <2>4, <2>6 DEF StackInv
  <2> QED
    BY <1>1, <1>2, <2>3, <2>5, <2>6 DEF Next
<1>5. Next => \/ Running
              \/ \E f \in Funcs, t \in ArgTypes : AllocateArg(f, t)
              \/ \E f \in Funcs, t \in Types, n \in AllocaSizes \cup {0} : AllocateInstr(f, t, n)
              \/ \E f \in Funcs : AllocateEnd(f)
  BY DEF Next, Call, PassArg, Prologue, StoreArg, PrologueEnd, Compute, Alloca, StoreThrough,
     ExternalCall, Epilogue
<1> QED
  BY <1>1, <1>2, <1>3, <1>4, <1>5

LEMMA StackInit ==
    ASSUME Init
    PROVE  StackInv
<1>1. calls = <<>> /\ DOMAIN calls = {} /\ pc = "start" /\ sp = StackTop /\ DOMAIN mem = Memory
  BY DEF Init, Memory
<1> QED
  BY <1>1, StackAssumption
  DEF StackInv, Numbers, Stacked, Linked, Current, Frames, StackAssumption

LEMMA StackIsIntact ==
    ASSUME LayoutInv, CallInv, StackInv
    PROVE  FramesIntact
<1> SUFFICES ASSUME SmallFrames, NEW k \in DOMAIN calls, NEW i \in DOMAIN slots(k)
             PROVE  LET s == slots(k)[i]
                        a == calls[k].sp
                    IN  /\ calls[k].val[i] # None =>
                              Holds(mem, a + s.off, size(s), calls[k].val[i])
                        /\ calls[k].elem[i] # None =>
                              Holds(mem, a + base(s), s.extra, calls[k].elem[i])
  BY DEF FramesIntact
<1>1. Frames /\ slots(k) = offset_map[calls[k].func]
  BY AnyFits DEF StackInv
<1>2. CASE Entered(k)
  <2>1. SlotHeld(mem, calls[k].func, calls[k].sp, i, calls[k].val[i], calls[k].elem[i])
    BY <1>1, <1>2 DEF Frames, FrameHeld
  <2> HIDE DEF None
  <2> QED
    BY <1>1, <2>1 DEF SlotHeld
<1>3. CASE ~ Entered(k)
  BY <1>1, <1>3 DEF Frames, Untouched
<1> QED
  BY <1>2, <1>3

LEMMA ReturnRestores ==
    ASSUME LayoutInv, CallInv, StackInv, [Next]_vars
    PROVE  [Len(calls') < Len(calls) /\ SmallFrames => Returned]_vars
<1> SUFFICES ASSUME Next, Len(calls') < Len(calls), SmallFrames
             PROVE  Returned
  BY DEF vars
<1>1. PICK A : calls \in Seq(Activations(A))
  BY DEF CallInv, CallsType
<1>2. Len(calls) \in Nat
  BY <1>1
<1>3. CASE Epilogue
  BY <1>3, Returns
<1>4. ASSUME NEW g \in Funcs, NEW args \in Args, Call(g, args)
      PROVE  FALSE
  <2>1. PICK r : calls' = Append(calls, r)
    BY <1>4 DEF Call
  <2>2. Len(calls') = Len(calls) + 1
    <3>1. calls \in Seq(Activations(A) \cup {r})
      BY <1>1, SeqGrows
    <3> QED
      BY <2>1, <3>1
  <2> QED
    BY <1>2, <2>2
<1>5. ASSUME NEW i \in DOMAIN slots(Len(calls)), NEW c, Len(calls) > 0, StoreSlot(i, c)
      PROVE  FALSE
  <2>1. i \in DOMAIN top.val
    BY <1>5, TopFits
  <2>2. Len(calls') = Len(calls)
    BY <1>5, <2>1, ValStored DEF StoreSlot, CallInv
  <2> QED
    BY <1>2, <2>2
<1>6. ~ (PassArg \/ Prologue \/ PrologueEnd \/ ExternalCall)
  BY <1>2 DEF PassArg, Prologue, PrologueEnd, ExternalCall
<1>7. ~ StoreArg
  <2> SUFFICES ASSUME StoreArg
               PROVE  FALSE
    OBVIOUS
  <2>1. pc = "args" /\ Len(calls) > 0 /\ arg <= nargs[top.func]
    BY DEF StoreArg, CallInv, Control
  <2>2. arg \in DOMAIN slots(Len(calls))
    <3>1. arg \in 1 .. nargs[top.func] + 1
      BY <2>1 DEF CallInv, Counting, Counted
    <3> QED
      BY <2>1, <3>1, TopFits
  <2> QED
    BY <1>5, <2>1, <2>2 DEF StoreArg
<1>8. ASSUME NEW i, NEW v, Compute(i, v) \/ Alloca(i) \/ StoreThrough(i, v)
      PROVE  FALSE
  <2>1. pc = "body" /\ Len(calls) > 0 /\ i \in DOMAIN slots(Len(calls))
    BY <1>8 DEF Compute, Alloca, StoreThrough, CallInv, Control
  <2>2. CASE Compute(i, v) \/ Alloca(i)
    BY <1>5, <2>1, <2>2 DEF Compute, Alloca
  <2>3. CASE StoreThrough(i, v)
    <3>1. i \in DOMAIN top.elem
      BY <2>1, TopFits
    <3>2. Len(calls') = Len(calls)
      BY <2>1, <2>3, <3>1, ElemStored DEF StoreThrough, CallInv
    <3> QED
      BY <1>2, <3>2
  <2> QED
    BY <1>8, <2>2, <2>3
<1>9. ASSUME NEW f, NEW t, NEW n, AllocateArg(f, t) \/ AllocateInstr(f, t, n) \/ AllocateEnd(f)
      PROVE  FALSE
  BY <1>2, <1>9 DEF AllocateArg, AllocateInstr, AllocateEnd, Layout
<1> QED
  BY <1>3, <1>4, <1>6, <1>7, <1>8, <1>9 DEF Next

(* FramesIntact: however calls nest, and whatever the functions compute and *)
(* store, every activation finds its results, arguments and arrays again,   *)
(* as long as gen_epilogue takes its short form.                            *)
THEOREM ActivationsKeep == Spec => []FramesIntact
<1>1. /\ LayoutInv /\ CallInv /\ StackInv /\ [Next]_vars
      => LayoutInv' /\ CallInv' /\ StackInv'
  BY LayoutNext, CallsNext, StackNext
<1> QED
  BY <1>1, LayoutInit, CallsInit, StackInit, StackIsIntact, PTL DEF Spec

(* SmallReturnsRestore: a return leaves sp, fp and ra as the call found     *)
(* them, so that control is back where the call was made.                   *)
THEOREM SmallFramesReturn == Spec => SmallReturnsRestore
<1>1. /\ LayoutInv /\ CallInv /\ StackInv /\ [Next]_vars
      => LayoutInv' /\ CallInv' /\ StackInv'
  BY LayoutNext, CallsNext, StackNext
<1>2. LayoutInv /\ CallInv /\ StackInv /\ [Next]_vars
      => [Len(calls') < Len(calls) /\ SmallFrames => Returned]_vars
  BY ReturnRestores
<1> QED
  BY <1>1, <1>2, LayoutInit, CallsInit, StackInit, PTL DEF Spec, SmallReturnsRestore
=============================================================================
