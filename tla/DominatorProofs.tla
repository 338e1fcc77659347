--------------------------- MODULE DominatorProofs ---------------------------
(***************************************************************************)
(* First the control flow graphs that CminusfBuilder emits: for every       *)
(* program, whatever the number of its functions and blocks and however     *)
(* deep its statements are nested.  Then the dominator analysis, for every  *)
(* such graph and every number of functions analysed before: the links      *)
(* climb in post order and never drop a dominator, and what they, the       *)
(* frontiers and the numbers of the tree say in the end is dominance.       *)
(***************************************************************************)
EXTENDS Analysis, FlowGraphProofs, SequenceTheorems

-----------------------------------------------------------------------------
(* Lists. *)

(* An element more at the end of a list. *)
LEMMA AppendSet ==
    ASSUME NEW S, NEW s \in Seq(S), NEW x \in S
    PROVE  /\ Append(s, x) \in Seq(S) /\ Append(s, x) # <<>>
           /\ ToSet(Append(s, x)) = ToSet(s) \cup {x}
           /\ IsInjective(s) /\ x \notin ToSet(s) => IsInjective(Append(s, x))
<1> DEFINE t == Append(s, x)
<1>1. PICK n \in Nat : n = Len(s)
  BY LenProperties
<1>2. /\ t \in Seq(S) /\ t # <<>> /\ DOMAIN s = 1 .. n /\ DOMAIN t = 1 .. n + 1
      /\ \A i \in 1 .. n : t[i] = s[i]
      /\ t[n + 1] = x
  BY <1>1, AppendProperties, LenProperties
<1> HIDE DEF t
<1>3. \A i \in 1 .. n + 1 : i \in 1 .. n \/ i = n + 1
  BY <1>1
<1>4. n + 1 \in 1 .. n + 1 /\ 1 .. n \subseteq 1 .. n + 1
  BY <1>1
<1>5. ToSet(t) = ToSet(s) \cup {x}
  BY <1>2, <1>3, <1>4 DEF ToSet
<1>6. ASSUME IsInjective(s), x \notin ToSet(s) PROVE IsInjective(t)
  <2>1. \A i \in 1 .. n : s[i] # x
    BY <1>2, <1>6 DEF ToSet
  <2> SUFFICES ASSUME NEW i \in 1 .. n + 1, NEW j \in 1 .. n + 1, t[i] = t[j]
               PROVE  i = j
    BY <1>2 DEF IsInjective
  <2>2. CASE i \in 1 .. n /\ j \in 1 .. n
    BY <1>2, <1>6, <2>2 DEF IsInjective
  <2> QED
    BY <1>2, <1>3, <2>1, <2>2
<1> QED
  BY <1>2, <1>5, <1>6 DEF t

(* The elements of two lists, one after the other. *)
LEMMA ConcatElements ==
    ASSUME NEW S, NEW s \in Seq(S), NEW t \in Seq(S)
    PROVE  s \o t \in Seq(S) /\ ToSet(s \o t) = ToSet(s) \cup ToSet(t)
<1>1. PICK n \in Nat, m \in Nat : n = Len(s) /\ m = Len(t)
  BY LenProperties
<1>2. PICK u : u = s \o t
  OBVIOUS
<1>3. /\ u \in Seq(S) /\ Len(u) = n + m
      /\ \A i \in 1 .. n + m : u[i] = IF i <= n THEN s[i] ELSE t[i - n]
  BY <1>1, <1>2, ConcatProperties
<1>4. DOMAIN u = 1 .. n + m /\ DOMAIN s = 1 .. n /\ DOMAIN t = 1 .. m
  BY <1>1, <1>3, LenProperties
<1>5. ASSUME NEW i \in 1 .. n + m
      PROVE  u[i] \in ToSet(s) \cup ToSet(t)
  <2>1. CASE i <= n
    <3>1. i \in 1 .. n
      BY <2>1, <1>1
    <3> QED
      BY <1>3, <1>4, <2>1, <3>1 DEF ToSet
  <2>2. CASE ~(i <= n)
    <3>1. i - n \in 1 .. m
      BY <2>2, <1>1
    <3>2. u[i] = t[i - n]
      BY <1>3, <2>2
    <3> QED
      BY <1>4, <3>1, <3>2 DEF ToSet
  <2> QED
    BY <2>1, <2>2
<1>6. ASSUME NEW i \in 1 .. n PROVE s[i] \in ToSet(u)
  <2>1. i \in 1 .. n + m /\ i <= n
    BY <1>1
  <2> QED
    BY <1>3, <1>4, <2>1 DEF ToSet
<1>7. ASSUME NEW i \in 1 .. m PROVE t[i] \in ToSet(u)
  <2>1. PICK j \in 1 .. n + m : j = n + i /\ ~(j <= n) /\ j - n = i
    BY <1>1
  <2>2. u[j] = t[j - n]
    BY <1>3, <2>1
  <2> QED
    BY <1>4, <2>1, <2>2 DEF ToSet
<1>8. ToSet(u) \subseteq ToSet(s) \cup ToSet(t)
  <2>1. ToSet(u) = {u[i] : i \in 1 .. n + m}
    BY <1>4 DEF ToSet
  <2> QED
    BY <2>1, <1>5
<1>9. ToSet(s) \subseteq ToSet(u)
  <2>1. ToSet(s) = {s[i] : i \in 1 .. n}
    BY <1>4 DEF ToSet
  <2> QED
    BY <2>1, <1>6
<1>10. ToSet(t) \subseteq ToSet(u)
  <2>1. ToSet(t) = {t[i] : i \in 1 .. m}
    BY <1>4 DEF ToSet
  <2> QED
    BY <2>1, <1>7
<1> QED
  BY <1>2, <1>3, <1>8, <1>9, <1>10

(* What follows the first element. *)
LEMMA ConcatTail ==
    ASSUME NEW S, NEW s \in Seq(S), NEW t \in Seq(S), s # <<>>
    PROVE  ToSet(Tail(s \o t)) = ToSet(Tail(s)) \cup ToSet(t)
<1>1. PICK n \in Nat, m \in Nat : n = Len(s) /\ m = Len(t) /\ n # 0
  BY LenProperties, EmptySeq
<1>2. PICK r \in Seq(S) : r = Tail(s)
  BY HeadTailProperties
<1>3. PICK u \in Seq(S) : u = s \o t /\ u # <<>>
  <2>1. s \o t \in Seq(S)
    BY ConcatElements
  <2>2. s \o t # <<>>
    BY ConcatEqualIffEmpty
  <2> QED
    BY <2>1, <2>2
<1>4. /\ Len(r) = n - 1
      /\ \A i \in 1 .. n - 1 : r[i] = s[i + 1]
  BY <1>1, <1>2, HeadTailProperties
<1>5. /\ Len(u) = n + m
      /\ \A i \in 1 .. n + m : u[i] = IF i <= n THEN s[i] ELSE t[i - n]
  BY <1>1, <1>3, ConcatProperties
<1>6. PICK v \in Seq(S) : v = Tail(u)
  BY <1>3, HeadTailProperties
<1>7. /\ Len(v) = n + m - 1
      /\ \A i \in 1 .. n + m - 1 : v[i] = u[i + 1]
  BY <1>3, <1>5, <1>6, HeadTailProperties
<1>8. PICK w \in Seq(S) : w = r \o t
  BY ConcatElements
<1>9. /\ Len(w) = n - 1 + m
      /\ \A i \in 1 .. n - 1 + m : w[i] = IF i <= n - 1 THEN r[i] ELSE t[i - (n - 1)]
  <2>0. n - 1 \in Nat
    BY <1>1
  <2>1. PICK k \in Nat : k = n - 1
    BY <2>0
  <2>2. Len(r) = k
    BY <1>4, <2>1
  <2>3. /\ Len(w) = k + m
        /\ \A i \in 1 .. k + m : w[i] = IF i <= k THEN r[i] ELSE t[i - k]
    BY <1>1, <1>8, <2>2, ConcatProperties
  <2> QED
    BY <2>1, <2>3
<1>10. ASSUME NEW i \in 1 .. n + m - 1
       PROVE  v[i] = w[i]
  <2>1. PICK j \in 1 .. n + m : j = i + 1
    BY <1>1
  <2>2. v[i] = u[j]
    BY <1>7, <2>1
  <2>3. CASE i <= n - 1
    <3>1. i \in 1 .. n - 1 /\ j <= n /\ i \in 1 .. n - 1 + m
      BY <2>1, <2>3, <1>1
    <3>2. u[j] = s[j]
      BY <1>5, <2>1, <3>1
    <3>3. w[i] = r[i]
      BY <1>9, <2>3, <3>1
    <3>4. r[i] = s[j]
      BY <1>4, <2>1, <3>1
    <3> QED
      BY <2>2, <3>2, <3>3, <3>4
  <2>4. CASE ~(i <= n - 1)
    <3>1. ~(j <= n) /\ j - n = i - (n - 1) /\ i \in 1 .. n - 1 + m
      BY <2>1, <2>4, <1>1
    <3>2. u[j] = t[j - n]
      BY <1>5, <2>1, <3>1
    <3>3. w[i] = t[i - (n - 1)]
      BY <1>9, <2>4, <3>1
    <3> QED
      BY <2>2, <3>1, <3>2, <3>3
  <2> QED
    BY <2>3, <2>4
<1>11. v = w
  <2>1. Len(v) = Len(w) /\ 1 .. Len(v) = 1 .. n + m - 1
    BY <1>1, <1>7, <1>9
  <2> QED
    BY <1>10, <2>1, SeqEqual
<1>12. ToSet(w) = ToSet(r) \cup ToSet(t)
  BY <1>8, ConcatElements
<1> QED
  BY <1>2, <1>3, <1>6, <1>11, <1>12

-----------------------------------------------------------------------------
(* The graph under construction. *)
GraphType ==
    [pre : [Blocks -> Seq(Blocks)], suc : [Blocks -> Seq(Blocks)],
     end : [Blocks -> {"none", "br", "ret"}]]

(* An edge is in both lists, once, ... *)
Mirrored(g) ==
    /\ \A a, b \in Blocks : a \in ToSet(g.pre[b]) <=> b \in ToSet(g.suc[a])
    /\ \A b \in Blocks : IsInjective(g.pre[b]) /\ IsInjective(g.suc[b])

(* ... and a block has edges if and only if it ends in a branch.            *)
GraphOK(g) ==
    /\ g \in GraphType /\ Mirrored(g)
    /\ \A b \in Blocks : g.end[b] = "br" <=> g.suc[b] # <<>>

(* What h has that g has not: the edges from a to the blocks of B. *)
Grown(h, g, a, B) ==
    \A x \in Blocks : ToSet(h.suc[x]) = IF x = a THEN ToSet(g.suc[x]) \cup B
                                                 ELSE ToSet(g.suc[x])

LEMMA LinkFacts ==
    ASSUME NEW g \in GraphType, Mirrored(g), NEW a \in Blocks, NEW b \in Blocks,
           b \notin ToSet(g.suc[a])
    PROVE  LET h == Link(g, a, b)
           IN  /\ h \in GraphType /\ Mirrored(h) /\ h.end = g.end
               /\ Grown(h, g, a, {b})
               /\ h.suc[a] # <<>> /\ \A x \in Blocks \ {a} : h.suc[x] = g.suc[x]
<1>1. /\ g.pre \in [Blocks -> Seq(Blocks)] /\ g.suc \in [Blocks -> Seq(Blocks)]
      /\ g.end \in [Blocks -> {"none", "br", "ret"}]
  BY DEF GraphType
<1>2. PICK s : s = Append(g.suc[a], b)
  OBVIOUS
<1>3. PICK p : p = Append(g.pre[b], a)
  OBVIOUS
<1>4. /\ s \in Seq(Blocks) /\ s # <<>> /\ ToSet(s) = ToSet(g.suc[a]) \cup {b} /\ IsInjective(s)
  <2>1. IsInjective(g.suc[a]) /\ g.suc[a] \in Seq(Blocks)
    BY <1>1 DEF Mirrored
  <2> QED
    BY <1>2, <2>1, AppendSet
<1>5. /\ p \in Seq(Blocks) /\ ToSet(p) = ToSet(g.pre[b]) \cup {a} /\ IsInjective(p)
  <2>1. IsInjective(g.pre[b]) /\ g.pre[b] \in Seq(Blocks) /\ a \notin ToSet(g.pre[b])
    BY <1>1 DEF Mirrored
  <2> QED
    BY <1>3, <2>1, AppendSet
<1>6. PICK h : h = Link(g, a, b)
  OBVIOUS
<1>7. /\ h \in GraphType
      /\ h.suc = [g.suc EXCEPT ![a] = s] /\ h.pre = [g.pre EXCEPT ![b] = p] /\ h.end = g.end
  <2>1. /\ h.suc = [g.suc EXCEPT ![a] = s] /\ h.pre = [g.pre EXCEPT ![b] = p] /\ h.end = g.end
        /\ h = [pre |-> h.pre, suc |-> h.suc, end |-> h.end]
    BY <1>2, <1>3, <1>6 DEF Link, GraphType
  <2>2. h.suc \in [Blocks -> Seq(Blocks)] /\ h.pre \in [Blocks -> Seq(Blocks)]
    BY <1>1, <1>4, <1>5, <2>1
  <2> QED
    BY <1>1, <2>1, <2>2 DEF GraphType
<1>8. /\ h.suc[a] = s /\ \A x \in Blocks \ {a} : h.suc[x] = g.suc[x]
      /\ h.pre[b] = p /\ \A x \in Blocks \ {b} : h.pre[x] = g.pre[x]
  BY <1>1, <1>7
<1>9. Grown(h, g, a, {b})
  BY <1>4, <1>8 DEF Grown
<1>10. Mirrored(h)
  <2>1. \A x, y \in Blocks : x \in ToSet(h.pre[y]) <=> y \in ToSet(h.suc[x])
    <3> SUFFICES ASSUME NEW x \in Blocks, NEW y \in Blocks
                 PROVE  x \in ToSet(h.pre[y]) <=> y \in ToSet(h.suc[x])
      OBVIOUS
    <3>1. x \in ToSet(g.pre[y]) <=> y \in ToSet(g.suc[x])
      BY DEF Mirrored
    <3>2. x \in ToSet(h.pre[y]) <=> x \in ToSet(g.pre[y]) \/ (y = b /\ x = a)
      BY <1>5, <1>8
    <3>3. y \in ToSet(h.suc[x]) <=> y \in ToSet(g.suc[x]) \/ (y = b /\ x = a)
      BY <1>4, <1>8
    <3> QED
      BY <3>1, <3>2, <3>3
  <2>2. \A x \in Blocks : IsInjective(h.pre[x]) /\ IsInjective(h.suc[x])
    BY <1>4, <1>5, <1>8 DEF Mirrored
  <2> QED
    BY <2>1, <2>2 DEF Mirrored
<1> QED
  BY <1>4, <1>6, <1>7, <1>8, <1>9, <1>10

(* The terminator of a block. *)
LEMMA EndFacts ==
    ASSUME NEW g \in GraphType, NEW a \in Blocks, NEW e \in {"none", "br", "ret"}
    PROVE  LET h == [g EXCEPT !.end[a] = e]
           IN  /\ h \in GraphType /\ h.suc = g.suc /\ h.pre = g.pre
               /\ h.end = [g.end EXCEPT ![a] = e]
               /\ Mirrored(g) => Mirrored(h)
<1>1. PICK h : h = [g EXCEPT !.end[a] = e]
  OBVIOUS
<1>2. /\ h.suc = g.suc /\ h.pre = g.pre /\ h.end = [g.end EXCEPT ![a] = e]
      /\ h = [pre |-> h.pre, suc |-> h.suc, end |-> h.end]
  BY <1>1 DEF GraphType
<1>3. h \in GraphType
  BY <1>2 DEF GraphType
<1>4. Mirrored(g) => Mirrored(h)
  BY <1>2 DEF Mirrored
<1> QED
  BY <1>1, <1>2, <1>3, <1>4

(* A block without a terminator has no edges.  A branch makes some, ...     *)
LEMMA CreateBr ==
    ASSUME NEW g, GraphOK(g), NEW a \in Blocks, NEW b \in Blocks, g.end[a] = "none"
    PROVE  LET h == create_br(g, a, b)
           IN  GraphOK(h) /\ h.end = [g.end EXCEPT ![a] = "br"] /\ Grown(h, g, a, {b})
<1>1. g \in GraphType /\ Mirrored(g) /\ g.suc[a] = <<>>
  BY DEF GraphOK
<1>2. b \notin ToSet(g.suc[a])
  BY <1>1 DEF ToSet
<1>3. PICK l : l = Link(g, a, b)
  OBVIOUS
<1>4. /\ l \in GraphType /\ Mirrored(l) /\ l.end = g.end
      /\ Grown(l, g, a, {b})
      /\ l.suc[a] # <<>> /\ \A x \in Blocks \ {a} : l.suc[x] = g.suc[x]
  BY <1>1, <1>2, <1>3, LinkFacts
<1>5. PICK h : h = [l EXCEPT !.end[a] = "br"]
  OBVIOUS
<1>6. /\ h \in GraphType /\ h.suc = l.suc /\ h.pre = l.pre
      /\ h.end = [l.end EXCEPT ![a] = "br"] /\ Mirrored(h)
  BY <1>4, <1>5, EndFacts
<1>7. h = create_br(g, a, b)
  BY <1>3, <1>5 DEF create_br
<1>8. g.end \in [Blocks -> {"none", "br", "ret"}]
  BY <1>1 DEF GraphType
<1>9. \A x \in Blocks : h.end[x] = "br" <=> h.suc[x] # <<>>
  BY <1>4, <1>6, <1>8 DEF GraphOK
<1>10. Grown(h, g, a, {b})
  BY <1>4, <1>6 DEF Grown
<1> QED
  BY <1>4, <1>6, <1>7, <1>9, <1>10 DEF GraphOK

LEMMA CreateCondBr ==
    ASSUME NEW g, GraphOK(g), NEW a \in Blocks, NEW b \in Blocks, NEW c \in Blocks, b # c,
           g.end[a] = "none"
    PROVE  LET h == create_cond_br(g, a, b, c)
           IN  GraphOK(h) /\ h.end = [g.end EXCEPT ![a] = "br"] /\ Grown(h, g, a, {b, c})
<1>1. g \in GraphType /\ Mirrored(g) /\ g.suc[a] = <<>>
  BY DEF GraphOK
<1>2. b \notin ToSet(g.suc[a])
  BY <1>1 DEF ToSet
<1>3. PICK l : l = Link(g, a, b)
  OBVIOUS
<1>4. /\ l \in GraphType /\ Mirrored(l) /\ l.end = g.end
      /\ Grown(l, g, a, {b})
      /\ l.suc[a] # <<>> /\ \A x \in Blocks \ {a} : l.suc[x] = g.suc[x]
  BY <1>1, <1>2, <1>3, LinkFacts, ZenonT(60)
<1>5. c \notin ToSet(l.suc[a])
  <2>1. ToSet(l.suc[a]) = ToSet(g.suc[a]) \cup {b}
    BY <1>4 DEF Grown
  <2>2. ToSet(g.suc[a]) = {}
    BY <1>1 DEF ToSet
  <2> QED
    BY <2>1, <2>2
<1>6. PICK m : m = Link(l, a, c)
  OBVIOUS
<1>7. /\ m \in GraphType /\ Mirrored(m) /\ m.end = l.end
      /\ Grown(m, l, a, {c})
      /\ m.suc[a] # <<>> /\ \A x \in Blocks \ {a} : m.suc[x] = l.suc[x]
  BY <1>4, <1>5, <1>6, LinkFacts
<1>8. PICK h : h = [m EXCEPT !.end[a] = "br"]
  OBVIOUS
<1>9. /\ h \in GraphType /\ h.suc = m.suc /\ h.pre = m.pre
      /\ h.end = [m.end EXCEPT ![a] = "br"] /\ Mirrored(h)
  BY <1>7, <1>8, EndFacts
<1>10. h = create_cond_br(g, a, b, c)
  BY <1>3, <1>6, <1>8 DEF create_cond_br
<1>11. g.end \in [Blocks -> {"none", "br", "ret"}]
  BY <1>1 DEF GraphType
<1>12. \A x \in Blocks : h.end[x] = "br" <=> h.suc[x] # <<>>
  BY <1>4, <1>7, <1>9, <1>11 DEF GraphOK
<1>13. Grown(h, g, a, {b, c})
  BY <1>4, <1>7, <1>9 DEF Grown
<1> QED
  BY <1>4, <1>7, <1>9, <1>10, <1>12, <1>13 DEF GraphOK

(* ... and a return makes none. *)
LEMMA CreateRet ==
    ASSUME NEW g, GraphOK(g), NEW a \in Blocks, g.end[a] = "none"
    PROVE  LET h == create_ret(g, a)
           IN  GraphOK(h) /\ h.end = [g.end EXCEPT ![a] = "ret"] /\ h.suc = g.suc
<1>1. g \in GraphType /\ Mirrored(g)
  BY DEF GraphOK
<1>2. PICK h : h = [g EXCEPT !.end[a] = "ret"]
  OBVIOUS
<1>3. /\ h \in GraphType /\ h.suc = g.suc /\ h.pre = g.pre
      /\ h.end = [g.end EXCEPT ![a] = "ret"] /\ Mirrored(h)
  BY <1>1, <1>2, EndFacts
<1>4. g.end \in [Blocks -> {"none", "br", "ret"}]
  BY <1>1 DEF GraphType
<1>5. \A x \in Blocks : h.end[x] = "br" <=> h.suc[x] # <<>>
  BY <1>3, <1>4 DEF GraphOK
<1> QED
  BY <1>2, <1>3, <1>5 DEF GraphOK, create_ret

(* What Emit does to the graph. *)
LEMMA EmitGraph ==
    ASSUME NEW g \in GraphType, Emit(g)
    PROVE  Graph' = g
BY DEF Emit, Graph, GraphType

-----------------------------------------------------------------------------
(* The blocks of the functions. *)
BlocksOf(f) == ToSet(basic_blocks[f])
Inner(f)    == ToSet(Tail(basic_blocks[f]))

(* Blocks are numbered as they are created, and belong to one function.     *)
NumInv ==
    /\ basic_blocks \in [Funcs -> Seq(Blocks)]
    /\ fresh \in Nat /\ fresh <= MaxBlocks /\ Created = 1 .. fresh
    /\ \A f, g \in Funcs : f # g => BlocksOf(f) \cap BlocksOf(g) = {}

(* What is true of the graph whatever the visitor does.                     *)
Core ==
    /\ NumInv /\ built \in 0 .. MaxFuncs
    /\ GraphOK(Graph)
    /\ \A f \in Funcs : \A b \in BlocksOf(f) : ToSet(succ_bbs[b]) \subseteq Inner(f)
    /\ \A b \in Blocks : b \notin Created => ~is_terminated(b)
    /\ \A f \in Funcs : f <= built => \A b \in BlocksOf(f) : is_terminated(b)

(* A number of new blocks for the function f. *)
GrownBy(f, new) ==
    /\ Created \cap new = {}
    /\ NumInv'
    /\ Created' = Created \cup new
    /\ BlocksOf(f)' = BlocksOf(f) \cup new
    /\ basic_blocks[f] # <<>> => basic_blocks'[f] # <<>> /\ Inner(f)' = Inner(f) \cup new
    /\ basic_blocks[f] # <<>> => basic_blocks'[f][1] = basic_blocks[f][1]
    /\ \A h \in Funcs \ {f} : basic_blocks'[h] = basic_blocks[h]

LEMMA CreatedBlocks ==
    ASSUME NumInv
    PROVE  /\ Created \subseteq Blocks
           /\ \A f \in Funcs : BlocksOf(f) \subseteq Created
           /\ \A f \in Funcs : \A b \in BlocksOf(f) : basic_blocks[f] # <<>>
           /\ \A f \in Funcs : basic_blocks[f] # <<>> => Inner(f) \subseteq BlocksOf(f)
<1>1. \A f \in Funcs : basic_blocks[f] \in Seq(Blocks)
  BY DEF NumInv
<1>2. \A f \in Funcs : BlocksOf(f) \subseteq Created
  BY DEF BlocksOf, Created
<1>3. Created \subseteq Blocks
  BY BuilderAssumption DEF NumInv, Blocks, BuilderAssumption
<1>4. \A f \in Funcs : \A b \in BlocksOf(f) : basic_blocks[f] # <<>>
  BY DEF BlocksOf, ToSet
<1>5. ASSUME NEW f \in Funcs, basic_blocks[f] # <<>>
      PROVE  Inner(f) \subseteq BlocksOf(f)
  <2>1. PICK s \in Seq(Blocks) : s = basic_blocks[f]
    BY <1>1
  <2>2. PICK n \in Nat : n = Len(s) /\ DOMAIN s = 1 .. n
    BY LenProperties
  <2>3. PICK r \in Seq(Blocks) : r = Tail(s)
    BY <1>5, <2>1, HeadTailProperties
  <2>4. Len(r) = n - 1 /\ \A i \in 1 .. n - 1 : r[i] = s[i + 1]
    BY <1>5, <2>1, <2>2, <2>3, HeadTailProperties
  <2>5. DOMAIN r = 1 .. n - 1
    BY <2>4, LenProperties
  <2>6. \A i \in 1 .. n - 1 : i + 1 \in 1 .. n
    BY <2>2
  <2>7. \A i \in DOMAIN r : r[i] \in ToSet(s)
    BY <2>2, <2>4, <2>5, <2>6 DEF ToSet
  <2>8. ToSet(r) \subseteq ToSet(s)
    BY <2>7 DEF ToSet
  <2> QED
    BY <2>1, <2>3, <2>8 DEF Inner, BlocksOf
<1> QED
  BY <1>2, <1>3, <1>4, <1>5

LEMMA CreatedBlocksNext ==
    (NumInv => Created \subseteq Blocks /\ \A f \in Funcs : BlocksOf(f) \subseteq Created)'
<1>1. NumInv => Created \subseteq Blocks /\ \A f \in Funcs : BlocksOf(f) \subseteq Created
  BY CreatedBlocks
<1> QED
  BY <1>1, PTL

(* The blocks that BasicBlock::create makes are new. *)
LEMMA CreateFacts ==
    ASSUME NumInv, NEW n \in Nat, Create(n), NEW f \in Funcs, f = current_func
    PROVE  GrownBy(f, (fresh + 1) .. (fresh + n))
<1>1. PICK k \in Nat : k = fresh
  BY DEF NumInv
<1>2. k + n <= MaxBlocks /\ Created = 1 .. k
  BY <1>1 DEF Create, Room, NumInv
<1> DEFINE new == (k + 1) .. (k + n)
<1>3. PICK t : t = [i \in 1 .. n |-> k + i]
  OBVIOUS
<1>4. PICK s \in Seq(Blocks) : s = basic_blocks[f]
  BY DEF NumInv
<1>5. basic_blocks' = [basic_blocks EXCEPT ![f] = s \o t]
  BY <1>1, <1>3, <1>4 DEF Create
<1>6. t \in Seq(Blocks) /\ ToSet(t) = new
  <2>1. \A i \in 1 .. n : k + i \in Blocks
    BY <1>2, BuilderAssumption DEF Blocks, BuilderAssumption
  <2>2. t \in [1 .. n -> Blocks]
    BY <1>3, <2>1
  <2>3. t \in Seq(Blocks)
    BY <2>2
  <2>4. DOMAIN t = 1 .. n /\ \A i \in 1 .. n : t[i] = k + i
    BY <1>3
  <2>5. \A j \in new : \E i \in 1 .. n : j = k + i
    <3> SUFFICES ASSUME NEW j \in new PROVE \E i \in 1 .. n : j = k + i
      OBVIOUS
    <3>1. j - k \in 1 .. n /\ j = k + (j - k)
      OBVIOUS
    <3> QED
      BY <3>1
  <2>6. \A i \in 1 .. n : k + i \in new
    OBVIOUS
  <2> HIDE DEF new
  <2>7. ToSet(t) = new
    BY <2>4, <2>5, <2>6, ZenonT(40) DEF ToSet
  <2> QED
    BY <2>3, <2>7
<1>7. new \subseteq Blocks /\ Created \cap new = {} /\ Created \cup new = 1 .. k + n
  BY <1>2, BuilderAssumption DEF Blocks, BuilderAssumption
<1>8. new = (fresh + 1) .. (fresh + n)
  BY <1>1
<1> HIDE DEF new
<1>9. /\ s \o t \in Seq(Blocks) /\ ToSet(s \o t) = ToSet(s) \cup new
      /\ s # <<>> => s \o t # <<>> /\ ToSet(Tail(s \o t)) = ToSet(Tail(s)) \cup new
  BY <1>6, ConcatElements, ConcatTail, ConcatEqualIffEmpty
<1>10. s # <<>> => (s \o t)[1] = s[1]
  <2> SUFFICES ASSUME s # <<>> PROVE (s \o t)[1] = s[1]
    OBVIOUS
  <2>1. Len(s) \in Nat \ {0} /\ Len(t) \in Nat
    BY <1>6, EmptySeq, LenProperties
  <2>2. 1 \in 1 .. Len(s) + Len(t) /\ 1 <= Len(s)
    BY <2>1
  <2> QED
    BY <1>6, <2>2, ConcatProperties
<1>11. /\ basic_blocks \in [Funcs -> Seq(Blocks)]
       /\ basic_blocks' \in [Funcs -> Seq(Blocks)]
       /\ basic_blocks'[f] = s \o t
       /\ \A h \in Funcs \ {f} : basic_blocks'[h] = basic_blocks[h]
  BY <1>5, <1>9 DEF NumInv
<1>12. /\ BlocksOf(f)' = BlocksOf(f) \cup new
       /\ \A h \in Funcs \ {f} : BlocksOf(h)' = BlocksOf(h)
       /\ basic_blocks[f] # <<>> => basic_blocks'[f] # <<>> /\ Inner(f)' = Inner(f) \cup new
  BY <1>4, <1>9, <1>11 DEF BlocksOf, Inner
<1>13. Created' = Created \cup new
  <2>1. Created = UNION {BlocksOf(h) : h \in Funcs}
    BY DEF Created, BlocksOf
  <2>2. Created' = UNION {BlocksOf(h)' : h \in Funcs}
    BY DEF Created, BlocksOf
  <2>3. \A b : b \in Created' <=> b \in Created \/ b \in new
    BY <1>12, <2>1, <2>2
  <2> QED
    BY <2>3
<1>14. fresh' = k + n
  <2>1. Created' = 1 .. k + n
    BY <1>7, <1>13
  <2>2. Cardinality(1 .. k + n) = IF 1 > k + n THEN 0 ELSE (k + n) - 1 + 1
    BY FS_Interval
  <2>3. fresh' = Cardinality(Created')
    BY DEF fresh
  <2> QED
    BY <2>1, <2>2, <2>3
<1>15. \A g, h \in Funcs : g # h => BlocksOf(g)' \cap BlocksOf(h)' = {}
  <2>1. /\ \A h \in Funcs : BlocksOf(h) \subseteq Created
        /\ \A g, h \in Funcs : g # h => BlocksOf(g) \cap BlocksOf(h) = {}
    BY CreatedBlocks DEF NumInv
  <2> SUFFICES ASSUME NEW g \in Funcs, NEW h \in Funcs, g # h
               PROVE  BlocksOf(g)' \cap BlocksOf(h)' = {}
    OBVIOUS
  <2>2. BlocksOf(g) \cap BlocksOf(h) = {}
    BY <2>1
  <2>3. CASE g = f
    <3>1. BlocksOf(g)' = BlocksOf(g) \cup new /\ BlocksOf(h)' = BlocksOf(h)
      BY <1>12, <2>3
    <3> QED
      BY <1>7, <2>1, <2>2, <3>1
  <2>4. CASE h = f
    <3>1. BlocksOf(h)' = BlocksOf(h) \cup new /\ BlocksOf(g)' = BlocksOf(g)
      BY <1>12, <2>4
    <3> QED
      BY <1>7, <2>1, <2>2, <3>1
  <2>5. CASE g # f /\ h # f
    BY <1>12, <2>2, <2>5
  <2> QED
    BY <2>3, <2>4, <2>5
<1>16. NumInv'
  <2>1. k + n \in Nat
    OBVIOUS
  <2> QED
    BY <1>2, <1>7, <1>11, <1>13, <1>14, <1>15, <2>1 DEF NumInv
<1> QED
  BY <1>4, <1>7, <1>8, <1>11, <1>12, <1>13, <1>16, <1>10 DEF GrownBy

LEMMA NothingCreated ==
    ASSUME NumInv, UNCHANGED basic_blocks, NEW f \in Funcs
    PROVE  GrownBy(f, {})
BY DEF GrownBy, NumInv, Created, BlocksOf, Inner, fresh

-----------------------------------------------------------------------------
(* Edges from a to the blocks of B, terminators for the blocks of E.        *)
GraphStep(a, B, E) ==
    /\ GraphOK(Graph)' /\ Grown(Graph', Graph, a, B)
    /\ \A x \in Blocks \ E : terminator'[x] = terminator[x]
    /\ \A x \in E : terminator'[x] # "none"

(* One step of the visitor in the body of the function f, with new blocks.  *)
BodyStep(f, new, a, B, E) ==
    /\ f \in Funcs /\ f = current_func /\ built' = built
    /\ basic_blocks[f] # <<>>
    /\ GrownBy(f, new)
    /\ a \in BlocksOf(f)' /\ B \subseteq Inner(f)'
    /\ E \subseteq BlocksOf(f)'
    /\ GraphStep(a, B, E)

LEMMA CoreStep ==
    ASSUME Core, NEW f, NEW new, NEW a, NEW B, NEW E, BodyStep(f, new, a, B, E)
    PROVE  Core' /\ \A x \in Blocks : is_terminated(x)' <=> is_terminated(x) \/ x \in E
<1>1. /\ f \in Funcs /\ f = built + 1 /\ built' = built /\ basic_blocks[f] # <<>>
      /\ Created \cap new = {}
      /\ NumInv'
      /\ Created' = Created \cup new
      /\ BlocksOf(f)' = BlocksOf(f) \cup new
      /\ Inner(f)' = Inner(f) \cup new
      /\ \A h \in Funcs \ {f} : basic_blocks'[h] = basic_blocks[h]
  BY DEF BodyStep, GrownBy, current_func
<1>2. \A h \in Funcs \ {f} : BlocksOf(h)' = BlocksOf(h) /\ Inner(h)' = Inner(h)
  BY <1>1 DEF BlocksOf, Inner
<1>3. /\ Created \subseteq Blocks /\ Created' \subseteq Blocks
      /\ \A h \in Funcs : BlocksOf(h) \subseteq Created /\ BlocksOf(h)' \subseteq Created'
  <2>1. NumInv /\ NumInv'
    BY <1>1 DEF Core
  <2>2. (Created \subseteq Blocks /\ \A h \in Funcs : BlocksOf(h) \subseteq Created)'
    BY <2>1, CreatedBlocksNext
  <2> QED
    BY <2>1, <2>2, CreatedBlocks
<1>4. \A x \in Blocks : ToSet(succ_bbs'[x]) = IF x = a THEN ToSet(succ_bbs[x]) \cup B
                                                      ELSE ToSet(succ_bbs[x])
  BY DEF BodyStep, GraphStep, Grown, Graph
<1>5. \A x \in Blocks : is_terminated(x)' <=> is_terminated(x) \/ x \in E
  BY DEF BodyStep, GraphStep, is_terminated
<1>6. a \in BlocksOf(f)' /\ B \subseteq Inner(f)' /\ E \subseteq BlocksOf(f)'
  BY DEF BodyStep
<1>7. \A x \in Blocks : x \notin Created => ToSet(succ_bbs[x]) = {}
  <2> SUFFICES ASSUME NEW x \in Blocks, x \notin Created
               PROVE  ToSet(succ_bbs[x]) = {}
    OBVIOUS
  <2>1. terminator[x] = "none"
    BY DEF Core, is_terminated
  <2>2. succ_bbs[x] = <<>>
    BY <2>1 DEF Core, GraphOK, Graph
  <2> QED
    BY <2>2 DEF ToSet
<1>8. ASSUME NEW h \in Funcs, NEW b \in BlocksOf(h)'
      PROVE  ToSet(succ_bbs'[b]) \subseteq Inner(h)'
  <2>1. b \in Blocks
    BY <1>3
  <2>2. CASE h = f
    <3>1. ToSet(succ_bbs[b]) \subseteq Inner(f)'
      <4>1. CASE b \in BlocksOf(f)
        BY <1>1, <4>1 DEF Core
      <4>2. CASE b \notin BlocksOf(f)
        BY <1>1, <1>7, <2>1, <2>2, <4>2
      <4> QED
        BY <4>1, <4>2
    <3> QED
      BY <1>4, <1>6, <2>1, <2>2, <3>1
  <2>3. CASE h # f
    <3>1. b \in BlocksOf(h) /\ Inner(h)' = Inner(h)
      BY <1>2, <2>3
    <3>2. b # a
      BY <1>1, <1>6, <2>3 DEF NumInv
    <3>3. ToSet(succ_bbs[b]) \subseteq Inner(h)
      BY <3>1 DEF Core
    <3> QED
      BY <1>4, <2>1, <3>1, <3>2, <3>3
  <2> QED
    BY <2>2, <2>3
<1>9. \A b \in Blocks : b \notin Created' => ~is_terminated(b)'
  BY <1>1, <1>3, <1>5, <1>6 DEF Core
<1>10. ASSUME NEW h \in Funcs, h <= built', NEW b \in BlocksOf(h)'
       PROVE  is_terminated(b)'
  <2>1. h # f /\ h <= built
    BY <1>1, <1>10 DEF Funcs, Core
  <2>2. b \in BlocksOf(h) /\ b \in Blocks
    BY <1>2, <1>3, <2>1
  <2> QED
    BY <1>5, <2>1, <2>2 DEF Core
<1>11. GraphOK(Graph)' /\ built' \in 0 .. MaxFuncs
  BY DEF BodyStep, GraphStep, Core
<1> QED
  BY <1>1, <1>5, <1>8, <1>9, <1>10, <1>11 DEF Core

-----------------------------------------------------------------------------
(* The statements that are being visited, and the blocks they still want to *)
(* fill.                                                                    *)
Pends(v)    == {v.next} \cup IF v.kind = "if" /\ v.phase = "then" THEN {v.back} ELSE {}
Pending(vs) == UNION {Pends(vs[i]) : i \in DOMAIN vs}

(* A frame that is the first one, or the last one, and whose blocks are in  *)
(* the set S.                                                               *)
FrameOK(v, first, top, S) ==
    /\ v \in Frames
    /\ v.kind = "fun" <=> first
    /\ v.kind = "fun" => v.phase = "body" /\ v.next = NoBlock
    /\ v.kind = "if" => v.phase \in {"then", "else"} /\ (v.back = NoBlock \/ v.back \in S)
    /\ v.kind = "while" => v.phase \in {"cond", "body"} /\ v.back \in S
    /\ v.phase = "cond" => top /\ v.next = NoBlock
    /\ v.kind # "fun" /\ v.phase # "cond" => v.next \in S

(* A stack of such frames. *)
FramesOK(vs, S) ==
    /\ vs \in Seq(Frames)
    /\ \A i \in DOMAIN vs : FrameOK(vs[i], i = 1, i = Len(vs), S)

LEMMA FramesGrow ==
    ASSUME NEW vs, NEW S, FramesOK(vs, S), NEW T, S \subseteq T
    PROVE  FramesOK(vs, T)
BY DEF FramesOK, FrameOK

(* A statement inside of the one on top. *)
LEMMA FramesEnter ==
    ASSUME NEW vs, NEW S, FramesOK(vs, S), vs # <<>> => vs[Len(vs)].phase # "cond",
           NEW v, IF vs = <<>> THEN FrameOK(v, TRUE, TRUE, S) ELSE FrameOK(v, FALSE, TRUE, S)
    PROVE  /\ FramesOK(Append(vs, v), S)
           /\ Append(vs, v) # <<>> /\ Append(vs, v)[Len(Append(vs, v))] = v
           /\ Pending(Append(vs, v)) = Pending(vs) \cup Pends(v)
<1>1. PICK n \in Nat : n = Len(vs) /\ DOMAIN vs = 1 .. n /\ (vs = <<>> <=> n = 0)
  BY LenProperties, EmptySeq DEF FramesOK
<1>2. PICK t : t = Append(vs, v)
  OBVIOUS
<1>3. v \in Frames /\ FrameOK(v, vs = <<>>, TRUE, S)
  BY DEF FrameOK
<1>4. /\ t \in Seq(Frames) /\ t # <<>> /\ Len(t) = n + 1
      /\ \A i \in 1 .. n : t[i] = vs[i]
      /\ t[n + 1] = v
  BY <1>1, <1>2, <1>3, AppendProperties DEF FramesOK
<1>5. DOMAIN t = 1 .. n + 1
  BY <1>1, <1>4, LenProperties
<1>6. ASSUME NEW i \in 1 .. n + 1
      PROVE  FrameOK(t[i], i = 1, i = Len(t), S)
  <2>1. CASE i \in 1 .. n
    <3>1. FrameOK(vs[i], i = 1, i = n, S) /\ t[i] = vs[i]
      BY <1>1, <1>4, <2>1 DEF FramesOK
    <3>2. vs[i].phase # "cond"
      <4>1. CASE i = n
        BY <1>1, <4>1, <2>1
      <4>2. CASE i # n
        BY <3>1, <4>2 DEF FrameOK
      <4> QED
        BY <4>1, <4>2
    <3> QED
      BY <3>1, <3>2 DEF FrameOK
  <2>2. CASE i \notin 1 .. n
    <3>1. i = n + 1 /\ (i = 1 <=> vs = <<>>)
      BY <1>1, <2>2
    <3>2. t[i] = v /\ i = Len(t)
      BY <1>4, <3>1
    <3> QED
      BY <1>3, <3>1, <3>2 DEF FrameOK
  <2> QED
    BY <2>1, <2>2
<1>7. FramesOK(t, S)
  BY <1>4, <1>5, <1>6 DEF FramesOK
<1>8. \A i \in 1 .. n + 1 : i \in 1 .. n \/ i = n + 1
  BY <1>1
<1>9. n + 1 \in 1 .. n + 1 /\ 1 .. n \subseteq 1 .. n + 1
  BY <1>1
<1>10. Pending(t) = Pending(vs) \cup Pends(v)
  <2>1. \A x : x \in Pending(t) <=> \E i \in 1 .. n + 1 : x \in Pends(t[i])
    BY <1>5 DEF Pending
  <2>2. \A x : x \in Pending(vs) <=> \E i \in 1 .. n : x \in Pends(vs[i])
    BY <1>1 DEF Pending
  <2>3. (\A i \in 1 .. n : Pends(t[i]) = Pends(vs[i])) /\ Pends(t[n + 1]) = Pends(v)
    BY <1>4
  <2> QED
    BY <1>8, <1>9, <2>1, <2>2, <2>3
<1> QED
  BY <1>2, <1>4, <1>7, <1>10

(* The statement on top is done. *)
LEMMA FramesReturn ==
    ASSUME NEW vs, NEW S, FramesOK(vs, S), vs # <<>>
    PROVE  /\ FramesOK(Front(vs), S)
           /\ vs[Len(vs)].kind = "fun" <=> Front(vs) = <<>>
           /\ Front(vs) # <<>> => Front(vs)[Len(Front(vs))].phase # "cond"
           /\ Pending(vs) = Pending(Front(vs)) \cup Pends(vs[Len(vs)])
<1>1. vs \in Seq(Frames) /\ Len(vs) # 0
  BY EmptySeq DEF FramesOK
<1>2. Len(vs) \in Nat /\ Len(vs) - 1 \in Nat
  BY <1>1, LenProperties
<1>3. PICK n \in Nat : n = Len(vs) - 1
  BY <1>2
<1>4. Len(vs) = n + 1 /\ DOMAIN vs = 1 .. n + 1
  BY <1>1, <1>2, <1>3, LenProperties
<1>5. PICK t : t = Front(vs)
  OBVIOUS
<1>6. /\ t \in Seq(Frames) /\ Len(t) = n /\ DOMAIN t = 1 .. n
      /\ \A i \in 1 .. n : t[i] = vs[i]
  <2>1. \A i \in 1 .. n : vs[i] \in Frames /\ 1 + i - 1 = i /\ n - 1 + 1 = n
    BY <1>1, <1>4, ElementOfSeq
  <2>2. t = SubSeq(vs, 1, n)
    BY <1>3, <1>5 DEF Front
  <2>3. /\ t \in Seq(Frames) /\ Len(t) = IF 1 <= n THEN n - 1 + 1 ELSE 0
        /\ \A i \in 1 .. n - 1 + 1 : t[i] = vs[1 + i - 1]
    BY <2>1, <2>2, SubSeqProperties
  <2>4. Len(t) = n /\ \A i \in 1 .. n : t[i] = vs[i]
    BY <2>1, <2>3
  <2> QED
    BY <2>3, <2>4, LenProperties
<1>7. t = <<>> <=> n = 0
  BY <1>6, EmptySeq
<1>8. (\A i \in 1 .. n + 1 : i \in 1 .. n \/ i = n + 1) /\ n + 1 \in 1 .. n + 1
      /\ \A i \in 1 .. n : i \in 1 .. n + 1 /\ i # n + 1
  BY <1>3
<1>9. \A i \in 1 .. n + 1 : FrameOK(vs[i], i = 1, i = n + 1, S)
  BY <1>4 DEF FramesOK
<1>10. \A i \in 1 .. n : FrameOK(t[i], i = 1, FALSE, S)
  BY <1>6, <1>8, <1>9 DEF FrameOK
<1>11. FramesOK(t, S)
  BY <1>6, <1>10 DEF FramesOK, FrameOK
<1>12. vs[n + 1].kind = "fun" <=> t = <<>>
  <2>1. FrameOK(vs[n + 1], n + 1 = 1, TRUE, S)
    BY <1>8, <1>9
  <2> QED
    BY <1>7, <2>1 DEF FrameOK
<1>13. t # <<>> => t[n].phase # "cond"
  <2>1. n # 0 => n \in 1 .. n
    OBVIOUS
  <2> QED
    BY <1>7, <1>10, <2>1 DEF FrameOK
<1>14. Pending(vs) = Pending(t) \cup Pends(vs[n + 1])
  <2>1. \A x : x \in Pending(vs) <=> \E i \in 1 .. n + 1 : x \in Pends(vs[i])
    BY <1>4 DEF Pending
  <2>2. \A x : x \in Pending(t) <=> \E i \in 1 .. n : x \in Pends(t[i])
    BY <1>6 DEF Pending
  <2>3. \A i \in 1 .. n : Pends(t[i]) = Pends(vs[i])
    BY <1>6
  <2> QED
    BY <1>8, <2>1, <2>2, <2>3
<1> QED
  BY <1>4, <1>5, <1>6, <1>11, <1>12, <1>13, <1>14

(* The statement on top goes on to its next part. *)
LEMMA FramesChange ==
    ASSUME NEW vs, NEW S, FramesOK(vs, S), vs # <<>>, NEW v,
           FrameOK(v, FALSE, TRUE, S), vs[Len(vs)].kind # "fun",
           NEW t, t = [vs EXCEPT ![Len(vs)] = v]
    PROVE  /\ FramesOK(t, S) /\ t # <<>> /\ t[Len(t)] = v
           /\ Pending(vs) \subseteq Pending(t) \cup Pends(vs[Len(vs)])
           /\ Pends(v) \subseteq Pending(t)
<1>1. vs \in Seq(Frames) /\ Len(vs) \in Nat \ {0}
  BY EmptySeq, LenProperties DEF FramesOK
<1>2. PICK n \in Nat \ {0} : n = Len(vs)
  BY <1>1
<1>3. DOMAIN vs = 1 .. n /\ n \in 1 .. n
  BY <1>1, <1>2, LenProperties
<1>4. v \in Frames
  BY DEF FrameOK
<1>5. t = [vs EXCEPT ![n] = v]
  BY <1>2
<1>6. /\ t \in Seq(Frames) /\ Len(t) = n
      /\ \A j \in 1 .. n : t[j] = IF j = n THEN v ELSE vs[j]
  BY <1>1, <1>2, <1>3, <1>4, <1>5, ExceptSeq
<1>7. DOMAIN t = 1 .. n /\ t # <<>>
  BY <1>6, LenProperties, EmptySeq
<1>8. n # 1
  BY <1>2, <1>3 DEF FramesOK, FrameOK
<1>9. \A i \in 1 .. n : FrameOK(t[i], i = 1, i = n, S)
  <2> SUFFICES ASSUME NEW i \in 1 .. n
               PROVE  FrameOK(t[i], i = 1, i = n, S)
    OBVIOUS
  <2>1. CASE i = n
    BY <1>6, <1>8, <2>1 DEF FrameOK
  <2>2. CASE i # n
    BY <1>2, <1>3, <1>6, <2>2 DEF FramesOK
  <2> QED
    BY <2>1, <2>2
<1>10. FramesOK(t, S)
  BY <1>6, <1>7, <1>9 DEF FramesOK
<1>11. Pending(vs) \subseteq Pending(t) \cup Pends(vs[n])
  <2>1. \A x : x \in Pending(vs) <=> \E i \in 1 .. n : x \in Pends(vs[i])
    BY <1>3 DEF Pending
  <2>2. \A x : x \in Pending(t) <=> \E i \in 1 .. n : x \in Pends(t[i])
    BY <1>7 DEF Pending
  <2>3. \A i \in 1 .. n : i # n => Pends(t[i]) = Pends(vs[i])
    BY <1>6
  <2> QED
    BY <2>1, <2>2, <2>3
<1>12. t[n] = v /\ Pends(v) \subseteq Pending(t)
  BY <1>3, <1>6, <1>7 DEF Pending
<1> QED
  BY <1>2, <1>5, <1>6, <1>7, <1>10, <1>11, <1>12

-----------------------------------------------------------------------------
(* The steps of the graph. *)
LEMMA StepBr ==
    ASSUME GraphOK(Graph), NEW a \in Blocks, NEW b \in Blocks, ~is_terminated(a),
           Emit(create_br(Graph, a, b))
    PROVE  GraphStep(a, {b}, {a})
<1>1. Graph.end = terminator /\ Graph.end[a] = "none"
  BY DEF is_terminated, Graph
<1>2. PICK h : h = create_br(Graph, a, b)
  OBVIOUS
<1>3. GraphOK(h) /\ h.end = [Graph.end EXCEPT ![a] = "br"] /\ Grown(h, Graph, a, {b})
  BY <1>1, <1>2, CreateBr
<1>4. Graph' = h /\ terminator' = h.end
  BY <1>2, <1>3, EmitGraph DEF Emit, GraphOK
<1>5. terminator \in [Blocks -> {"none", "br", "ret"}]
  BY <1>1 DEF GraphOK, GraphType
<1>6. GraphOK(Graph)'
  BY <1>3, <1>4
<1> QED
  BY <1>1, <1>3, <1>4, <1>5, <1>6 DEF GraphStep

LEMMA StepCondBr ==
    ASSUME GraphOK(Graph), NEW a \in Blocks, NEW b \in Blocks, NEW c \in Blocks, b # c,
           ~is_terminated(a), Emit(create_cond_br(Graph, a, b, c))
    PROVE  GraphStep(a, {b, c}, {a})
<1>1. PICK g : g = Graph /\ GraphOK(g) /\ g.end = terminator /\ g.end[a] = "none"
  BY DEF is_terminated, Graph
<1>2. PICK h : h = create_cond_br(g, a, b, c)
  OBVIOUS
<1>3. GraphOK(h) /\ h.end = [g.end EXCEPT ![a] = "br"] /\ Grown(h, g, a, {b, c})
  BY <1>1, <1>2, CreateCondBr
<1>4. Graph' = h /\ terminator' = h.end
  BY <1>1, <1>2, <1>3, EmitGraph DEF Emit, GraphOK
<1>5. terminator \in [Blocks -> {"none", "br", "ret"}]
  BY <1>1 DEF GraphOK, GraphType
<1>6. GraphOK(Graph)'
  BY <1>3, <1>4
<1> QED
  BY <1>1, <1>3, <1>4, <1>5, <1>6 DEF GraphStep

LEMMA StepRet ==
    ASSUME GraphOK(Graph), NEW a \in Blocks, ~is_terminated(a), Emit(create_ret(Graph, a))
    PROVE  GraphStep(a, {}, {a})
<1>1. Graph.end = terminator /\ Graph.end[a] = "none"
  BY DEF is_terminated, Graph
<1>2. PICK h : h = create_ret(Graph, a)
  OBVIOUS
<1>3. GraphOK(h) /\ h.end = [Graph.end EXCEPT ![a] = "ret"] /\ h.suc = Graph.suc
  BY <1>1, <1>2, CreateRet
<1>4. Graph' = h /\ terminator' = h.end
  BY <1>2, <1>3, EmitGraph DEF Emit, GraphOK
<1>5. terminator \in [Blocks -> {"none", "br", "ret"}]
  BY <1>1 DEF GraphOK, GraphType
<1>6. GraphOK(Graph)'
  BY <1>3, <1>4
<1> QED
  BY <1>1, <1>3, <1>4, <1>5, <1>6 DEF GraphStep, Grown

(* A branch whose first target is a block that returns. *)
LEMMA StepExcept ==
    ASSUME GraphOK(Graph), NEW a \in Blocks, NEW b \in Blocks, NEW c \in Blocks, b # c, a # b,
           ~is_terminated(a), ~is_terminated(b),
           Emit(create_ret(create_cond_br(Graph, a, b, c), b))
    PROVE  GraphStep(a, {b, c}, {a, b})
<1>1. Graph.end = terminator /\ Graph.end[a] = "none" /\ Graph.end[b] = "none"
  BY DEF is_terminated, Graph
<1>2. PICK g : g = create_cond_br(Graph, a, b, c)
  OBVIOUS
<1>3. GraphOK(g) /\ g.end = [Graph.end EXCEPT ![a] = "br"] /\ Grown(g, Graph, a, {b, c})
  BY <1>1, <1>2, CreateCondBr
<1>4. terminator \in [Blocks -> {"none", "br", "ret"}]
  BY <1>1 DEF GraphOK, GraphType
<1>5. g.end[b] = "none"
  BY <1>1, <1>3, <1>4
<1>6. PICK h : h = create_ret(g, b)
  OBVIOUS
<1>7. GraphOK(h) /\ h.end = [g.end EXCEPT ![b] = "ret"] /\ h.suc = g.suc
  BY <1>3, <1>5, <1>6, CreateRet
<1>8. Graph' = h /\ terminator' = h.end
  BY <1>2, <1>6, <1>7, EmitGraph DEF Emit, GraphOK
<1>9. GraphOK(Graph)'
  BY <1>7, <1>8
<1>10. Grown(h, Graph, a, {b, c})
  BY <1>3, <1>7 DEF Grown
<1>11. \A x \in Blocks \ {a, b} : terminator'[x] = terminator[x]
  BY <1>1, <1>3, <1>4, <1>7, <1>8
<1>12. terminator'[a] # "none" /\ terminator'[b] # "none"
  BY <1>1, <1>3, <1>4, <1>7, <1>8
<1> QED
  BY <1>8, <1>9, <1>10, <1>11, <1>12 DEF GraphStep

LEMMA StepNone ==
    ASSUME GraphOK(Graph), NEW a, UNCHANGED <<succ_bbs, pre_bbs, terminator>>
    PROVE  GraphStep(a, {}, {})
<1>1. Graph' = Graph
  BY DEF Graph
<1>2. GraphOK(Graph)'
  BY <1>1
<1> QED
  BY <1>1, <1>2 DEF GraphStep, Grown

(* Falling through adds an edge unless the block is terminated.             *)
LEMMA StepFall ==
    ASSUME GraphOK(Graph), insert_block \in Blocks, NEW b \in Blocks,
           Emit(fall_through(Graph, b))
    PROVE  \E B \in SUBSET {b}, E \in SUBSET {insert_block} :
              GraphStep(insert_block, B, E) /\ (is_terminated(insert_block) \/ insert_block \in E)
<1>1. CASE is_terminated(insert_block)
  <2>1. Emit(Graph)
    BY <1>1 DEF fall_through
  <2>2. UNCHANGED <<succ_bbs, pre_bbs, terminator>>
    BY <2>1 DEF Emit, Graph
  <2>3. GraphStep(insert_block, {}, {})
    BY <2>2, StepNone
  <2> QED
    BY <1>1, <2>3
<1>2. CASE ~is_terminated(insert_block)
  <2>1. Emit(create_br(Graph, insert_block, b))
    BY <1>2 DEF fall_through
  <2>2. GraphStep(insert_block, {b}, {insert_block})
    BY <1>2, <2>1, StepBr
  <2> QED
    BY <2>2
<1> QED
  BY <1>1, <1>2

-----------------------------------------------------------------------------
(* The visitor.  It writes in a block of its function; whatever block it    *)
(* leaves open, it will come back to.                                       *)
VisitInv ==
    /\ insert_block \in Blocks \cup {NoBlock}
    /\ FramesOK(visiting, Inner(current_func))
    /\ \A f \in Funcs : f > built /\ (visiting = <<>> \/ f # current_func)
                            => basic_blocks[f] = <<>>
    /\ visiting # <<>> =>
          /\ current_func \in Funcs
          /\ insert_block \in BlocksOf(current_func)
          /\ Top.phase = "cond" => ~is_terminated(insert_block)
          /\ \A b \in BlocksOf(current_func) :
                is_terminated(b) \/ b = insert_block \/ b \in Pending(visiting)

BuilderInv == Core /\ VisitInv

(* A step in the body of a function. *)
LEMMA VisitStep ==
    ASSUME BuilderInv, visiting # <<>>,
           NEW f, NEW new, NEW a, NEW B, NEW E, BodyStep(f, new, a, B, E),
           insert_block' \in BlocksOf(f)',
           visiting' # <<>>, FramesOK(visiting', Inner(f)'),
           Top'.phase = "cond" => ~is_terminated(insert_block)',
           \A b \in ({insert_block} \cup Pending(visiting) \cup new) \cap Blocks :
              \/ is_terminated(b) \/ b \in E
              \/ b = insert_block' \/ b \in Pending(visiting')
    PROVE  BuilderInv'
<1>1. Core' /\ \A x \in Blocks : is_terminated(x)' <=> is_terminated(x) \/ x \in E
  BY CoreStep DEF BuilderInv
<1>2. /\ f \in Funcs /\ f = current_func /\ built' = built /\ current_func' = f
      /\ BlocksOf(f)' = BlocksOf(f) \cup new
      /\ \A h \in Funcs \ {f} : basic_blocks'[h] = basic_blocks[h]
  BY DEF BodyStep, GrownBy, current_func
<1>3. BlocksOf(f)' \subseteq Blocks
  <2>1. NumInv'
    BY <1>1 DEF Core
  <2>2. (Created \subseteq Blocks /\ \A h \in Funcs : BlocksOf(h) \subseteq Created)'
    BY <2>1, CreatedBlocksNext
  <2> QED
    BY <1>2, <2>2
<1>4. \A h \in Funcs : h > built' /\ (visiting' = <<>> \/ h # current_func')
                          => basic_blocks'[h] = <<>>
  BY <1>2 DEF BuilderInv, VisitInv
<1>5. ASSUME NEW b \in BlocksOf(f)'
      PROVE  is_terminated(b)' \/ b = insert_block' \/ b \in Pending(visiting')
  <2>1. b \in new \/ is_terminated(b) \/ b = insert_block \/ b \in Pending(visiting)
    BY <1>2 DEF BuilderInv, VisitInv
  <2>2. b \in Blocks
    BY <1>3
  <2>3. is_terminated(b) \/ b \in E \/ b = insert_block' \/ b \in Pending(visiting')
    BY <2>1, <2>2
  <2> QED
    BY <1>1, <2>2, <2>3
<1>6. insert_block' \in Blocks
  BY <1>3
<1>7. VisitInv'
  <2>1. FramesOK(visiting', Inner(current_func)')
    <3>1. Inner(current_func)' = Inner(f)'
      BY <1>2 DEF Inner
    <3> QED
      BY <3>1
  <2>2. BlocksOf(current_func)' = BlocksOf(f)'
    BY <1>2 DEF BlocksOf
  <2>3. /\ current_func' \in Funcs
        /\ insert_block' \in BlocksOf(current_func)'
        /\ Top'.phase = "cond" => ~is_terminated(insert_block)'
        /\ \A b \in BlocksOf(current_func)' :
              is_terminated(b)' \/ b = insert_block' \/ b \in Pending(visiting')
    BY <1>2, <1>5, <2>2
  <2>4. Pending(visiting)' = Pending(visiting')
    BY DEF Pending
  <2>5. FramesOK(visiting, Inner(current_func))'
    BY <2>1
  <2> QED
    BY <1>4, <1>6, <2>3, <2>4, <2>5 DEF VisitInv
<1> QED
  BY <1>1, <1>7 DEF BuilderInv

(* What is known in the body of a function. *)
LEMMA InBody ==
    ASSUME BuilderInv, visiting # <<>>
    PROVE  \E f \in Funcs :
              /\ f = current_func /\ basic_blocks[f] # <<>>
              /\ insert_block \in BlocksOf(f) /\ insert_block \in Blocks
              /\ Inner(f) \subseteq BlocksOf(f) /\ BlocksOf(f) \subseteq Created
              /\ Created \subseteq Blocks
              /\ NumInv /\ GraphOK(Graph)
              /\ FramesOK(visiting, Inner(f))
              /\ FrameOK(Top, Len(visiting) = 1, TRUE, Inner(f))
<1>1. PICK f \in Funcs : f = current_func
  BY DEF BuilderInv, VisitInv
<1>2. insert_block \in BlocksOf(f) /\ FramesOK(visiting, Inner(f)) /\ NumInv /\ GraphOK(Graph)
  BY <1>1 DEF BuilderInv, VisitInv, Core
<1>3. /\ Created \subseteq Blocks /\ BlocksOf(f) \subseteq Created
      /\ basic_blocks[f] # <<>> /\ Inner(f) \subseteq BlocksOf(f)
  BY <1>2, CreatedBlocks
<1>4. FrameOK(Top, Len(visiting) = 1, TRUE, Inner(f))
  <2>1. visiting \in Seq(Frames) /\ Len(visiting) \in Nat \ {0}
    BY <1>2, EmptySeq, LenProperties DEF FramesOK
  <2>2. PICK n \in Nat \ {0} : n = Len(visiting) /\ DOMAIN visiting = 1 .. n /\ n \in 1 .. n
    BY <2>1, LenProperties
  <2>3. FrameOK(visiting[n], n = 1, n = Len(visiting), Inner(f))
    BY <1>2, <2>2 DEF FramesOK
  <2> QED
    BY <2>2, <2>3 DEF Top, FrameOK
<1> QED
  BY <1>1, <1>2, <1>3, <1>4

-----------------------------------------------------------------------------
(* The blocks that a statement makes are empty. *)
LEMMA NewBlocks ==
    ASSUME BuilderInv, visiting # <<>>, NEW n \in Nat, Create(n),
           NEW f \in Funcs, f = current_func
    PROVE  LET new == (fresh + 1) .. (fresh + n)
           IN  /\ GrownBy(f, new) /\ new \subseteq Blocks
               /\ \A x \in new : ~is_terminated(x) /\ x # insert_block
               /\ BlocksOf(f)' = BlocksOf(f) \cup new /\ Inner(f)' = Inner(f) \cup new
<1>1. /\ basic_blocks[f] # <<>> /\ insert_block \in Created
      /\ NumInv /\ insert_block \in BlocksOf(f)
  BY InBody
<1>2. PICK new : new = (fresh + 1) .. (fresh + n)
  OBVIOUS
<1>3. GrownBy(f, new)
  BY <1>1, <1>2, CreateFacts
<1>4. /\ NumInv' /\ Created \cap new = {} /\ Created' = Created \cup new
      /\ BlocksOf(f)' = BlocksOf(f) \cup new /\ Inner(f)' = Inner(f) \cup new
  BY <1>1, <1>3 DEF GrownBy
<1>5. new \subseteq Blocks
  <2>1. Created' \subseteq Blocks
    BY <1>4, CreatedBlocksNext
  <2> QED
    BY <1>4, <2>1
<1>6. \A x \in new : ~is_terminated(x) /\ x # insert_block
  BY <1>1, <1>4, <1>5 DEF BuilderInv, Core
<1> QED
  BY <1>2, <1>3, <1>4, <1>5, <1>6

(* A return statement ends the block. *)
LEMMA ReturnInv ==
    ASSUME BuilderInv, ReturnStmt
    PROVE  BuilderInv'
<1>1. /\ visiting # <<>> /\ Top.phase # "cond" /\ ~is_terminated(insert_block)
      /\ Emit(create_ret(Graph, insert_block))
      /\ UNCHANGED <<basic_blocks, insert_block, visiting, built>>
  BY DEF ReturnStmt, NextStatement
<1>2. PICK f \in Funcs :
         /\ f = current_func /\ basic_blocks[f] # <<>>
         /\ insert_block \in BlocksOf(f) /\ insert_block \in Blocks
         /\ NumInv /\ GraphOK(Graph) /\ FramesOK(visiting, Inner(f))
  BY <1>1, InBody
<1>3. GraphStep(insert_block, {}, {insert_block})
  BY <1>1, <1>2, StepRet
<1>4. BlocksOf(f)' = BlocksOf(f) /\ Inner(f)' = Inner(f) /\ Top' = Top
  BY <1>1 DEF BlocksOf, Inner, Top
<1>5. BodyStep(f, {}, insert_block, {}, {insert_block})
  BY <1>1, <1>2, <1>3, <1>4, NothingCreated DEF BodyStep
<1> QED
  BY <1>1, <1>2, <1>4, <1>5, VisitStep

(* The block that a negative index leads to returns, the visitor goes on in *)
(* the other one.                                                           *)
LEMMA IndexedVarInv ==
    ASSUME BuilderInv, IndexedVar
    PROVE  BuilderInv'
<1>1. PICK k : k = fresh
  OBVIOUS
<1>2. /\ visiting # <<>> /\ ~is_terminated(insert_block)
      /\ Create(2)
      /\ Emit(create_ret(create_cond_br(Graph, insert_block, k + 1, k + 2), k + 1))
      /\ insert_block' = k + 2
      /\ UNCHANGED <<visiting, built>>
  BY <1>1 DEF IndexedVar, NextExpression, NextStatement, BuilderInv, VisitInv
<1>3. PICK f \in Funcs :
         /\ f = current_func /\ basic_blocks[f] # <<>>
         /\ insert_block \in BlocksOf(f) /\ insert_block \in Blocks
         /\ Inner(f) \subseteq BlocksOf(f) /\ BlocksOf(f) \subseteq Created
         /\ NumInv /\ GraphOK(Graph) /\ FramesOK(visiting, Inner(f))
  BY <1>2, InBody
<1>4. PICK x, c : x = k + 1 /\ c = k + 2
  OBVIOUS
<1>5. k \in Nat /\ Created = 1 .. k
  BY <1>1, <1>3 DEF NumInv
<1>6. (k + 1) .. (k + 2) = {x, c} /\ x # c
  BY <1>4, <1>5
<1>8. /\ GrownBy(f, {x, c}) /\ x \in Blocks /\ c \in Blocks
      /\ BlocksOf(f)' = BlocksOf(f) \cup {x, c} /\ Inner(f)' = Inner(f) \cup {x, c}
      /\ ~is_terminated(x) /\ ~is_terminated(c) /\ insert_block # x /\ insert_block # c
  <2>1. (fresh + 1) .. (fresh + 2) = {x, c}
    BY <1>1, <1>6
  <2> QED
    BY <1>2, <1>3, <2>1, NewBlocks
<1>10. GraphStep(insert_block, {x, c}, {insert_block, x})
  <2>1. Emit(create_ret(create_cond_br(Graph, insert_block, x, c), x))
    BY <1>2, <1>4
  <2> QED
    BY <1>2, <1>3, <1>6, <1>8, <2>1, StepExcept
<1>11. BodyStep(f, {x, c}, insert_block, {x, c}, {insert_block, x})
  BY <1>2, <1>3, <1>8, <1>10 DEF BodyStep
<1>12. FramesOK(visiting', Inner(f)')
  BY <1>2, <1>3, <1>8, FramesGrow
<1>13. ~is_terminated(insert_block)'
  <2>1. is_terminated(c)' <=> is_terminated(c) \/ c \in {insert_block, x}
    BY <1>8, <1>11, CoreStep DEF BuilderInv
  <2>2. ~is_terminated(c)'
    BY <1>6, <1>8, <2>1
  <2> QED
    BY <1>2, <1>4, <2>2 DEF is_terminated
<1> QED
  BY <1>2, <1>4, <1>8, <1>11, <1>12, <1>13, VisitStep

(* An if statement: the visitor fills the first block, and its frame knows  *)
(* the others.                                                              *)
LEMMA SelectionInv ==
    ASSUME BuilderInv, NEW has_else \in BOOLEAN, SelectionStmt(has_else)
    PROVE  BuilderInv'
<1>1. PICK k : k = fresh
  OBVIOUS
<1>2. PICK n, x, y, c :
         /\ n = IF has_else THEN 3 ELSE 2
         /\ x = k + 1
         /\ y = IF has_else THEN k + 2 ELSE NoBlock
         /\ c = IF has_else THEN k + 3 ELSE k + 2
  OBVIOUS
<1>3. PICK v : v = [kind |-> "if", phase |-> "then", back |-> y, next |-> c]
  OBVIOUS
<1>4. /\ visiting # <<>> /\ Top.phase # "cond" /\ ~is_terminated(insert_block)
      /\ Create(n)
      /\ Emit(create_cond_br(Graph, insert_block, x, IF has_else THEN y ELSE c))
      /\ insert_block' = x
      /\ visiting' = Append(visiting, v)
      /\ built' = built
  BY <1>1, <1>2, <1>3 DEF SelectionStmt, NextStatement, Enter
<1>5. PICK f \in Funcs :
         /\ f = current_func /\ basic_blocks[f] # <<>>
         /\ insert_block \in BlocksOf(f) /\ insert_block \in Blocks
         /\ NumInv /\ GraphOK(Graph) /\ FramesOK(visiting, Inner(f))
  BY <1>4, InBody
<1>6. k \in Nat
  BY <1>1, <1>5 DEF NumInv
<1>7. PICK new : new = (k + 1) .. (k + n)
  OBVIOUS
<1>8. /\ x \in new /\ c \in new /\ x # c
      /\ has_else => y \in new /\ y # x /\ new = {x, y, c}
      /\ ~has_else => y = NoBlock /\ new = {x, c}
  <2>1. (k + 1) .. (k + 3) = {k + 1, k + 2, k + 3} /\ (k + 1) .. (k + 2) = {k + 1, k + 2}
    BY <1>6
  <2>2. k + 1 # k + 2 /\ k + 1 # k + 3
    BY <1>6
  <2>3. CASE has_else
    <3>1. n = 3 /\ x = k + 1 /\ y = k + 2 /\ c = k + 3
      BY <1>2, <2>3
    <3>2. new = {x, y, c}
      BY <1>7, <2>1, <3>1
    <3> QED
      BY <2>2, <2>3, <3>1, <3>2
  <2>4. CASE ~has_else
    <3>1. n = 2 /\ x = k + 1 /\ y = NoBlock /\ c = k + 2
      BY <1>2, <2>4
    <3>2. new = {x, c}
      BY <1>7, <2>1, <3>1
    <3> QED
      BY <2>2, <2>4, <3>1, <3>2
  <2> QED
    BY <2>3, <2>4
<1>9. /\ GrownBy(f, new) /\ new \subseteq Blocks
      /\ \A z \in new : ~is_terminated(z) /\ z # insert_block
      /\ BlocksOf(f)' = BlocksOf(f) \cup new /\ Inner(f)' = Inner(f) \cup new
  <2>1. n \in Nat
    BY <1>2
  <2> QED
    BY <1>1, <1>4, <1>5, <1>7, <2>1, NewBlocks
<1>10. PICK e : e = IF has_else THEN y ELSE c
  OBVIOUS
<1>11. e \in new /\ x # e
  BY <1>8, <1>10
<1>12. GraphStep(insert_block, {x, e}, {insert_block})
  <2>1. Emit(create_cond_br(Graph, insert_block, x, e))
    BY <1>4, <1>10
  <2>2. x \in Blocks /\ e \in Blocks
    BY <1>8, <1>9, <1>11
  <2> QED
    BY <1>4, <1>5, <1>11, <2>1, <2>2, StepCondBr
<1>13. BodyStep(f, new, insert_block, {x, e}, {insert_block})
  BY <1>4, <1>5, <1>8, <1>9, <1>11, <1>12 DEF BodyStep
<1>14. FramesOK(visiting, Inner(f)')
  BY <1>5, <1>9, FramesGrow
<1>15. FrameOK(v, FALSE, TRUE, Inner(f)')
  <2>1. y \in Blocks \cup {NoBlock} /\ (y = NoBlock \/ y \in new) /\ c \in Blocks
    BY <1>8, <1>9
  <2>2. v \in Frames
    BY <1>3, <2>1 DEF Frames
  <2> QED
    BY <1>3, <1>8, <1>9, <2>1, <2>2 DEF FrameOK
<1>16. PICK t : t = Append(visiting, v)
  OBVIOUS
<1>17. /\ FramesOK(t, Inner(f)') /\ t # <<>> /\ t[Len(t)] = v
       /\ Pending(t) = Pending(visiting) \cup Pends(v)
  <2>1. visiting[Len(visiting)].phase # "cond" /\ visiting # <<>>
    BY <1>4 DEF Top
  <2> QED
    BY <1>14, <1>15, <1>16, <2>1, FramesEnter
<1>18. Top' = v /\ visiting' = t
  BY <1>4, <1>16, <1>17 DEF Top
<1>19. Top'.phase = "then" /\ (has_else => y \in Pends(v)) /\ c \in Pends(v)
  BY <1>3, <1>18 DEF Pends
<1> QED
  BY <1>4, <1>8, <1>9, <1>13, <1>17, <1>18, <1>19, VisitStep

(* The block under the insertion point ends in a branch to b, if it is not  *)
(* terminated.                                                              *)
LEMMA FallStep ==
    ASSUME BuilderInv, visiting # <<>>, NEW f \in Funcs, f = current_func,
           NEW b \in Inner(f), Emit(fall_through(Graph, b)),
           UNCHANGED <<basic_blocks, built>>
    PROVE  /\ BlocksOf(f)' = BlocksOf(f) /\ Inner(f)' = Inner(f)
           /\ \E B, E : /\ BodyStep(f, {}, insert_block, B, E)
                        /\ is_terminated(insert_block) \/ insert_block \in E
<1>1. /\ basic_blocks[f] # <<>>
      /\ insert_block \in BlocksOf(f) /\ insert_block \in Blocks
      /\ NumInv /\ GraphOK(Graph)
      /\ b \in Blocks
  BY InBody
<1>2. PICK B \in SUBSET {b}, E \in SUBSET {insert_block} :
         GraphStep(insert_block, B, E) /\ (is_terminated(insert_block) \/ insert_block \in E)
  BY <1>1, StepFall
<1>3. BlocksOf(f)' = BlocksOf(f) /\ Inner(f)' = Inner(f)
  BY DEF BlocksOf, Inner
<1>4. BodyStep(f, {}, insert_block, B, E)
  BY <1>1, <1>2, <1>3, NothingCreated DEF BodyStep
<1> QED
  BY <1>2, <1>3, <1>4

(* The first branch of an if is done. *)
LEMMA ThenEndInv ==
    ASSUME BuilderInv, SelectionThenEnd
    PROVE  BuilderInv'
<1>1. /\ visiting # <<>> /\ Top.kind = "if" /\ Top.phase = "then"
      /\ Emit(fall_through(Graph, Top.next))
      /\ UNCHANGED <<basic_blocks, built>>
  BY DEF SelectionThenEnd
<1>2. PICK f \in Funcs :
         /\ f = current_func
         /\ Inner(f) \subseteq BlocksOf(f)
         /\ FramesOK(visiting, Inner(f))
         /\ FrameOK(Top, Len(visiting) = 1, TRUE, Inner(f))
  BY <1>1, InBody
<1>3. /\ Top.next \in Inner(f) /\ (Top.back = NoBlock \/ Top.back \in Inner(f))
      /\ Top \in Frames /\ Pends(Top) = {Top.next, Top.back}
  BY <1>1, <1>2 DEF FrameOK, Pends
<1>4. BlocksOf(f)' = BlocksOf(f) /\ Inner(f)' = Inner(f)
  BY <1>1, <1>2, <1>3, FallStep
<1>5. PICK B, E : /\ BodyStep(f, {}, insert_block, B, E)
                  /\ is_terminated(insert_block) \/ insert_block \in E
  BY <1>1, <1>2, <1>3, FallStep
<1>6. CASE Top.back # NoBlock
  <2>1. PICK v : v = [Top EXCEPT !.phase = "else"]
    OBVIOUS
  <2>2. /\ insert_block' = Top.back
        /\ visiting' = [visiting EXCEPT ![Len(visiting)] = v]
    BY <1>6, <2>1 DEF SelectionThenEnd, Phase, Top
  <2>3. /\ v \in Frames /\ v.kind = "if" /\ v.phase = "else"
        /\ v.back = Top.back /\ v.next = Top.next
    BY <1>1, <1>3, <2>1 DEF Frames
  <2>4. FrameOK(v, FALSE, TRUE, Inner(f))
    BY <1>3, <2>3 DEF FrameOK
  <2>5. PICK t : t = [visiting EXCEPT ![Len(visiting)] = v]
    OBVIOUS
  <2>6. /\ FramesOK(t, Inner(f)) /\ t # <<>> /\ t[Len(t)] = v
        /\ Pending(visiting) \subseteq Pending(t) \cup Pends(Top)
        /\ Pends(v) \subseteq Pending(t)
    <3>1. Top = visiting[Len(visiting)]
      BY DEF Top
    <3>2. visiting[Len(visiting)].kind # "fun"
      BY <1>1, <3>1
    <3>3. /\ FramesOK(t, Inner(f)) /\ t # <<>> /\ t[Len(t)] = v
          /\ Pending(visiting) \subseteq Pending(t) \cup Pends(visiting[Len(visiting)])
          /\ Pends(v) \subseteq Pending(t)
      <4>1. PICK vs, S : vs = visiting /\ S = Inner(f)
        OBVIOUS
      <4>2. /\ FramesOK(vs, S) /\ vs # <<>> /\ FrameOK(v, FALSE, TRUE, S)
            /\ vs[Len(vs)].kind # "fun" /\ t = [vs EXCEPT ![Len(vs)] = v]
        BY <1>1, <1>2, <2>4, <2>5, <3>2, <4>1
      <4>3. /\ FramesOK(t, S) /\ t # <<>> /\ t[Len(t)] = v
            /\ Pending(vs) \subseteq Pending(t) \cup Pends(vs[Len(vs)])
            /\ Pends(v) \subseteq Pending(t)
        BY <4>2, FramesChange
      <4> QED
        BY <4>1, <4>3
    <3> QED
      BY <3>1, <3>3
  <2>7. Top' = v /\ visiting' = t
    BY <2>2, <2>5, <2>6 DEF Top
  <2>8. Top.next \in Pending(t)
    BY <2>3, <2>6 DEF Pends
  <2>9. Top'.phase # "cond" /\ insert_block' \in BlocksOf(f)'
    BY <1>2, <1>3, <1>4, <1>6, <2>2, <2>3, <2>7
  <2> QED
    BY <1>1, <1>3, <1>4, <1>5, <2>2, <2>6, <2>7, <2>8, <2>9, VisitStep
<1>7. CASE Top.back = NoBlock
  <2>1. insert_block' = Top.next /\ visiting' = Front(visiting)
    BY <1>7 DEF SelectionThenEnd, Return
  <2>2. PICK t : t = Front(visiting)
    OBVIOUS
  <2>3. /\ FramesOK(t, Inner(f)) /\ t # <<>> /\ t[Len(t)].phase # "cond"
        /\ Pending(visiting) = Pending(t) \cup Pends(Top)
    <3>1. Top = visiting[Len(visiting)]
      BY DEF Top
    <3>2. visiting[Len(visiting)].kind # "fun"
      BY <1>1, <3>1
    <3> QED
      BY <1>1, <1>2, <2>2, <3>1, <3>2, FramesReturn
  <2>4. Top'.phase # "cond" /\ visiting' = t
    BY <2>1, <2>2, <2>3 DEF Top
  <2>5. NoBlock \notin Blocks
    BY DEF NoBlock, Blocks
  <2>6. insert_block' \in BlocksOf(f)'
    BY <1>2, <1>3, <1>4, <2>1
  <2> QED
    BY <1>1, <1>3, <1>4, <1>5, <1>7, <2>1, <2>3, <2>4, <2>5, <2>6, VisitStep
<1> QED
  BY <1>6, <1>7

(* The whole statement is done: the visitor goes on behind it. *)
LEMMA StatementEnd ==
    ASSUME BuilderInv, visiting # <<>>, Top.kind # "fun", Top.phase \in {"else", "body"},
           NEW f \in Funcs, f = current_func,
           NEW b \in Inner(f), Emit(fall_through(Graph, b)),
           UNCHANGED <<basic_blocks, built>>,
           insert_block' = Top.next, Return
    PROVE  BuilderInv'
<1>1. /\ Inner(f) \subseteq BlocksOf(f)
      /\ FramesOK(visiting, Inner(f))
      /\ FrameOK(Top, Len(visiting) = 1, TRUE, Inner(f))
  BY InBody
<1>2. Top.next \in Inner(f) /\ Pends(Top) = {Top.next}
  BY <1>1 DEF FrameOK, Pends
<1>3. BlocksOf(f)' = BlocksOf(f) /\ Inner(f)' = Inner(f)
  BY FallStep
<1>4. PICK B, E : /\ BodyStep(f, {}, insert_block, B, E)
                  /\ is_terminated(insert_block) \/ insert_block \in E
  BY FallStep
<1>5. PICK t : t = Front(visiting)
  OBVIOUS
<1>6. /\ FramesOK(t, Inner(f)) /\ t # <<>> /\ t[Len(t)].phase # "cond"
      /\ Pending(visiting) = Pending(t) \cup Pends(Top)
  <2>1. Top = visiting[Len(visiting)]
    BY DEF Top
  <2>2. visiting[Len(visiting)].kind # "fun"
    BY <2>1
  <2> QED
    BY <1>1, <1>5, <2>1, <2>2, FramesReturn
<1>7. Top'.phase # "cond" /\ visiting' = t
  BY <1>5, <1>6 DEF Top, Return
<1>8. insert_block' \in BlocksOf(f)'
  BY <1>1, <1>2, <1>3
<1> QED
  BY <1>2, <1>3, <1>4, <1>6, <1>7, <1>8, VisitStep

LEMMA ElseEndInv ==
    ASSUME BuilderInv, SelectionElseEnd
    PROVE  BuilderInv'
<1>1. /\ visiting # <<>> /\ Top.kind = "if" /\ Top.phase = "else"
      /\ Emit(fall_through(Graph, Top.next))
      /\ insert_block' = Top.next /\ Return
      /\ UNCHANGED <<basic_blocks, built>>
  BY DEF SelectionElseEnd
<1>2. PICK f \in Funcs :
         f = current_func /\ FrameOK(Top, Len(visiting) = 1, TRUE, Inner(f))
  BY <1>1, InBody
<1>3. Top.next \in Inner(f)
  BY <1>1, <1>2 DEF FrameOK
<1> QED
  BY <1>1, <1>2, <1>3, StatementEnd

LEMMA IterationEndInv ==
    ASSUME BuilderInv, IterationEnd
    PROVE  BuilderInv'
<1>1. /\ visiting # <<>> /\ Top.kind = "while" /\ Top.phase = "body"
      /\ Emit(fall_through(Graph, Top.back))
      /\ insert_block' = Top.next /\ Return
      /\ UNCHANGED <<basic_blocks, built>>
  BY DEF IterationEnd
<1>2. PICK f \in Funcs :
         f = current_func /\ FrameOK(Top, Len(visiting) = 1, TRUE, Inner(f))
  BY <1>1, InBody
<1>3. Top.back \in Inner(f)
  BY <1>1, <1>2 DEF FrameOK
<1> QED
  BY <1>1, <1>2, <1>3, StatementEnd

(* A while statement: the visitor branches to the block of the condition,   *)
(* and fills it.                                                            *)
LEMMA IterationInv ==
    ASSUME BuilderInv, IterationStmt
    PROVE  BuilderInv'
<1>1. PICK k, x : k = fresh /\ x = k + 1
  OBVIOUS
<1>2. PICK v : v = [kind |-> "while", phase |-> "cond", back |-> x, next |-> NoBlock]
  OBVIOUS
<1>3. /\ visiting # <<>> /\ Top.phase # "cond" /\ ~is_terminated(insert_block)
      /\ Create(1)
      /\ Emit(create_br(Graph, insert_block, x))
      /\ insert_block' = x
      /\ visiting' = Append(visiting, v)
      /\ built' = built
  BY <1>1, <1>2 DEF IterationStmt, NextStatement, Enter, fall_through
<1>4. PICK f \in Funcs :
         /\ f = current_func /\ basic_blocks[f] # <<>>
         /\ insert_block \in BlocksOf(f) /\ insert_block \in Blocks
         /\ NumInv /\ GraphOK(Graph) /\ FramesOK(visiting, Inner(f))
  BY <1>3, InBody
<1>5. k \in Nat
  BY <1>1, <1>4 DEF NumInv
<1>6. (k + 1) .. (k + 1) = {x}
  BY <1>1, <1>5
<1>7. /\ GrownBy(f, {x}) /\ x \in Blocks
      /\ ~is_terminated(x) /\ x # insert_block
      /\ BlocksOf(f)' = BlocksOf(f) \cup {x} /\ Inner(f)' = Inner(f) \cup {x}
  <2>1. (fresh + 1) .. (fresh + 1) = {x} /\ 1 \in Nat
    BY <1>1, <1>6
  <2> QED
    BY <1>3, <1>4, <2>1, NewBlocks
<1>8. GraphStep(insert_block, {x}, {insert_block})
  BY <1>3, <1>4, <1>7, StepBr
<1>9. BodyStep(f, {x}, insert_block, {x}, {insert_block})
  BY <1>3, <1>4, <1>7, <1>8 DEF BodyStep
<1>10. FramesOK(visiting, Inner(f)')
  BY <1>4, <1>7, FramesGrow
<1>11. FrameOK(v, FALSE, TRUE, Inner(f)')
  <2>1. v \in Frames
    BY <1>2, <1>7 DEF Frames
  <2> QED
    BY <1>2, <1>7, <2>1 DEF FrameOK
<1>12. PICK t : t = Append(visiting, v)
  OBVIOUS
<1>13. /\ FramesOK(t, Inner(f)') /\ t # <<>> /\ t[Len(t)] = v
       /\ Pending(t) = Pending(visiting) \cup Pends(v)
  <2>1. visiting[Len(visiting)].phase # "cond" /\ visiting # <<>>
    BY <1>3 DEF Top
  <2> QED
    BY <1>10, <1>11, <1>12, <2>1, FramesEnter
<1>14. visiting' = t
  BY <1>3, <1>12
<1>15. ~is_terminated(insert_block)'
  <2>1. is_terminated(x)' <=> is_terminated(x) \/ x \in {insert_block}
    BY <1>7, <1>9, CoreStep DEF BuilderInv
  <2>2. ~is_terminated(x)'
    BY <1>7, <2>1
  <2> QED
    BY <1>3, <2>2 DEF is_terminated
<1> QED
  BY <1>3, <1>7, <1>9, <1>13, <1>14, <1>15, VisitStep

(* The condition leads to the body or behind the statement. *)
LEMMA IterationCondInv ==
    ASSUME BuilderInv, IterationCond
    PROVE  BuilderInv'
<1>1. PICK k, x, c : k = fresh /\ x = k + 1 /\ c = k + 2
  OBVIOUS
<1>2. /\ visiting # <<>> /\ Top.kind = "while" /\ Top.phase = "cond"
      /\ Create(2)
      /\ Emit(create_cond_br(Graph, insert_block, x, c))
      /\ insert_block' = x
      /\ visiting' = [visiting EXCEPT ![Len(visiting)].phase = "body",
                                      ![Len(visiting)].next = c]
      /\ built' = built
  BY <1>1 DEF IterationCond
<1>3. PICK f \in Funcs :
         /\ f = current_func /\ basic_blocks[f] # <<>>
         /\ insert_block \in BlocksOf(f) /\ insert_block \in Blocks
         /\ NumInv /\ GraphOK(Graph) /\ FramesOK(visiting, Inner(f))
         /\ FrameOK(Top, Len(visiting) = 1, TRUE, Inner(f))
  BY <1>2, InBody
<1>4. k \in Nat
  BY <1>1, <1>3 DEF NumInv
<1>5. (k + 1) .. (k + 2) = {x, c} /\ x # c
  BY <1>1, <1>4
<1>6. /\ GrownBy(f, {x, c}) /\ x \in Blocks /\ c \in Blocks
      /\ BlocksOf(f)' = BlocksOf(f) \cup {x, c} /\ Inner(f)' = Inner(f) \cup {x, c}
  <2>1. (fresh + 1) .. (fresh + 2) = {x, c} /\ 2 \in Nat
    BY <1>1, <1>5
  <2> QED
    BY <1>2, <1>3, <2>1, NewBlocks, ZenonT(60)
<1>7. ~is_terminated(insert_block)
  BY <1>2 DEF BuilderInv, VisitInv
<1>8. GraphStep(insert_block, {x, c}, {insert_block})
  BY <1>2, <1>3, <1>5, <1>6, <1>7, StepCondBr
<1>9. BodyStep(f, {x, c}, insert_block, {x, c}, {insert_block})
  BY <1>2, <1>3, <1>6, <1>8 DEF BodyStep
<1>10. PICK vs, S : vs = visiting /\ S = Inner(f)'
  OBVIOUS
<1>11. FramesOK(vs, S) /\ vs # <<>> /\ vs[Len(vs)] = Top
  <2>1. FramesOK(visiting, Inner(f)')
    BY <1>3, <1>6, FramesGrow
  <2> QED
    BY <1>2, <1>10, <2>1 DEF Top
<1>12. PICK v : v = [Top EXCEPT !.phase = "body", !.next = c]
  OBVIOUS
<1>13. /\ Top \in Frames /\ Top.back \in Inner(f) /\ Top.next = NoBlock
  BY <1>2, <1>3 DEF FrameOK
<1>14. /\ v \in Frames /\ v.kind = "while" /\ v.phase = "body"
       /\ v.back = Top.back /\ v.next = c
  BY <1>2, <1>6, <1>12, <1>13 DEF Frames
<1>15. FrameOK(v, FALSE, TRUE, S)
  BY <1>6, <1>10, <1>13, <1>14 DEF FrameOK
<1>16. PICK t : t = [vs EXCEPT ![Len(vs)] = v]
  OBVIOUS
<1>17. visiting' = t
  <2>1. /\ vs \in Seq(Frames) /\ Len(vs) \in Nat \ {0}
    BY <1>11, EmptySeq, LenProperties DEF FramesOK
  <2>2. visiting' = [vs EXCEPT ![Len(vs)] =
                        [[vs[Len(vs)] EXCEPT !.phase = "body"] EXCEPT !.next = c]]
    BY <1>2, <1>10, <1>11, <2>1, LenProperties
  <2>3. v = [[vs[Len(vs)] EXCEPT !.phase = "body"] EXCEPT !.next = c]
    BY <1>11, <1>12
  <2> QED
    BY <1>16, <2>2, <2>3
<1>18. /\ FramesOK(t, S) /\ t # <<>> /\ t[Len(t)] = v
       /\ Pending(vs) \subseteq Pending(t) \cup Pends(vs[Len(vs)])
       /\ Pends(v) \subseteq Pending(t)
  <2>1. vs[Len(vs)].kind # "fun"
    BY <1>2, <1>11
  <2> QED
    BY <1>11, <1>15, <1>16, <2>1, FramesChange
<1>19. Pends(vs[Len(vs)]) = {NoBlock} /\ c \in Pending(t)
  BY <1>2, <1>11, <1>13, <1>14, <1>18 DEF Pends
<1>20. Top'.phase = "body"
  BY <1>14, <1>17, <1>18 DEF Top
<1>21. NoBlock \notin Blocks
  BY DEF NoBlock, Blocks
<1> QED
  BY <1>2, <1>6, <1>9, <1>10, <1>17, <1>18, <1>19, <1>20, <1>21, VisitStep, ZenonT(60)

-----------------------------------------------------------------------------
(* A function begins with an empty block, ... *)
LEMMA DeclarationInv ==
    ASSUME BuilderInv, FunDeclaration
    PROVE  BuilderInv'
<1>1. PICK k, x : k = fresh /\ x = k + 1
  OBVIOUS
<1>2. PICK v : v = [kind |-> "fun", phase |-> "body", back |-> NoBlock, next |-> NoBlock]
  OBVIOUS
<1>3. /\ visiting = <<>> /\ built < MaxFuncs
      /\ Create(1)
      /\ insert_block' = x
      /\ visiting' = Append(visiting, v)
      /\ UNCHANGED <<succ_bbs, pre_bbs, terminator, built>>
  BY <1>1, <1>2 DEF FunDeclaration, Enter
<1>4. /\ Core /\ NumInv /\ GraphOK(Graph) /\ built \in 0 .. MaxFuncs /\ FramesOK(visiting, {})
  <2>1. FramesOK(visiting, Inner(current_func))
    BY DEF BuilderInv, VisitInv
  <2>2. DOMAIN visiting = {} /\ visiting \in Seq(Frames)
    BY <1>3, <2>1 DEF FramesOK
  <2> QED
    BY <2>2 DEF BuilderInv, Core, FramesOK
<1>5. PICK f \in Funcs : f = current_func /\ f = built + 1
  BY <1>3, <1>4, BuilderAssumption DEF current_func, Funcs, BuilderAssumption
<1>6. k \in Nat /\ (k + 1) .. (k + 1) = {x}
  BY <1>1, <1>4 DEF NumInv
<1>7. GrownBy(f, {x})
  <2>1. (fresh + 1) .. (fresh + 1) = {x} /\ 1 \in Nat
    BY <1>1, <1>6
  <2> QED
    BY <1>3, <1>4, <1>5, <2>1, CreateFacts
<1>8. basic_blocks[f] = <<>> /\ BlocksOf(f) = {}
  BY <1>3, <1>4, <1>5, BuilderAssumption
     DEF BuilderInv, VisitInv, BlocksOf, ToSet, BuilderAssumption
<1>9. /\ NumInv' /\ Created \cap {x} = {} /\ Created' = Created \cup {x}
      /\ BlocksOf(f)' = {x}
      /\ \A h \in Funcs \ {f} : basic_blocks'[h] = basic_blocks[h]
  BY <1>7, <1>8 DEF GrownBy
<1>10. Created' \subseteq Blocks
  BY <1>9, CreatedBlocksNext
<1>11. Graph' = Graph /\ \A b : is_terminated(b)' <=> is_terminated(b)
  BY <1>3 DEF Graph, is_terminated
<1>12. ~is_terminated(x)
  BY <1>4, <1>9, <1>10 DEF Core
<1>13. ToSet(succ_bbs[x]) = {}
  <2>1. x \in Blocks /\ terminator[x] = "none"
    BY <1>9, <1>10, <1>12 DEF is_terminated
  <2>2. succ_bbs[x] = <<>>
    BY <1>4, <2>1 DEF GraphOK, Graph
  <2> QED
    BY <2>2 DEF ToSet
<1>14. \A h \in Funcs : \A b \in BlocksOf(h)' : ToSet(succ_bbs'[b]) \subseteq Inner(h)'
  <2> SUFFICES ASSUME NEW h \in Funcs, NEW b \in BlocksOf(h)'
               PROVE  ToSet(succ_bbs'[b]) \subseteq Inner(h)'
    OBVIOUS
  <2>1. CASE h = f
    BY <1>3, <1>9, <1>13, <2>1
  <2>2. CASE h # f
    <3>1. BlocksOf(h)' = BlocksOf(h) /\ Inner(h)' = Inner(h)
      BY <1>9, <2>2 DEF BlocksOf, Inner
    <3> QED
      BY <1>3, <1>4, <3>1 DEF Core
  <2> QED
    BY <2>1, <2>2
<1>15. \A h \in Funcs : h <= built' => \A b \in BlocksOf(h)' : is_terminated(b)'
  <2> SUFFICES ASSUME NEW h \in Funcs, h <= built, NEW b \in BlocksOf(h)'
               PROVE  is_terminated(b)
    BY <1>3, <1>11
  <2>1. h # f
    BY <1>4, <1>5 DEF Funcs
  <2>2. BlocksOf(h)' = BlocksOf(h)
    BY <1>9, <2>1 DEF BlocksOf
  <2> QED
    BY <1>4, <2>2 DEF Core
<1>16. Core'
  <2>1. GraphOK(Graph)'
    BY <1>4, <1>11
  <2>2. \A b \in Blocks : b \notin Created' => ~is_terminated(b)'
    BY <1>4, <1>9, <1>11 DEF Core
  <2> QED
    BY <1>3, <1>4, <1>9, <1>14, <1>15, <2>1, <2>2 DEF Core
<1>17. FrameOK(v, TRUE, TRUE, {})
  <2>1. v \in Frames
    BY <1>2 DEF Frames
  <2> QED
    BY <1>2, <2>1 DEF FrameOK
<1>18. PICK t : t = Append(visiting, v)
  OBVIOUS
<1>19. FramesOK(t, {}) /\ t # <<>> /\ t[Len(t)] = v
  <2>1. PICK vs : vs = visiting
    OBVIOUS
  <2>2. FramesOK(vs, {}) /\ vs = <<>> /\ t = Append(vs, v)
    BY <1>3, <1>4, <1>18, <2>1
  <2>3. IF vs = <<>> THEN FrameOK(v, TRUE, TRUE, {}) ELSE FrameOK(v, FALSE, TRUE, {})
    BY <1>17, <2>2
  <2>4. vs # <<>> => vs[Len(vs)].phase # "cond"
    BY <2>2
  <2> QED
    BY <2>2, <2>3, <2>4, FramesEnter
<1>20. FramesOK(t, Inner(current_func)')
  BY <1>19, FramesGrow
<1>21. visiting' = t /\ Top' = v /\ current_func' = f
  BY <1>3, <1>5, <1>18, <1>19 DEF Top, current_func
<1>22. BlocksOf(current_func)' = {x}
  BY <1>9, <1>21 DEF BlocksOf
<1>23. \A h \in Funcs : h > built' /\ (visiting' = <<>> \/ h # current_func')
                           => basic_blocks'[h] = <<>>
  BY <1>3, <1>9, <1>21 DEF BuilderInv, VisitInv
<1>24. VisitInv'
  <2>1. x \in Blocks /\ insert_block' = x
    BY <1>3, <1>9, <1>10
  <2>2. FramesOK(visiting, Inner(current_func))'
    BY <1>20, <1>21
  <2>3. Top'.phase # "cond"
    BY <1>2, <1>21
  <2>4. visiting' # <<>> /\ current_func' \in Funcs
    BY <1>19, <1>21
  <2> QED
    BY <1>22, <1>23, <2>1, <2>2, <2>3, <2>4 DEF VisitInv
<1> QED
  BY <1>16, <1>24 DEF BuilderInv

(* ... and when it ends, no block is left open. *)
LEMMA DeclarationEndInv ==
    ASSUME BuilderInv, FunDeclarationEnd
    PROVE  BuilderInv'
<1>1. /\ visiting # <<>> /\ Top.kind = "fun"
      /\ Emit(IF is_terminated(insert_block) THEN Graph ELSE create_ret(Graph, insert_block))
      /\ built' = built + 1 /\ visiting' = Front(visiting)
      /\ UNCHANGED <<basic_blocks, insert_block>>
  BY DEF FunDeclarationEnd, Return
<1>2. PICK f \in Funcs :
         /\ f = current_func /\ basic_blocks[f] # <<>>
         /\ insert_block \in BlocksOf(f) /\ insert_block \in Blocks
         /\ BlocksOf(f) \subseteq Created /\ Created \subseteq Blocks
         /\ NumInv /\ GraphOK(Graph) /\ FramesOK(visiting, Inner(f))
         /\ FrameOK(Top, Len(visiting) = 1, TRUE, Inner(f))
  BY <1>1, InBody
<1>3. Core /\ built \in 0 .. MaxFuncs /\ f = built + 1 /\ built' = f
  BY <1>1, <1>2 DEF BuilderInv, Core, current_func
<1>4. PICK E \in SUBSET {insert_block} :
         GraphStep(insert_block, {}, E) /\ (is_terminated(insert_block) \/ insert_block \in E)
  <2>1. CASE is_terminated(insert_block)
    <3>1. UNCHANGED <<succ_bbs, pre_bbs, terminator>>
      BY <1>1, <2>1 DEF Emit, Graph
    <3> QED
      BY <1>2, <2>1, <3>1, StepNone
  <2>2. CASE ~is_terminated(insert_block)
    BY <1>1, <1>2, <2>2, StepRet
  <2> QED
    BY <2>1, <2>2
<1>5. \A b \in Blocks : is_terminated(b)' <=> is_terminated(b) \/ b \in E
  BY <1>4 DEF GraphStep, is_terminated
<1>6. /\ NumInv' /\ Created' = Created
      /\ \A h \in Funcs : BlocksOf(h)' = BlocksOf(h) /\ Inner(h)' = Inner(h)
  <2>1. GrownBy(f, {})
    BY <1>1, <1>2, NothingCreated
  <2> QED
    BY <1>1, <2>1 DEF GrownBy, BlocksOf, Inner
<1>7. GraphOK(Graph)' /\ \A b \in Blocks : ToSet(succ_bbs'[b]) = ToSet(succ_bbs[b])
  BY <1>4 DEF GraphStep, Grown, Graph
<1>8. PICK t : t = Front(visiting)
  OBVIOUS
<1>9. t = <<>> /\ Pending(visiting) = Pends(Top)
  <2>1. Top = visiting[Len(visiting)]
    BY DEF Top
  <2>2. visiting[Len(visiting)].kind = "fun"
    BY <1>1, <2>1
  <2>3. t = <<>> /\ Pending(visiting) = Pending(t) \cup Pends(Top)
    BY <1>1, <1>2, <1>8, <2>1, <2>2, FramesReturn
  <2>4. Pending(t) = {}
    BY <2>3 DEF Pending
  <2> QED
    BY <2>3, <2>4
<1>10. Pending(visiting) = {NoBlock}
  BY <1>1, <1>2, <1>9 DEF FrameOK, Pends
<1>11. NoBlock \notin Blocks
  BY DEF NoBlock, Blocks
<1>12. \A b \in BlocksOf(f) : is_terminated(b)'
  <2>1. \A b \in BlocksOf(f) : is_terminated(b) \/ b = insert_block \/ b \in {NoBlock}
    BY <1>1, <1>2, <1>10 DEF BuilderInv, VisitInv
  <2> QED
    BY <1>2, <1>4, <1>5, <1>11, <2>1
<1>13. \A h \in Funcs : h <= built' => \A b \in BlocksOf(h)' : is_terminated(b)'
  <2> SUFFICES ASSUME NEW h \in Funcs, h <= f, NEW b \in BlocksOf(h)
               PROVE  is_terminated(b)'
    BY <1>3, <1>6
  <2>1. CASE h = f
    BY <1>12, <2>1
  <2>2. CASE h # f
    <3>1. h <= built
      BY <1>3, <2>2 DEF Funcs
    <3>2. b \in Blocks
      BY <1>2, CreatedBlocks
    <3> QED
      BY <1>3, <1>5, <3>1, <3>2 DEF Core
  <2> QED
    BY <2>1, <2>2
<1>14. \A h \in Funcs : \A b \in BlocksOf(h)' : ToSet(succ_bbs'[b]) \subseteq Inner(h)'
  <2>1. \A h \in Funcs : BlocksOf(h) \subseteq Blocks
    BY <1>2, CreatedBlocks
  <2> QED
    BY <1>3, <1>6, <1>7, <2>1 DEF Core
<1>15. \A b \in Blocks : b \notin Created' => ~is_terminated(b)'
  BY <1>2, <1>3, <1>4, <1>5, <1>6 DEF Core
<1>16. built' \in 0 .. MaxFuncs
  BY <1>2, <1>3 DEF Funcs
<1>17. Core'
  BY <1>6, <1>7, <1>13, <1>14, <1>15, <1>16 DEF Core
<1>18. VisitInv'
  <2>1. visiting' = <<>>
    BY <1>1, <1>8, <1>9
  <2>2. FramesOK(visiting, Inner(current_func))'
    <3>1. visiting' \in Seq(Frames) /\ DOMAIN visiting' = {}
      BY <2>1
    <3> QED
      BY <3>1 DEF FramesOK
  <2>3. \A h \in Funcs : h > built' => basic_blocks'[h] = <<>>
    <3> SUFFICES ASSUME NEW h \in Funcs, h > f PROVE basic_blocks[h] = <<>>
      BY <1>1, <1>3
    <3>1. h > built /\ h # current_func
      BY <1>2, <1>3 DEF Funcs
    <3> QED
      BY <3>1 DEF BuilderInv, VisitInv
  <2>4. insert_block' \in Blocks
    BY <1>1, <1>2
  <2> QED
    BY <2>1, <2>2, <2>3, <2>4 DEF VisitInv
<1> QED
  BY <1>17, <1>18 DEF BuilderInv

-----------------------------------------------------------------------------
LEMMA BuilderInit == Init => BuilderInv
<1> SUFFICES ASSUME Init PROVE BuilderInv
  OBVIOUS
<1>1. /\ basic_blocks = [f \in Funcs |-> <<>>]
      /\ succ_bbs = [b \in Blocks |-> <<>>] /\ pre_bbs = [b \in Blocks |-> <<>>]
      /\ terminator = [b \in Blocks |-> "none"]
      /\ insert_block = NoBlock /\ visiting = <<>> /\ built = 0
  BY DEF Init
<1>2. /\ \A f \in Funcs : basic_blocks[f] = <<>> /\ BlocksOf(f) = {}
      /\ basic_blocks \in [Funcs -> Seq(Blocks)]
  BY <1>1, EmptySeq DEF BlocksOf, ToSet
<1>3. Created = {}
  BY <1>2 DEF Created, BlocksOf
<1>4. fresh = 0 /\ 1 .. 0 = {}
  BY <1>3, FS_EmptySet DEF fresh
<1>5. MaxFuncs \in Nat \ {0} /\ MaxBlocks \in Nat
  BY BuilderAssumption DEF BuilderAssumption
<1>6. NumInv
  <2>1. fresh \in Nat /\ fresh <= MaxBlocks /\ Created = 1 .. fresh
    BY <1>3, <1>4, <1>5
  <2> QED
    BY <1>2, <2>1 DEF NumInv
<1>7. GraphOK(Graph)
  <2>1. Graph \in GraphType
    BY <1>1, EmptySeq DEF Graph, GraphType
  <2>2. \A b \in Blocks : /\ Graph.pre[b] = <<>> /\ Graph.suc[b] = <<>>
                          /\ Graph.end[b] = "none"
    BY <1>1 DEF Graph
  <2>3. Mirrored(Graph)
    <3>1. ToSet(<<>>) = {} /\ IsInjective(<<>>)
      BY DEF ToSet, IsInjective
    <3> QED
      BY <2>2, <3>1 DEF Mirrored
  <2> QED
    BY <2>1, <2>2, <2>3 DEF GraphOK
<1>8. Core
  BY <1>1, <1>2, <1>5, <1>6, <1>7 DEF Core, is_terminated
<1>9. VisitInv
  <2>1. DOMAIN visiting = {} /\ visiting \in Seq(Frames)
    BY <1>1
  <2> QED
    BY <1>1, <1>2, <2>1 DEF VisitInv, FramesOK
<1> QED
  BY <1>8, <1>9 DEF BuilderInv

(* A step that changes nothing. *)
LEMMA BuilderStutter ==
    ASSUME BuilderInv, UNCHANGED builder_vars
    PROVE  BuilderInv'
<1>1. /\ UNCHANGED <<basic_blocks, succ_bbs, pre_bbs, terminator, insert_block, visiting, built>>
      /\ Graph' = Graph /\ Created' = Created /\ fresh' = fresh
      /\ \A f : BlocksOf(f)' = BlocksOf(f) /\ Inner(f)' = Inner(f)
      /\ \A b : is_terminated(b)' <=> is_terminated(b)
  BY DEF builder_vars, Graph, Created, fresh, BlocksOf, Inner, is_terminated
<1>2. current_func' = current_func /\ Top' = Top
  BY <1>1 DEF current_func, Top
<1>3. BlocksOf(current_func)' = BlocksOf(current_func) /\ Inner(current_func)' = Inner(current_func)
  BY <1>1, <1>2 DEF BlocksOf, Inner
<1>4. NumInv'
  BY <1>1 DEF BuilderInv, Core, NumInv
<1>5. GraphOK(Graph)'
  BY <1>1 DEF BuilderInv, Core
<1>6. Core'
  BY <1>1, <1>4, <1>5 DEF BuilderInv, Core
<1>7. FramesOK(visiting, Inner(current_func))'
  BY <1>1, <1>3 DEF BuilderInv, VisitInv
<1>8. Pending(visiting)' = Pending(visiting)
  BY <1>1 DEF Pending
<1>9. VisitInv'
  BY <1>1, <1>2, <1>3, <1>7, <1>8 DEF BuilderInv, VisitInv
<1> QED
  BY <1>6, <1>9 DEF BuilderInv

(* The invariant of the builder. *)
THEOREM BuilderInvariance == Spec => []BuilderInv
<1>1. BuilderInv /\ [Next]_builder_vars => BuilderInv'
  <2> SUFFICES ASSUME BuilderInv, [Next]_builder_vars PROVE BuilderInv'
    OBVIOUS
  <2>1. CASE FunDeclaration
    BY <2>1, DeclarationInv
  <2>2. CASE FunDeclarationEnd
    BY <2>2, DeclarationEndInv
  <2>3. CASE ReturnStmt
    BY <2>3, ReturnInv
  <2>4. CASE IndexedVar
    BY <2>4, IndexedVarInv
  <2>5. CASE \E has_else \in BOOLEAN : SelectionStmt(has_else)
    BY <2>5, SelectionInv
  <2>6. CASE SelectionThenEnd
    BY <2>6, ThenEndInv
  <2>7. CASE SelectionElseEnd
    BY <2>7, ElseEndInv
  <2>8. CASE IterationStmt
    BY <2>8, IterationInv
  <2>9. CASE IterationCond
    BY <2>9, IterationCondInv
  <2>10. CASE IterationEnd
    BY <2>10, IterationEndInv
  <2>11. CASE UNCHANGED builder_vars
    BY <2>11, BuilderStutter
  <2> QED
    BY <2>1, <2>2, <2>3, <2>4, <2>5, <2>6, <2>7, <2>8, <2>9, <2>10, <2>11 DEF Next
<1> QED
  BY BuilderInit, <1>1, PTL DEF Spec

(* The two lists of every edge agree, in every graph of the builder: each   *)
(* branch is entered once on either side, stays in its function, and never  *)
(* leads to the entry block.                                                *)
THEOREM EdgesAgree == Spec => []EdgesMirror
<1>1. BuilderInv => EdgesMirror
  BY DEF BuilderInv, Core, GraphOK, Mirrored, Graph, BlocksOf, Inner, EdgesMirror
<1> QED
  BY BuilderInvariance, <1>1, PTL

(* No block of a complete function is without a terminator, though the      *)
(* visitor leaves blocks open while it fills others: it returns to all of   *)
(* them.                                                                    *)
THEOREM NoBlockLeftOpen == Spec => []CompleteIsTerminated
<1>1. BuilderInv => CompleteIsTerminated
  <2> SUFFICES ASSUME BuilderInv, NEW f \in 1 .. built, NEW b \in ToSet(basic_blocks[f])
               PROVE  is_terminated(b) /\ (terminator[b] = "br" <=> succ_bbs[b] # <<>>)
    BY DEF CompleteIsTerminated
  <2>1. f \in Funcs /\ f <= built
    BY BuilderAssumption DEF BuilderInv, Core, Funcs, BuilderAssumption
  <2>2. b \in BlocksOf(f) /\ b \in Blocks
    <3>1. BlocksOf(f) \subseteq Created /\ Created \subseteq Blocks
      BY <2>1, CreatedBlocks DEF BuilderInv, Core
    <3> QED
      BY <3>1 DEF BlocksOf
  <2> QED
    BY <2>1, <2>2 DEF BuilderInv, Core, GraphOK, Graph
<1> QED
  BY BuilderInvariance, <1>1, PTL

(* The variables of the builder keep their types. *)
LEMMA BuilderTypes == Spec => []TypeOK
<1>1. BuilderInv => TypeOK
  <2> SUFFICES ASSUME BuilderInv PROVE TypeOK
    OBVIOUS
  <2>1. /\ basic_blocks \in [Funcs -> Seq(Blocks)]
        /\ built \in 0 .. MaxFuncs
    BY DEF BuilderInv, Core, NumInv
  <2>2. /\ succ_bbs \in [Blocks -> Seq(Blocks)] /\ pre_bbs \in [Blocks -> Seq(Blocks)]
        /\ terminator \in [Blocks -> {"none", "br", "ret"}]
    BY DEF BuilderInv, Core, GraphOK, GraphType, Graph
  <2>3. /\ insert_block \in Blocks \cup {NoBlock} /\ visiting \in Seq(Frames)
        /\ visiting # <<>> => insert_block \in ToSet(basic_blocks[current_func])
    BY DEF BuilderInv, VisitInv, FramesOK, BlocksOf
  <2>4. ASSUME NEW i \in DOMAIN visiting, visiting[i].kind # "fun", visiting[i].phase # "cond"
        PROVE  visiting[i].next # NoBlock
    <3>1. visiting # <<>>
      OBVIOUS
    <3>2. PICK f \in Funcs :
             /\ Inner(f) \subseteq BlocksOf(f) /\ BlocksOf(f) \subseteq Created
             /\ Created \subseteq Blocks /\ FramesOK(visiting, Inner(f))
      BY <3>1, InBody
    <3>3. visiting[i].next \in Inner(f)
      BY <2>4, <3>2 DEF FramesOK, FrameOK
    <3> QED
      BY <3>2, <3>3 DEF Blocks, NoBlock
  <2> QED
    BY <2>1, <2>2, <2>3, <2>4 DEF TypeOK
<1> QED
  BY BuilderInvariance, <1>1, PTL

-----------------------------------------------------------------------------
(* In the whole analysis the builder takes the steps of its own             *)
(* specification: the analysis reads the graph only.                        *)
LEMMA AnalysisReads == SpecAnalysis => Spec
<1>1. InitAnalysis => Init
  BY DEF InitAnalysis
<1>2. [NextAnalysis]_all_vars => [Next]_builder_vars
  BY DEF NextAnalysis, all_vars, Build, Run, Analyse, Detect
<1> QED
  BY <1>1, <1>2, PTL DEF SpecAnalysis, Spec

(* What the passes find: graphs as the builder left them. *)
THEOREM GraphsAsBuilt == SpecAnalysis => [](TypeOK /\ EdgesMirror /\ CompleteIsTerminated)
BY AnalysisReads, BuilderTypes, EdgesAgree, NoBlockLeftOpen, PTL

-----------------------------------------------------------------------------
(* The lists of blocks that the builder leaves: an entry comes first in     *)
(* each, and nothing comes twice.                                           *)
ListsInv == \A f \in Funcs : /\ IsInjective(basic_blocks[f])
                             /\ f <= built => basic_blocks[f] # <<>>

LEMMA ListGrows ==
    ASSUME BuilderInv, ListsInv, NEW n \in Nat, Create(n), current_func \in Funcs
    PROVE  \A f \in Funcs : /\ IsInjective(basic_blocks'[f])
                            /\ basic_blocks[f] # <<>> => basic_blocks'[f] # <<>>
<1>1. PICK c \in Funcs : c = current_func
  OBVIOUS
<1>2. PICK k \in Nat : k = fresh /\ Created = 1 .. k
  BY DEF BuilderInv, Core, NumInv
<1>3. PICK t : t = [i \in 1 .. n |-> k + i]
  OBVIOUS
<1>4. PICK s \in Seq(Blocks) : s = basic_blocks[c]
  BY DEF BuilderInv, Core, NumInv
<1>5. basic_blocks' = [basic_blocks EXCEPT ![c] = s \o t]
  BY <1>1, <1>2, <1>3, <1>4 DEF Create
<1>6. basic_blocks'[c] = s \o t /\ \A f \in Funcs \ {c} : basic_blocks'[f] = basic_blocks[f]
  BY <1>5 DEF BuilderInv, Core, NumInv
<1>7. IsInjective(s \o t)
  <2>1. PICK m \in Nat : m = Len(s) /\ DOMAIN s = 1 .. m
    BY LenProperties
  <2>2. t \in Seq(Nat) /\ Len(t) = n /\ DOMAIN t = 1 .. n /\ \A i \in 1 .. n : t[i] = k + i
    BY <1>3
  <2>3. \A i \in 1 .. m : s[i] \in 1 .. k
    <3>1. ToSet(s) \subseteq Created
      BY <1>4, CreatedBlocks DEF BuilderInv, Core, BlocksOf
    <3> QED
      BY <1>2, <2>1, <3>1 DEF ToSet
  <2>4. /\ DOMAIN (s \o t) = 1 .. m + n
        /\ \A i \in 1 .. m + n : (s \o t)[i] = IF i <= m THEN s[i] ELSE t[i - m]
    <3>1. s \in Seq(Nat)
      <4>1. Seq(Blocks) \subseteq Seq(Nat)
        BY BuilderAssumption DEF Blocks, BuilderAssumption
      <4> QED
        BY <4>1
    <3>2. /\ s \o t \in Seq(Nat) /\ Len(s \o t) = m + n
          /\ \A i \in 1 .. m + n : (s \o t)[i] = IF i <= m THEN s[i] ELSE t[i - m]
      BY <2>1, <2>2, <3>1, ConcatProperties
    <3> QED
      BY <3>2, LenProperties
  <2>5. \A i, j \in 1 .. m : s[i] = s[j] => i = j
    BY <1>4, <2>1 DEF ListsInv, IsInjective
  <2>6. PICK u : u = s \o t
    OBVIOUS
  <2>7. ASSUME NEW i \in 1 .. m + n, NEW j \in 1 .. m + n, u[i] = u[j] PROVE i = j
    <3>1. i > m => i - m \in 1 .. n /\ u[i] = k + (i - m)
      BY <2>2, <2>4, <2>6
    <3>2. j > m => j - m \in 1 .. n /\ u[j] = k + (j - m)
      BY <2>2, <2>4, <2>6
    <3>3. i <= m => u[i] = s[i] /\ i \in 1 .. m
      BY <2>4, <2>6
    <3>4. j <= m => u[j] = s[j] /\ j \in 1 .. m
      BY <2>4, <2>6
    <3> QED
      BY <2>3, <2>5, <2>7, <3>1, <3>2, <3>3, <3>4
  <2> QED
    BY <2>4, <2>6, <2>7 DEF IsInjective
<1>8. s # <<>> => s \o t # <<>>
  BY <1>3
<1> QED
  BY <1>4, <1>6, <1>7, <1>8 DEF ListsInv

LEMMA ListsAlways == Spec => []ListsInv
<1>1. Init => ListsInv
  BY BuilderAssumption DEF Init, ListsInv, IsInjective, Funcs, BuilderAssumption
<1>2. BuilderInv /\ ListsInv /\ [Next]_builder_vars => ListsInv'
  <2> SUFFICES ASSUME BuilderInv, ListsInv, [Next]_builder_vars PROVE ListsInv'
    OBVIOUS
  <2>1. built \in 0 .. MaxFuncs
    BY DEF BuilderInv, Core
  <2>2. visiting # <<>> => current_func \in Funcs /\ basic_blocks[current_func] # <<>>
    <3>1. visiting # <<>> => insert_block \in BlocksOf(current_func) /\ current_func \in Funcs
      BY DEF BuilderInv, VisitInv
    <3> QED
      BY <3>1, CreatedBlocks DEF BuilderInv, Core
  <2>3. ASSUME NEW n \in Nat, Create(n), current_func \in Funcs, built' = built PROVE ListsInv'
    BY <2>3, ListGrows DEF ListsInv
  <2>4. ASSUME UNCHANGED basic_blocks, built' = built PROVE ListsInv'
    BY <2>4 DEF ListsInv
  <2>5. CASE FunDeclaration
    <3>1. current_func \in Funcs
      BY <2>1, <2>5, BuilderAssumption DEF FunDeclaration, current_func, Funcs, BuilderAssumption
    <3> QED
      BY <2>3, <2>5, <3>1 DEF FunDeclaration
  <2>6. CASE FunDeclarationEnd
    <3>1. /\ visiting # <<>> /\ built' = built + 1 /\ UNCHANGED basic_blocks
      BY <2>6 DEF FunDeclarationEnd
    <3>2. ASSUME NEW f \in Funcs, f <= built' PROVE basic_blocks'[f] # <<>>
      <4>1. f <= built \/ f = current_func
        BY <2>1, <3>1, <3>2, BuilderAssumption DEF current_func, Funcs, BuilderAssumption
      <4> QED
        BY <2>2, <3>1, <4>1 DEF ListsInv
    <3> QED
      BY <3>1, <3>2 DEF ListsInv
  <2>7. CASE ReturnStmt
    BY <2>4, <2>7 DEF ReturnStmt
  <2>8. CASE IndexedVar
    BY <2>2, <2>3, <2>8 DEF IndexedVar, NextExpression, NextStatement
  <2>9. CASE \E has_else \in BOOLEAN : SelectionStmt(has_else)
    <3>1. PICK h \in BOOLEAN : SelectionStmt(h)
      BY <2>9
    <3>2. PICK n \in Nat : n = IF h THEN 3 ELSE 2
      OBVIOUS
    <3> QED
      BY <2>2, <2>3, <3>1, <3>2 DEF SelectionStmt, NextStatement
  <2>10. CASE SelectionThenEnd
    BY <2>4, <2>10 DEF SelectionThenEnd
  <2>11. CASE SelectionElseEnd
    BY <2>4, <2>11 DEF SelectionElseEnd
  <2>12. CASE IterationStmt
    BY <2>2, <2>3, <2>12 DEF IterationStmt, NextStatement
  <2>13. CASE IterationCond
    BY <2>2, <2>3, <2>13 DEF IterationCond
  <2>14. CASE IterationEnd
    BY <2>4, <2>14 DEF IterationEnd
  <2>15. CASE UNCHANGED builder_vars
    BY <2>4, <2>15 DEF builder_vars
  <2> QED
    BY <2>5, <2>6, <2>7, <2>8, <2>9, <2>10, <2>11, <2>12, <2>13, <2>14, <2>15 DEF Next
<1> QED
  BY BuilderInvariance, <1>1, <1>2, PTL DEF Spec

-----------------------------------------------------------------------------
(* The graphs that are analysed.                                            *)
Ready == BuilderInv /\ EdgesMirror /\ ListsInv /\ compiled

Entry(f) == basic_blocks[f][1]
Found(f) == All(succ_bbs, Entry(f))
Doms(f)  == DominatedBy(succ_bbs, Entry(f))

LEMMA ListFacts ==
    ASSUME Ready, NEW f \in Funcs
    PROVE  /\ basic_blocks[f] \in Seq(Blocks) /\ basic_blocks[f] # <<>>
           /\ Entry(f) \in BlocksOf(f) /\ BlocksOf(f) \subseteq Blocks
           /\ Inner(f) \subseteq BlocksOf(f) \ {Entry(f)}
           /\ \A b \in BlocksOf(f) : \E k \in 1 .. Len(basic_blocks[f]) : b = basic_blocks[f][k]
           /\ \A k \in 1 .. Len(basic_blocks[f]) : basic_blocks[f][k] \in BlocksOf(f)
<1>1. PICK s \in Seq(Blocks) : s = basic_blocks[f]
  BY DEF Ready, BuilderInv, Core, NumInv
<1>2. s # <<>>
  BY <1>1, BuilderAssumption DEF Ready, ListsInv, compiled, Funcs, BuilderAssumption
<1>3. PICK n \in Nat : n = Len(s) /\ DOMAIN s = 1 .. n
  BY LenProperties
<1>4. n >= 1
  BY <1>2, <1>3, EmptySeq
<1>5. ToSet(s) = {s[i] : i \in 1 .. n}
  BY <1>3 DEF ToSet
<1>6. s[1] \in ToSet(s) /\ ToSet(s) \subseteq Blocks
  <2>1. 1 \in 1 .. n
    BY <1>4
  <2>2. \A i \in 1 .. n : s[i] \in Blocks
    BY <1>3, ElementOfSeq
  <2> QED
    BY <1>5, <2>1, <2>2
<1>7. ToSet(Tail(s)) \subseteq ToSet(s) \ {s[1]}
  <2>1. /\ Tail(s) \in Seq(Blocks) /\ Len(Tail(s)) = n - 1
        /\ \A i \in 1 .. n - 1 : Tail(s)[i] = s[i + 1]
    BY <1>2, <1>3, HeadTailProperties
  <2>2. DOMAIN Tail(s) = 1 .. n - 1
    BY <2>1, LenProperties
  <2>3. IsInjective(s)
    BY <1>1 DEF Ready, ListsInv
  <2>4. ASSUME NEW i \in 1 .. n - 1 PROVE Tail(s)[i] \in ToSet(s) \ {s[1]}
    <3>1. i + 1 \in 1 .. n /\ 1 \in 1 .. n /\ i + 1 # 1
      BY <1>3, <2>4
    <3>2. s[i + 1] # s[1]
      BY <1>3, <2>3, <3>1 DEF IsInjective
    <3> QED
      BY <1>5, <2>1, <2>4, <3>1, <3>2
  <2> QED
    BY <2>2, <2>4 DEF ToSet
<1> QED
  BY <1>1, <1>2, <1>3, <1>5, <1>6, <1>7 DEF BlocksOf, Inner, Entry

LEMMA GraphFacts ==
    ASSUME Ready, NEW f \in Funcs
    PROVE  /\ succ_bbs \in [Blocks -> Seq(Blocks)] /\ pre_bbs \in [Blocks -> Seq(Blocks)]
           /\ \A a, b \in Blocks : a \in ToSet(pre_bbs[b]) <=> b \in ToSet(succ_bbs[a])
           /\ \A b \in BlocksOf(f) : ToSet(succ_bbs[b]) \subseteq BlocksOf(f) \ {Entry(f)}
           /\ \A b \in BlocksOf(f) : ToSet(pre_bbs[b]) \subseteq BlocksOf(f)
           /\ ToSet(pre_bbs[Entry(f)]) = {}
           /\ \A g \in Funcs \ {f} : BlocksOf(f) \cap BlocksOf(g) = {}
<1>1. /\ succ_bbs \in [Blocks -> Seq(Blocks)] /\ pre_bbs \in [Blocks -> Seq(Blocks)]
      /\ \A a, b \in Blocks : a \in ToSet(pre_bbs[b]) <=> b \in ToSet(succ_bbs[a])
      /\ \A b \in Blocks : terminator[b] = "br" <=> succ_bbs[b] # <<>>
  BY DEF Ready, BuilderInv, Core, GraphOK, Mirrored, GraphType, Graph
<1>2. \A g \in Funcs : \A b \in BlocksOf(g) : ToSet(succ_bbs[b]) \subseteq Inner(g)
  BY DEF Ready, BuilderInv, Core
<1>3. \A g \in Funcs : /\ Entry(g) \in BlocksOf(g) /\ BlocksOf(g) \subseteq Blocks
                       /\ Inner(g) \subseteq BlocksOf(g) \ {Entry(g)}
  BY ListFacts
<1>4. \A g, h \in Funcs : g # h => BlocksOf(g) \cap BlocksOf(h) = {}
  BY DEF Ready, BuilderInv, Core, NumInv
<1>5. ASSUME NEW b \in BlocksOf(f), NEW p \in ToSet(pre_bbs[b])
      PROVE  p \in BlocksOf(f) /\ b # Entry(f)
  <2>1. b \in Blocks
    BY <1>3
  <2>2. p \in Blocks
    <3>1. pre_bbs[b] \in Seq(Blocks)
      BY <1>1, <2>1
    <3> QED
      BY <3>1, ElementOfSeq, LenProperties DEF ToSet
  <2>3. b \in ToSet(succ_bbs[p])
    BY <1>1, <2>1, <2>2
  <2>4. succ_bbs[p] # <<>>
    BY <2>3 DEF ToSet
  <2>5. p \in Created
    BY <1>1, <2>2, <2>4 DEF Ready, BuilderInv, Core, is_terminated
  <2>6. PICK g \in Funcs : p \in BlocksOf(g)
    BY <2>5 DEF Created, BlocksOf
  <2>7. b \in BlocksOf(g) /\ b # Entry(g)
    BY <1>2, <1>3, <2>3, <2>6
  <2> QED
    BY <1>4, <2>6, <2>7
<1>6. ToSet(pre_bbs[Entry(f)]) = {}
  BY <1>3, <1>5
<1>7. \A b \in BlocksOf(f) : ToSet(pre_bbs[b]) \subseteq BlocksOf(f)
  BY <1>5
<1> QED
  BY <1>1, <1>2, <1>3, <1>4, <1>6, <1>7

LEMMA FoundFacts ==
    ASSUME Ready, NEW f \in Funcs
    PROVE  /\ IsFlowGraph(succ_bbs, Entry(f))
           /\ Found(f) \subseteq BlocksOf(f) /\ Entry(f) \in Found(f)
           /\ \A b \in Found(f) : ToSet(succ_bbs[b]) \subseteq Found(f)
<1>1. /\ succ_bbs \in [Blocks -> Seq(Blocks)] /\ Entry(f) \in BlocksOf(f) /\ BlocksOf(f) \subseteq Blocks
      /\ \A b \in BlocksOf(f) : ToSet(succ_bbs[b]) \subseteq BlocksOf(f)
  BY GraphFacts, ListFacts
<1>2. IsGraph(succ_bbs)
  <2>1. IsFiniteSet(Blocks)
    BY BuilderAssumption, FS_Interval DEF Blocks, BuilderAssumption
  <2>2. \A b \in Blocks : ToSet(succ_bbs[b]) \subseteq Blocks
    <3> SUFFICES ASSUME NEW b \in Blocks PROVE ToSet(succ_bbs[b]) \subseteq Blocks
      OBVIOUS
    <3>1. succ_bbs[b] \in Seq(Blocks)
      BY <1>1
    <3> QED
      BY <3>1, ElementOfSeq, LenProperties DEF ToSet
  <2> QED
    BY <1>1, <2>1, <2>2 DEF IsGraph
<1>3. IsFlowGraph(succ_bbs, Entry(f))
  BY <1>1, <1>2 DEF IsFlowGraph, Blocks
<1>4. Closed(succ_bbs, 0, BlocksOf(f))
  BY <1>1 DEF Closed
<1>5. Found(f) \subseteq BlocksOf(f)
  BY <1>1, <1>2, <1>3, <1>4, ReachLeast DEF Found, All
<1> QED
  BY <1>3, <1>5, DomValue DEF Found

-----------------------------------------------------------------------------
(* The steps.  The graphs stand still from the first analysis on.           *)
LEMMA AnalysisStep ==
    ASSUME func # 0 => compiled, [NextAnalysis]_all_vars
    PROVE  \/ dom_vars' = dom_vars /\ (func # 0 => builder_vars' = builder_vars)
           \/ compiled /\ D!NextDominators /\ builder_vars' = builder_vars
<1>1. CASE Build
  <2>1. ASSUME compiled, Next PROVE FALSE
    <3>1. visiting = <<>> /\ ~(built < MaxFuncs)
      BY <2>1, BuilderAssumption DEF compiled, BuilderAssumption
    <3>2. ~NextStatement /\ ~NextExpression
      BY <3>1 DEF NextStatement, NextExpression
    <3>3. ~FunDeclaration
      BY <3>1 DEF FunDeclaration
    <3>4. ~FunDeclarationEnd
      BY <3>1 DEF FunDeclarationEnd
    <3>5. ~ReturnStmt
      BY <3>2 DEF ReturnStmt
    <3>6. ~IndexedVar
      BY <3>2 DEF IndexedVar
    <3>7. ~\E has_else \in BOOLEAN : SelectionStmt(has_else)
      BY <3>2 DEF SelectionStmt
    <3>8. ~SelectionThenEnd /\ ~SelectionElseEnd
      BY <3>1 DEF SelectionThenEnd, SelectionElseEnd
    <3>9. ~IterationStmt
      BY <3>2 DEF IterationStmt
    <3>10. ~IterationCond /\ ~IterationEnd
      BY <3>1 DEF IterationCond, IterationEnd
    <3> QED
      BY <2>1, <3>3, <3>4, <3>5, <3>6, <3>7, <3>8, <3>9, <3>10 DEF Next
  <2> QED
    BY <1>1, <2>1 DEF Build
<1>2. CASE Analyse
  BY <1>2 DEF Analyse
<1>3. CASE Detect
  BY <1>3 DEF Detect
<1>4. CASE UNCHANGED all_vars
  BY <1>4 DEF all_vars
<1> QED
  BY <1>1, <1>2, <1>3, <1>4 DEF NextAnalysis, Run

(* Where the iterators stand.                                               *)
Places ==
    /\ func = 0 => pc = "idle"
    /\ func # 0 => compiled
    /\ pc \in {"sweep", "preds", "intersect"} => cursor <= Len(post_order_vec)
    /\ pc \in {"preds", "intersect", "frontier", "runner"} => cursor >= 1
    /\ pc = "intersect" => pre <= Len(pre_bbs[post_order_vec[cursor]])
    /\ pc = "runner" => /\ cursor <= Len(basic_blocks[func])
                        /\ pre <= Len(pre_bbs[basic_blocks[func][cursor]])
                        /\ Len(pre_bbs[basic_blocks[func][cursor]]) > 1

Placed == D!TypeOK /\ Places

LEMMA Entries ==
    ASSUME NEW S, NEW s \in Seq(S), NEW i \in 1 .. Len(s)
    PROVE  s[i] \in S
BY ElementOfSeq

LEMMA PlacedSearch ==
    ASSUME Ready, Placed, UNCHANGED builder_vars,
           D!RunOnFunc \/ D!DfsEnter \/ D!DfsLeave \/ D!CreateIdom
    PROVE  Placed'
<1>0. /\ UNCHANGED <<basic_blocks, succ_bbs, pre_bbs>> /\ compiled /\ compiled'
      /\ Funcs \subseteq Nat \ {0}
  BY DEF builder_vars, Ready, compiled, Funcs
<1>1. CASE D!RunOnFunc
  <2>1. PICK f \in Funcs : f = func + 1
    BY <1>1 DEF D!RunOnFunc
  <2>2. basic_blocks[f][1] \in Blocks
    BY ListFacts DEF Entry
  <2>3. func' = f /\ visited' = {basic_blocks[f][1]} /\ path' = <<basic_blocks[f][1]>> /\ pc' = "dfs"
    BY <1>1, <2>1 DEF D!RunOnFunc, D!entry
  <2>4. path' \in Seq(Blocks)
    BY <2>2, <2>3
  <2>5. UNCHANGED <<post_order_vec, post_order, idom, changed, cursor, pre, new_idom, b1, b2,
                    dom_frontier, dom_tree_succ, dom_tree_L, dom_tree_R, order>>
    BY <1>1 DEF D!RunOnFunc, D!po_vars, D!local_vars, D!tree_vars
  <2>6. D!TypeOK'
    BY <2>2, <2>3, <2>4, <2>5 DEF Placed, D!TypeOK, D!Phases, D!Maybe, D!NoBlock
  <2> QED
    BY <1>0, <2>3, <2>5, <2>6 DEF Placed, Places
<1>2. CASE D!DfsEnter
  <2>1. /\ pc = "dfs" /\ path # <<>> /\ path \in Seq(Blocks)
        /\ UNCHANGED <<pc, func, post_order_vec, post_order, idom, changed, cursor, pre, new_idom,
                       b1, b2, dom_frontier, dom_tree_succ, dom_tree_L, dom_tree_R, order>>
    BY <1>2 DEF D!DfsEnter, D!po_vars, D!local_vars, D!tree_vars, Placed, D!TypeOK
  <2>2. PICK b \in Blocks : b = D!last
    BY <2>1 DEF D!last
  <2>3. PICK i \in DOMAIN succ_bbs[b] : /\ visited' = visited \cup {succ_bbs[b][i]}
                                        /\ path' = Append(path, succ_bbs[b][i])
    BY <1>2, <2>2 DEF D!DfsEnter
  <2>4. succ_bbs[b][i] \in Blocks
    <3>1. succ_bbs[b] \in Seq(Blocks)
      BY <2>2 DEF Ready, BuilderInv, Core, GraphOK, GraphType, Graph
    <3> QED
      BY <3>1
  <2>5. path' \in Seq(Blocks) /\ visited' \subseteq Blocks
    <3>1. path' \in Seq(Blocks)
      BY <2>1, <2>3, <2>4, AppendSet
    <3>2. visited \subseteq Blocks
      BY DEF Placed, D!TypeOK
    <3> QED
      BY <2>3, <2>4, <3>1, <3>2
  <2>6. D!TypeOK'
    BY <2>1, <2>5 DEF Placed, D!TypeOK, D!Phases, D!Maybe, D!NoBlock
  <2> QED
    BY <1>0, <2>1, <2>6 DEF Placed, Places
<1>3. CASE D!DfsLeave
  <2>1. /\ pc = "dfs" /\ path # <<>> /\ path \in Seq(Blocks)
        /\ UNCHANGED <<pc, func, visited, idom, changed, cursor, pre, new_idom,
                       b1, b2, dom_frontier, dom_tree_succ, dom_tree_L, dom_tree_R, order>>
        /\ post_order_vec' = Append(post_order_vec, D!last)
        /\ post_order' = [post_order EXCEPT ![D!last] = Len(post_order_vec) + 1]
        /\ path' = SubSeq(path, 1, Len(path) - 1)
    BY <1>3 DEF D!DfsLeave, D!local_vars, D!tree_vars, Placed, D!TypeOK, D!next_number
  <2>2. PICK b \in Blocks : b = D!last
    BY <2>1 DEF D!last
  <2>3. post_order_vec' \in Seq(Blocks) /\ post_order' \in [Blocks -> Nat]
    BY <2>1, <2>2 DEF Placed, D!TypeOK
  <2>4. path' \in Seq(Blocks)
    BY <2>1
  <2>5. D!TypeOK'
    BY <2>1, <2>3, <2>4 DEF Placed, D!TypeOK, D!Phases, D!Maybe, D!NoBlock
  <2> QED
    BY <1>0, <2>1, <2>5 DEF Placed, Places
<1>4. CASE D!CreateIdom
  <2>1. /\ pc = "dfs" /\ pc' = "sweep" /\ changed' = FALSE /\ cursor' = Len(post_order_vec)
        /\ UNCHANGED <<func, visited, path, post_order_vec, post_order, pre, new_idom,
                       b1, b2, dom_frontier, dom_tree_succ, dom_tree_L, dom_tree_R, order>>
    BY <1>4 DEF D!CreateIdom, D!local_vars, D!tree_vars, D!search_vars, D!po_vars, D!rbegin
  <2>2. idom' \in [Blocks -> Blocks \cup {0}]
    BY <1>4 DEF D!CreateIdom, Placed, D!TypeOK, D!Maybe, D!NoBlock
  <2>3. Len(post_order_vec) \in Nat
    BY DEF Placed, D!TypeOK
  <2>4. D!TypeOK'
    BY <2>1, <2>2, <2>3 DEF Placed, D!TypeOK, D!Phases, D!Maybe, D!NoBlock
  <2> QED
    BY <1>0, <2>1, <2>3, <2>4 DEF Placed, Places
<1> QED
  BY <1>1, <1>2, <1>3, <1>4

LEMMA PlacedSweep ==
    ASSUME Ready, Placed, UNCHANGED builder_vars,
           D!SweepBlock \/ D!SweepEnd \/ D!NextPred \/ D!SetIdom \/ D!Intersect \/ D!IntersectEnd
    PROVE  Placed'
<1>0. /\ UNCHANGED <<basic_blocks, succ_bbs, pre_bbs>> /\ compiled /\ compiled'
      /\ Len(post_order_vec) \in Nat
  BY DEF builder_vars, Ready, compiled, Placed, D!TypeOK
<1>1. CASE D!SweepBlock
  <2>1. /\ pc = "sweep" /\ cursor > 0
        /\ (cursor' = cursor - 1 /\ pc' = pc) \/ (pc' = "preds" /\ cursor' = cursor)
        /\ UNCHANGED <<func, visited, path, post_order_vec, post_order, idom, changed, pre, new_idom,
                       b1, b2, dom_frontier, dom_tree_succ, dom_tree_L, dom_tree_R, order>>
    BY <1>1 DEF D!SweepBlock, D!local_vars, D!tree_vars, D!search_vars, D!po_vars
  <2>2. cursor' \in Nat /\ cursor' <= cursor /\ pc' \in {"sweep", "preds"}
    BY <2>1 DEF Placed, D!TypeOK
  <2>3. D!TypeOK'
    BY <2>1, <2>2 DEF Placed, D!TypeOK, D!Phases, D!Maybe, D!NoBlock
  <2>4. Places'
    BY <1>0, <2>1, <2>2 DEF Placed, Places, D!TypeOK
  <2> QED
    BY <2>3, <2>4 DEF Placed
<1>2. CASE D!SweepEnd
  <2>1. /\ pc = "sweep"
        /\ \/ changed' = FALSE /\ cursor' = Len(post_order_vec) /\ pc' = "sweep"
           \/ changed' = changed /\ cursor' = 1 /\ pc' = "frontier"
        /\ UNCHANGED <<func, visited, path, post_order_vec, post_order, idom, pre, new_idom,
                       b1, b2, dom_frontier, dom_tree_succ, dom_tree_L, dom_tree_R, order>>
    BY <1>2 DEF D!SweepEnd, D!local_vars, D!tree_vars, D!search_vars, D!po_vars, D!rbegin
  <2>2. changed' \in BOOLEAN /\ cursor' \in Nat /\ pc' \in {"sweep", "frontier"}
    <3>1. changed \in BOOLEAN
      BY DEF Placed, D!TypeOK
    <3>2. changed' = FALSE \/ changed' = changed
      BY <2>1
    <3>3. changed' \in BOOLEAN
      BY <3>1, <3>2
    <3>4. cursor' \in Nat /\ pc' \in {"sweep", "frontier"}
      BY <1>0, <2>1
    <3> QED
      BY <3>3, <3>4
  <2>3. D!TypeOK'
    <3>1. UNCHANGED <<func, visited, path, post_order_vec, post_order, idom, pre, new_idom,
                      b1, b2, dom_frontier, dom_tree_succ, dom_tree_L, dom_tree_R, order>>
      BY <2>1
    <3> QED
      BY <2>2, <3>1 DEF Placed, D!TypeOK, D!Phases, D!Maybe, D!NoBlock
  <2> QED
    BY <1>0, <2>1, <2>3 DEF Placed, Places
<1>3. CASE D!NextPred
  <2>1. PICK bb \in Blocks : bb = post_order_vec[cursor]
    <3>1. cursor \in 1 .. Len(post_order_vec)
      BY <1>0, <1>3 DEF D!NextPred, Placed, Places, D!TypeOK
    <3> QED
      BY <3>1, Entries DEF Placed, D!TypeOK
  <2>2. PICK p \in Blocks : p = pre_bbs[bb][pre]
    <3>1. pre_bbs[bb] \in Seq(Blocks)
      BY <2>1 DEF Ready, BuilderInv, Core, GraphOK, GraphType, Graph
    <3>2. pre \in 1 .. Len(pre_bbs[bb])
      BY <1>3, <2>1, <3>1, LenProperties DEF D!NextPred, Placed, D!TypeOK
    <3> QED
      BY <3>1, <3>2, Entries
  <2>3. /\ pc = "preds" /\ pre <= Len(pre_bbs[bb])
        /\ \/ pre' = pre + 1 /\ new_idom' \in {new_idom, p} /\ UNCHANGED <<pc, b1, b2>>
           \/ b1' = new_idom /\ b2' = p /\ pc' = "intersect" /\ UNCHANGED <<pre, new_idom>>
        /\ UNCHANGED <<func, visited, path, post_order_vec, post_order, idom, changed, cursor,
                       dom_frontier, dom_tree_succ, dom_tree_L, dom_tree_R, order>>
    BY <1>3, <2>1, <2>2 DEF D!NextPred, D!tree_vars, D!search_vars, D!po_vars
  <2>4. D!TypeOK'
    <3>1. /\ pc' \in {"preds", "intersect"} /\ pre' \in Nat \ {0} /\ new_idom' \in Blocks \cup {0}
          /\ b1' \in Blocks \cup {0} /\ b2' \in Blocks \cup {0}
      <4>1. /\ pc = "preds" /\ pre \in Nat \ {0} /\ new_idom \in Blocks \cup {0}
            /\ b1 \in Blocks \cup {0} /\ b2 \in Blocks \cup {0}
        BY <2>3 DEF Placed, D!TypeOK, D!Maybe, D!NoBlock
      <4>2. CASE pre' = pre + 1 /\ new_idom' \in {new_idom, p} /\ UNCHANGED <<pc, b1, b2>>
        BY <2>2, <4>1, <4>2
      <4>3. CASE b1' = new_idom /\ b2' = p /\ pc' = "intersect" /\ UNCHANGED <<pre, new_idom>>
        BY <2>2, <4>1, <4>3
      <4> QED
        BY <2>3, <4>2, <4>3
    <3>2. UNCHANGED <<func, visited, path, post_order_vec, post_order, idom, changed, cursor,
                      dom_frontier, dom_tree_succ, dom_tree_L, dom_tree_R, order>>
      BY <2>3
    <3> QED
      BY <3>1, <3>2 DEF Placed, D!TypeOK, D!Phases, D!Maybe, D!NoBlock
  <2> QED
    BY <1>0, <2>1, <2>3, <2>4 DEF Placed, Places
<1>4. CASE D!SetIdom
  <2>1. /\ pc = "preds"
        /\ idom' = [idom EXCEPT ![post_order_vec[cursor]] = new_idom]
        /\ changed' = (changed \/ idom[post_order_vec[cursor]] # new_idom)
        /\ cursor' = cursor - 1 /\ pc' = "sweep"
        /\ pre' = 1 /\ new_idom' = 0 /\ b1' = 0 /\ b2' = 0
        /\ UNCHANGED <<func, visited, path, post_order_vec, post_order,
                       dom_frontier, dom_tree_succ, dom_tree_L, dom_tree_R, order>>
    BY <1>4 DEF D!SetIdom, D!locals, D!NoBlock, D!tree_vars, D!search_vars, D!po_vars
  <2>2. idom' \in [Blocks -> Blocks \cup {0}]
    BY <2>1 DEF Placed, D!TypeOK, D!Maybe, D!NoBlock
  <2>3. changed' \in BOOLEAN
    BY <2>1 DEF Placed, D!TypeOK
  <2>4. cursor' \in Nat /\ cursor' <= cursor /\ cursor \in Nat
    BY <2>1 DEF Placed, Places, D!TypeOK
  <2>5. D!TypeOK'
    <3>1. UNCHANGED <<func, visited, path, post_order_vec, post_order,
                      dom_frontier, dom_tree_succ, dom_tree_L, dom_tree_R, order>>
      BY <2>1
    <3>2. pc' = "sweep" /\ pre' = 1 /\ new_idom' = 0 /\ b1' = 0 /\ b2' = 0
      BY <2>1
    <3> QED
      BY <2>2, <2>3, <2>4, <3>1, <3>2 DEF Placed, D!TypeOK, D!Phases, D!Maybe, D!NoBlock
  <2> QED
    BY <1>0, <2>1, <2>4, <2>5 DEF Placed, Places
<1>5. CASE D!Intersect
  <2>1. /\ pc = "intersect"
        /\ \/ pc' = "crash" /\ UNCHANGED <<b1, b2>>
           \/ b1 # 0 /\ b1' = idom[b1] /\ UNCHANGED <<pc, b2>>
           \/ b2 # 0 /\ b2' = idom[b2] /\ UNCHANGED <<pc, b1>>
        /\ UNCHANGED <<func, visited, path, post_order_vec, post_order, idom, changed, cursor, pre,
                       new_idom, dom_frontier, dom_tree_succ, dom_tree_L, dom_tree_R, order>>
    BY <1>5 DEF D!Intersect, D!NoBlock, D!tree_vars, D!search_vars, D!po_vars
  <2>2. b1' \in Blocks \cup {0} /\ b2' \in Blocks \cup {0}
    BY <2>1 DEF Placed, D!TypeOK, D!Maybe, D!NoBlock
  <2>3. D!TypeOK'
    BY <2>1, <2>2 DEF Placed, D!TypeOK, D!Phases, D!Maybe, D!NoBlock
  <2> QED
    BY <1>0, <2>1, <2>3 DEF Placed, Places
<1>6. CASE D!IntersectEnd
  <2>1. /\ pc = "intersect" /\ pc' = "preds" /\ new_idom' = b1 /\ pre' = pre + 1 /\ b1' = 0 /\ b2' = 0
        /\ UNCHANGED <<func, visited, path, post_order_vec, post_order, idom, changed, cursor,
                       dom_frontier, dom_tree_succ, dom_tree_L, dom_tree_R, order>>
    BY <1>6 DEF D!IntersectEnd, D!NoBlock, D!tree_vars, D!search_vars, D!po_vars
  <2>2. D!TypeOK'
    BY <2>1 DEF Placed, D!TypeOK, D!Phases, D!Maybe, D!NoBlock
  <2> QED
    BY <1>0, <2>1, <2>2 DEF Placed, Places
<1> QED
  BY <1>1, <1>2, <1>3, <1>4, <1>5, <1>6

LEMMA PlacedFrontier ==
    ASSUME Ready, Placed, UNCHANGED builder_vars,
           D!FrontierBlock \/ D!Runner
    PROVE  Placed'
<1>0. UNCHANGED <<basic_blocks, succ_bbs, pre_bbs>> /\ compiled /\ compiled'
  BY DEF builder_vars, Ready, compiled
<1>1. PICK f \in Funcs : f = func
  BY DEF D!FrontierBlock, D!Runner, Placed, Places, D!TypeOK
<1>2. basic_blocks[f] \in Seq(Blocks) /\ Len(basic_blocks[f]) \in Nat
  BY ListFacts, LenProperties
<1>3. pre_bbs \in [Blocks -> Seq(Blocks)]
  BY DEF Ready, BuilderInv, Core, GraphOK, GraphType, Graph
<1>4. CASE D!FrontierBlock
  <2>1. PICK bb \in Blocks : bb = basic_blocks[f][cursor]
    <3>1. cursor \in 1 .. Len(basic_blocks[f])
      BY <1>1, <1>2, <1>4 DEF D!FrontierBlock, Placed, Places, D!TypeOK
    <3> QED
      BY <1>2, <3>1, Entries
  <2>2. Len(pre_bbs[bb]) \in Nat
    BY <1>3, LenProperties
  <2>3. /\ pc = "frontier" /\ cursor <= Len(basic_blocks[f])
        /\ UNCHANGED <<func, visited, path, post_order_vec, post_order, idom, changed, new_idom, b2,
                       dom_frontier, dom_tree_succ, dom_tree_L, dom_tree_R, order>>
        /\ IF Len(pre_bbs[bb]) > 1 /\ pre <= Len(pre_bbs[bb])
           THEN b1' = pre_bbs[bb][pre] /\ pc' = "runner" /\ UNCHANGED <<cursor, pre>>
           ELSE cursor' = cursor + 1 /\ pre' = 1 /\ UNCHANGED <<pc, b1>>
    BY <1>1, <1>4, <2>1 DEF D!FrontierBlock, D!joins, D!tree_vars, D!search_vars, D!po_vars
  <2>4. CASE Len(pre_bbs[bb]) > 1 /\ pre <= Len(pre_bbs[bb])
    <3>1. pre \in 1 .. Len(pre_bbs[bb])
      BY <2>2, <2>4 DEF Placed, D!TypeOK
    <3>2. pre_bbs[bb][pre] \in Blocks
      BY <1>3, <3>1, Entries
    <3>3. D!TypeOK'
      BY <2>3, <2>4, <3>2 DEF Placed, D!TypeOK, D!Phases, D!Maybe, D!NoBlock
    <3>4. Places'
      BY <1>0, <1>1, <2>1, <2>3, <2>4 DEF Placed, Places
    <3> QED
      BY <3>3, <3>4 DEF Placed
  <2>5. CASE ~(Len(pre_bbs[bb]) > 1 /\ pre <= Len(pre_bbs[bb]))
    <3>1. D!TypeOK'
      <4>1. cursor' \in Nat /\ pre' \in Nat \ {0} /\ pc' = "frontier" /\ b1' \in D!Maybe
        <5>1. cursor' = cursor + 1 /\ pre' = 1 /\ pc' = "frontier" /\ b1' = b1
          BY <2>3, <2>5
        <5>2. cursor \in Nat /\ b1 \in D!Maybe
          BY DEF Placed, D!TypeOK
        <5> QED
          BY <5>1, <5>2
      <4>2. changed' \in BOOLEAN /\ path' \in Seq(Blocks) /\ post_order_vec' \in Seq(Blocks)
        BY <2>3 DEF Placed, D!TypeOK
      <4> QED
        BY <2>3, <4>1, <4>2 DEF Placed, D!TypeOK, D!Phases
    <3>2. cursor \in Nat /\ cursor >= 1
      BY <2>3 DEF Placed, Places, D!TypeOK
    <3> QED
      BY <1>0, <2>3, <2>5, <3>1, <3>2 DEF Placed, Places
  <2> QED
    BY <2>4, <2>5
<1>5. CASE D!Runner
  <2>1. PICK bb \in Blocks : bb = basic_blocks[f][cursor]
    <3>1. cursor \in 1 .. Len(basic_blocks[f])
      BY <1>1, <1>2, <1>5 DEF D!Runner, Placed, Places, D!TypeOK
    <3> QED
      BY <1>2, <3>1, Entries
  <2>2. /\ pc = "runner"
        /\ UNCHANGED <<func, visited, path, post_order_vec, post_order, idom, changed, cursor,
                       new_idom, b2, dom_tree_succ, dom_tree_L, dom_tree_R, order>>
        /\ \/ pc' = "frontier" /\ pre' = pre + 1 /\ b1' = 0 /\ UNCHANGED dom_frontier
           \/ pc' = "crash" /\ UNCHANGED <<pre, b1, dom_frontier>>
           \/ /\ b1 # 0 /\ b1' = idom[b1] /\ UNCHANGED <<pc, pre>>
              /\ dom_frontier' = [dom_frontier EXCEPT ![b1] = @ \cup {bb}]
    BY <1>1, <1>5, <2>1 DEF D!Runner, D!NoBlock, D!tree_vars, D!search_vars, D!po_vars
  <2>3. dom_frontier' \in [Blocks -> SUBSET Blocks]
    <3>1. dom_frontier \in [Blocks -> SUBSET Blocks]
      BY DEF Placed, D!TypeOK
    <3> QED
      BY <2>2, <3>1
  <2>4. b1' \in Blocks \cup {0} /\ pre' \in Nat \ {0} /\ pc' \in {"frontier", "crash", "runner"}
    <3>1. b1 \in Blocks \cup {0} /\ idom \in [Blocks -> Blocks \cup {0}] /\ pre \in Nat \ {0}
      BY DEF Placed, D!TypeOK, D!Maybe, D!NoBlock
    <3>2. b1 # 0 => idom[b1] \in Blocks \cup {0}
      BY <3>1
    <3> QED
      BY <2>2, <3>1, <3>2
  <2>5. D!TypeOK'
    <3>1. UNCHANGED <<func, visited, path, post_order_vec, post_order, idom, changed, cursor,
                      new_idom, b2, dom_tree_succ, dom_tree_L, dom_tree_R, order>>
      BY <2>2
    <3> QED
      BY <2>3, <2>4, <3>1 DEF Placed, D!TypeOK, D!Phases, D!Maybe, D!NoBlock
  <2> QED
    BY <1>0, <2>2, <2>5 DEF Placed, Places
<1> QED
  BY <1>4, <1>5

LEMMA PlacedTree ==
    ASSUME Ready, Placed, UNCHANGED builder_vars,
           \/ D!CreateDomTree \/ D!OrderLeave \/ D!FuncDone
           \/ \E c \in Blocks : D!OrderEnter(c)
    PROVE  Placed'
<1>0. UNCHANGED <<basic_blocks, succ_bbs, pre_bbs>> /\ compiled /\ compiled'
  BY DEF builder_vars, Ready, compiled
<1>1. CASE D!CreateDomTree
  <2>1. PICK e \in Blocks : e = basic_blocks[func][1]
    <3>1. func \in Funcs
      BY <1>1 DEF D!CreateDomTree, Placed, Places, D!TypeOK
    <3> QED
      BY <3>1, ListFacts DEF Entry
  <2>2. /\ pc = "frontier" /\ pc' = "order" /\ visited' = {e} /\ path' = <<e>> /\ order' = 1
        /\ dom_tree_succ' = [b \in Blocks |-> dom_tree_succ[b] \cup
               {c \in D!Own(func) \ {e} : idom[c] = b}]
        /\ dom_tree_L' = [dom_tree_L EXCEPT ![e] = 1]
        /\ UNCHANGED <<func, post_order_vec, post_order, idom, changed, cursor, pre, new_idom, b1, b2,
                       dom_frontier, dom_tree_R>>
    BY <1>1, <2>1 DEF D!CreateDomTree, D!entry, D!local_vars, D!po_vars
  <2>3. D!Own(func) \subseteq Blocks
    <3>1. func \in Funcs
      BY <1>1 DEF D!CreateDomTree, Placed, Places, D!TypeOK
    <3>2. BlocksOf(func) \subseteq Blocks
      BY <3>1, ListFacts
    <3> QED
      BY <3>2 DEF D!Own, BlocksOf, D!ToSet, ToSet
  <2>4. dom_tree_succ' \in [Blocks -> SUBSET Blocks] /\ dom_tree_L' \in [Blocks -> Nat]
    BY <2>2, <2>3 DEF Placed, D!TypeOK
  <2>5. path' \in Seq(Blocks)
    BY <2>1, <2>2
  <2>6. D!TypeOK'
    BY <2>1, <2>2, <2>4, <2>5 DEF Placed, D!TypeOK, D!Phases, D!Maybe, D!NoBlock
  <2> QED
    BY <1>0, <2>2, <2>6 DEF Placed, Places
<1>2. CASE D!OrderLeave
  <2>1. /\ pc = "order" /\ path # <<>> /\ path' = SubSeq(path, 1, Len(path) - 1)
        /\ dom_tree_R' = [dom_tree_R EXCEPT ![D!last] = order]
        /\ UNCHANGED <<pc, func, visited, post_order_vec, post_order, idom, changed, cursor, pre,
                       new_idom, b1, b2, dom_frontier, dom_tree_succ, dom_tree_L, order>>
    BY <1>2 DEF D!OrderLeave, D!number_at_exit, D!local_vars, D!po_vars
  <2>2. dom_tree_R' \in [Blocks -> Nat] /\ path' \in Seq(Blocks)
    <3>1. path' \in Seq(Blocks)
      BY <2>1 DEF Placed, D!TypeOK
    <3>2. dom_tree_R \in [Blocks -> Nat] /\ order \in Nat
      BY DEF Placed, D!TypeOK
    <3> QED
      BY <2>1, <3>1, <3>2
  <2>3. D!TypeOK'
    BY <2>1, <2>2 DEF Placed, D!TypeOK, D!Phases, D!Maybe, D!NoBlock
  <2> QED
    BY <1>0, <2>1, <2>3 DEF Placed, Places
<1>3. CASE D!FuncDone
  <2>1. /\ pc = "order" /\ pc' = "idle" /\ cursor' = 0 /\ visited' = {}
        /\ UNCHANGED <<func, path, post_order_vec, post_order, idom, changed, pre, new_idom, b1, b2,
                       dom_frontier, dom_tree_succ, dom_tree_L, dom_tree_R, order>>
    BY <1>3 DEF D!FuncDone, D!local_vars, D!po_vars, D!tree_vars
  <2>2. D!TypeOK'
    BY <2>1 DEF Placed, D!TypeOK, D!Phases, D!Maybe, D!NoBlock
  <2> QED
    BY <1>0, <2>1, <2>2 DEF Placed, Places
<1>4. CASE \E c \in Blocks : D!OrderEnter(c)
  <2>1. PICK c \in Blocks : D!OrderEnter(c)
    BY <1>4
  <2>2. /\ pc = "order" /\ visited' = visited \cup {c} /\ path' = Append(path, c)
        /\ order' = order + 1 /\ dom_tree_L' = [dom_tree_L EXCEPT ![c] = order + 1]
        /\ UNCHANGED <<pc, func, post_order_vec, post_order, idom, changed, cursor, pre, new_idom,
                       b1, b2, dom_frontier, dom_tree_succ, dom_tree_R>>
    BY <2>1 DEF D!OrderEnter, D!local_vars, D!po_vars
  <2>3. dom_tree_L' \in [Blocks -> Nat] /\ path' \in Seq(Blocks)
    <3>1. path' \in Seq(Blocks)
      BY <2>2, AppendSet DEF Placed, D!TypeOK
    <3> QED
      BY <2>2, <3>1 DEF Placed, D!TypeOK
  <2>4. D!TypeOK'
    BY <2>2, <2>3 DEF Placed, D!TypeOK, D!Phases, D!Maybe, D!NoBlock
  <2> QED
    BY <1>0, <2>2, <2>4 DEF Placed, Places
<1> QED
  BY <1>1, <1>2, <1>3, <1>4

Built == BuilderInv /\ EdgesMirror /\ ListsInv

LEMMA BuiltAlways == SpecAnalysis => []Built
BY AnalysisReads, BuilderInvariance, EdgesAgree, ListsAlways, PTL DEF Built

LEMMA PlacedInit == InitAnalysis => Placed
<1> SUFFICES ASSUME D!InitDominators PROVE Placed
  BY DEF InitAnalysis
<1>1. /\ pc = "idle" /\ func = 0 /\ visited = {} /\ path = <<>>
      /\ post_order_vec = <<>> /\ post_order = [b \in Blocks |-> 0]
      /\ idom = [b \in Blocks |-> 0] /\ changed = FALSE /\ cursor = 0
      /\ pre = 1 /\ new_idom = 0 /\ b1 = 0 /\ b2 = 0
      /\ dom_frontier = [b \in Blocks |-> {}] /\ dom_tree_succ = [b \in Blocks |-> {}]
      /\ dom_tree_L = [b \in Blocks |-> 0] /\ dom_tree_R = [b \in Blocks |-> 0] /\ order = 0
  BY DEF D!InitDominators, D!NoBlock
<1>2. D!TypeOK
  <2>1. path \in Seq(Blocks) /\ post_order_vec \in Seq(Blocks)
    BY <1>1
  <2>2. dom_frontier \in [Blocks -> SUBSET Blocks] /\ dom_tree_succ \in [Blocks -> SUBSET Blocks]
    BY <1>1
  <2>3. idom \in [Blocks -> Blocks \cup {0}] /\ post_order \in [Blocks -> Nat]
    BY <1>1
  <2>4. dom_tree_L \in [Blocks -> Nat] /\ dom_tree_R \in [Blocks -> Nat]
    BY <1>1
  <2>5. /\ pc \in D!Phases /\ func \in Funcs \cup {0} /\ visited \subseteq Blocks
        /\ cursor \in Nat /\ pre \in Nat \ {0} /\ order \in Nat
    BY <1>1 DEF D!Phases
  <2>6. changed \in BOOLEAN
    BY <1>1
  <2>7. new_idom \in Blocks \cup {0} /\ b1 \in Blocks \cup {0} /\ b2 \in Blocks \cup {0}
    BY <1>1
  <2> QED
    BY <2>1, <2>2, <2>3, <2>4, <2>5, <2>6, <2>7 DEF D!TypeOK, D!Maybe, D!NoBlock
<1> QED
  BY <1>1, <1>2 DEF Placed, Places

LEMMA PlacedAlways == SpecAnalysis => []Placed
<1>1. Built /\ Placed /\ [NextAnalysis]_all_vars => Placed'
  <2> SUFFICES ASSUME Built, Placed, [NextAnalysis]_all_vars PROVE Placed'
    OBVIOUS
  <2>1. func # 0 => compiled
    BY DEF Placed, Places
  <2>2. CASE dom_vars' = dom_vars /\ (func # 0 => builder_vars' = builder_vars)
    <3>1. func = 0 => pc = "idle"
      BY DEF Placed, Places
    <3>2. D!TypeOK'
      BY <2>2 DEF Placed, D!TypeOK, D!Phases, D!Maybe, D!NoBlock, dom_vars
    <3>3. Places'
      BY <2>1, <2>2, <3>1 DEF Placed, Places, dom_vars, builder_vars, compiled
    <3> QED
      BY <3>2, <3>3 DEF Placed
  <2>3. CASE compiled /\ D!NextDominators /\ builder_vars' = builder_vars
    <3>1. Ready
      BY <2>3 DEF Ready, Built
    <3> QED
      BY <2>3, <3>1, PlacedSearch, PlacedSweep, PlacedFrontier, PlacedTree DEF D!NextDominators
  <2> QED
    BY <2>1, <2>2, <2>3, AnalysisStep
<1> QED
  BY BuiltAlways, PlacedInit, <1>1, PTL DEF SpecAnalysis

-----------------------------------------------------------------------------
(* The post order.                                                          *)

(* A list without its last element.                                         *)
Shortened(t, s, S) == /\ t \in Seq(S) /\ Len(t) = Len(s) - 1 /\ IsInjective(t)
                      /\ \A i \in 1 .. Len(s) - 1 : t[i] = s[i]
                      /\ ToSet(t) = ToSet(s) \ {s[Len(s)]}

LEMMA FrontFacts ==
    ASSUME NEW S, NEW s \in Seq(S), s # <<>>, IsInjective(s), NEW t, t = SubSeq(s, 1, Len(s) - 1)
    PROVE  Shortened(t, s, S)
<1>1. PICK n \in Nat : n = Len(s) /\ DOMAIN s = 1 .. n
  BY LenProperties
<1>2. n >= 1
  BY <1>1, EmptySeq
<1>3. /\ t \in Seq(S) /\ Len(t) = n - 1 /\ \A i \in 1 .. n - 1 : t[i] = s[i]
  BY <1>1, <1>2
<1>4. DOMAIN t = 1 .. n - 1
  BY <1>3, LenProperties
<1>5. \A i, j \in 1 .. n : s[i] = s[j] => i = j
  BY <1>1 DEF IsInjective
<1>6. IsInjective(t)
  <2> SUFFICES ASSUME NEW i \in 1 .. n - 1, NEW j \in 1 .. n - 1, t[i] = t[j] PROVE i = j
    BY <1>4 DEF IsInjective
  <2>1. i \in 1 .. n /\ j \in 1 .. n
    BY <1>1
  <2> QED
    BY <1>3, <1>5, <2>1
<1>7. ToSet(t) = {s[i] : i \in 1 .. n - 1}
  BY <1>3, <1>4 DEF ToSet
<1>8. ToSet(s) = {s[i] : i \in 1 .. n}
  BY <1>1 DEF ToSet
<1>9. 1 .. n - 1 = (1 .. n) \ {n} /\ n \in 1 .. n
  BY <1>1, <1>2
<1>10. ToSet(t) = ToSet(s) \ {s[n]}
  BY <1>5, <1>7, <1>8, <1>9
<1> QED
  BY <1>1, <1>3, <1>6, <1>10 DEF Shortened

(* The numbers say where a block is in the list, which holds the blocks of  *)
(* the functions so far; an own block that is finished has all its          *)
(* successors entered, and was entered from one that is open or finished    *)
(* later.                                                                   *)
Numbered ==
    /\ \A i \in 1 .. Len(post_order_vec) : post_order[post_order_vec[i]] = i
    /\ \A f \in Funcs : f > func => BlocksOf(f) \cap ToSet(post_order_vec) = {}
    /\ func = 0 => post_order_vec = <<>>

Later(p, x) == post_order[p] > post_order[x]

OnPath ==
    /\ IsInjective(path) /\ ToSet(path) \subseteq visited
    /\ path # <<>> => path[1] = Entry(func)
    /\ \A k \in 2 .. Len(path) : path[k] \in ToSet(succ_bbs[path[k - 1]])

Finished ==
    /\ ToSet(post_order_vec) \cap BlocksOf(func) = visited \ ToSet(path)
    /\ \A x \in visited \ ToSet(path) :
          /\ ToSet(succ_bbs[x]) \subseteq visited
          /\ x # Entry(func) =>
                \E p \in visited : x \in ToSet(succ_bbs[p]) /\ (p \in ToSet(path) \/ Later(p, x))
    /\ path = <<>> => /\ post_order_vec # <<>>
                      /\ post_order_vec[Len(post_order_vec)] = Entry(func)

Searching == /\ visited \subseteq Found(func) /\ Entry(func) \in visited
             /\ OnPath /\ Finished

Ordered ==
    /\ ToSet(post_order_vec) \cap BlocksOf(func) = Found(func)
    /\ post_order_vec # <<>> /\ post_order_vec[Len(post_order_vec)] = Entry(func)
    /\ \A x \in Found(func) \ {Entry(func)} :
          \E p \in Found(func) : x \in ToSet(succ_bbs[p]) /\ Later(p, x)

Searched == /\ Numbered
            /\ pc = "dfs" => Searching
            /\ func # 0 /\ pc # "dfs" => Ordered

LEMMA SearchStart ==
    ASSUME Ready, Placed, Searched, UNCHANGED builder_vars, D!RunOnFunc
    PROVE  Searched'
<1>1. PICK f \in Funcs : f = func + 1
  BY DEF D!RunOnFunc
<1>2. PICK e : e = Entry(f)
  OBVIOUS
<1>3. /\ func' = f /\ visited' = {e} /\ path' = <<e>> /\ pc' = "dfs"
      /\ UNCHANGED <<post_order_vec, post_order>>
  BY <1>1, <1>2 DEF D!RunOnFunc, D!entry, D!po_vars, Entry
<1>4. UNCHANGED <<basic_blocks, succ_bbs>>
  BY DEF builder_vars
<1>5. e \in Found(f)
  BY <1>2, FoundFacts
<1>6. Entry(f)' = e /\ Found(f)' = Found(f) /\ BlocksOf(f)' = BlocksOf(f)
  BY <1>2, <1>4 DEF Entry, Found, BlocksOf
<1>7. ToSet(<<e>>) = {e} /\ <<e>>[1] = e /\ Len(<<e>>) = 1 /\ IsInjective(<<e>>)
  BY DEF ToSet, IsInjective
<1>8. BlocksOf(f) \cap ToSet(post_order_vec) = {}
  BY <1>1 DEF Searched, Numbered, Placed, D!TypeOK, Funcs
<1>9. Numbered'
  <2> SUFFICES ASSUME NEW g \in Funcs, g > f PROVE BlocksOf(g)' \cap ToSet(post_order_vec) = {}
    <3>1. f # 0
      BY DEF Funcs
    <3> QED
      BY <1>3, <3>1 DEF Searched, Numbered
  <2>1. g > func
    BY <1>1 DEF Placed, D!TypeOK, Funcs
  <2>2. BlocksOf(g)' = BlocksOf(g)
    BY <1>4 DEF BlocksOf
  <2> QED
    BY <2>1, <2>2 DEF Searched, Numbered
<1>10. OnPath'
  <2>1. /\ IsInjective(path') /\ ToSet(path') \subseteq visited'
        /\ path'[1] = Entry(func)' /\ 2 .. Len(path') = {}
    BY <1>3, <1>6, <1>7
  <2> QED
    BY <2>1 DEF OnPath
<1>11. Finished'
  <2>1. visited' \ ToSet(path') = {} /\ path' # <<>>
    BY <1>3, <1>7
  <2>2. ToSet(post_order_vec') \cap BlocksOf(func)' = {}
    BY <1>3, <1>6, <1>8
  <2> QED
    BY <2>1, <2>2 DEF Finished
<1>12. Searching'
  <2>1. visited' \subseteq Found(func)' /\ Entry(func)' \in visited'
    BY <1>3, <1>5, <1>6
  <2> QED
    BY <1>10, <1>11, <2>1 DEF Searching
<1> QED
  BY <1>3, <1>9, <1>12 DEF Searched

LEMMA SearchEnter ==
    ASSUME Ready, Placed, Searched, UNCHANGED builder_vars, D!DfsEnter
    PROVE  Searched'
<1>1. PICK f \in Funcs : f = func
  BY DEF D!DfsEnter, Placed, Places, D!TypeOK
<1>2. /\ pc = "dfs" /\ pc' = "dfs" /\ func' = func /\ path # <<>> /\ Searching
      /\ UNCHANGED <<post_order_vec, post_order>> /\ path \in Seq(Blocks) /\ visited \subseteq Blocks
  BY DEF D!DfsEnter, D!po_vars, Searched, Placed, D!TypeOK
<1>3. UNCHANGED <<basic_blocks, succ_bbs>>
  BY DEF builder_vars
<1>4. PICK e, R : e = Entry(f) /\ R = Found(f)
  OBVIOUS
<1>5. PICK n \in Nat : n = Len(path) /\ n >= 1 /\ DOMAIN path = 1 .. n
  BY <1>2, LenProperties, EmptySeq
<1>6. PICK b \in Blocks : b = path[n] /\ b \in ToSet(path)
  <2>1. n \in 1 .. n
    BY <1>5
  <2> QED
    BY <1>2, <1>5, <2>1, Entries DEF ToSet
<1>7. PICK c : /\ c \in ToSet(succ_bbs[b]) /\ c \notin visited
               /\ visited' = visited \cup {c} /\ path' = Append(path, c)
  BY <1>5, <1>6 DEF D!DfsEnter, D!last, ToSet
<1>8. /\ visited \subseteq R /\ e \in visited /\ OnPath /\ Finished
      /\ R \subseteq Blocks /\ ToSet(succ_bbs[b]) \subseteq R
  <2>1. visited \subseteq R /\ e \in visited /\ OnPath /\ Finished
    BY <1>1, <1>2, <1>4 DEF Searching
  <2>2. b \in R
    BY <1>6, <2>1 DEF OnPath
  <2> QED
    BY <1>4, <2>1, <2>2, FoundFacts, ListFacts
<1>9. c \in Blocks /\ c \in R
  BY <1>7, <1>8
<1>10. PICK t : t = path'
  OBVIOUS
<1>11. /\ t \in Seq(Blocks) /\ t # <<>> /\ ToSet(t) = ToSet(path) \cup {c} /\ IsInjective(t)
  BY <1>2, <1>7, <1>8, <1>9, <1>10, AppendSet DEF OnPath
<1>12. Len(t) = n + 1 /\ t[n + 1] = c /\ \A i \in 1 .. n : t[i] = path[i]
  BY <1>2, <1>5, <1>7, <1>9, <1>10, AppendProperties
<1>13. Entry(func)' = e /\ Found(func)' = R /\ BlocksOf(func)' = BlocksOf(f)
  BY <1>1, <1>2, <1>3, <1>4 DEF Entry, Found, BlocksOf
<1>14. OnPath'
  <2>1. IsInjective(t) /\ ToSet(t) \subseteq visited'
    BY <1>7, <1>8, <1>11 DEF OnPath
  <2>2. t[1] = e
    BY <1>1, <1>2, <1>4, <1>5, <1>8, <1>12 DEF OnPath
  <2>3. ASSUME NEW k \in 2 .. n + 1 PROVE t[k] \in ToSet(succ_bbs[t[k - 1]])
    <3>1. CASE k = n + 1
      <4>1. k - 1 = n /\ n \in 1 .. n
        BY <1>5, <3>1
      <4> QED
        BY <1>6, <1>7, <1>12, <3>1, <4>1
    <3>2. CASE k # n + 1
      <4>1. k \in 2 .. n /\ k \in 1 .. n /\ k - 1 \in 1 .. n
        BY <1>5, <3>2
      <4> QED
        BY <1>5, <1>8, <1>12, <4>1 DEF OnPath
    <3> QED
      BY <3>1, <3>2
  <2> QED
    BY <1>3, <1>10, <1>12, <1>13, <2>1, <2>2, <2>3 DEF OnPath
<1>15. Finished'
  <2>1. visited' \ ToSet(path') = visited \ ToSet(path)
    BY <1>7, <1>10, <1>11
  <2>2. ToSet(post_order_vec') \cap BlocksOf(func)' = visited' \ ToSet(path')
    BY <1>1, <1>2, <1>8, <1>13, <2>1 DEF Finished
  <2>3. ASSUME NEW x \in visited \ ToSet(path)
        PROVE  /\ ToSet(succ_bbs[x]) \subseteq visited'
               /\ x # e => \E p \in visited' : x \in ToSet(succ_bbs[p])
                                               /\ (p \in ToSet(path') \/ Later(p, x))
    BY <1>1, <1>4, <1>7, <1>8, <1>10, <1>11, <2>3 DEF Finished
  <2>4. path' # <<>>
    BY <1>10, <1>11
  <2> QED
    BY <1>2, <1>3, <1>13, <2>1, <2>2, <2>3, <2>4 DEF Finished, Later
<1>16. Searching'
  BY <1>7, <1>8, <1>9, <1>13, <1>14, <1>15 DEF Searching
<1>17. Numbered'
  BY <1>2, <1>3 DEF Searched, Numbered, BlocksOf
<1> QED
  BY <1>2, <1>16, <1>17 DEF Searched

LEMMA SearchLeave ==
    ASSUME Ready, Placed, Searched, UNCHANGED builder_vars, D!DfsLeave
    PROVE  Searched'
<1>1. PICK f \in Funcs : f = func
  BY DEF D!DfsLeave, Placed, Places, D!TypeOK
<1>2. /\ pc = "dfs" /\ pc' = "dfs" /\ func' = func /\ visited' = visited /\ path # <<>> /\ Searching
      /\ path \in Seq(Blocks) /\ post_order_vec \in Seq(Blocks) /\ post_order \in [Blocks -> Nat]
  <2>1. path \in Seq(Blocks) /\ post_order_vec \in Seq(Blocks) /\ post_order \in [Blocks -> Nat]
    BY DEF Placed, D!TypeOK
  <2>2. pc = "dfs" /\ pc' = "dfs" /\ func' = func /\ visited' = visited /\ path # <<>>
    BY DEF D!DfsLeave
  <2> QED
    BY <2>1, <2>2 DEF Searched
<1>3. UNCHANGED <<basic_blocks, succ_bbs>>
  BY DEF builder_vars
<1>4. PICK e, R, B : e = Entry(f) /\ R = Found(f) /\ B = BlocksOf(f)
  OBVIOUS
<1>5. PICK n \in Nat : n = Len(path) /\ n >= 1 /\ DOMAIN path = 1 .. n
  BY <1>2, LenProperties, EmptySeq
<1>6. PICK b \in Blocks : b = path[n] /\ b \in ToSet(path)
  <2>1. n \in 1 .. n
    BY <1>5
  <2> QED
    BY <1>2, <1>5, <2>1, Entries DEF ToSet
<1>7. PICK m \in Nat : m = Len(post_order_vec) /\ DOMAIN post_order_vec = 1 .. m
  BY <1>2, LenProperties
<1>8. /\ ToSet(succ_bbs[b]) \subseteq visited
      /\ post_order_vec' = Append(post_order_vec, b) /\ path' = SubSeq(path, 1, n - 1)
      /\ post_order' = [post_order EXCEPT ![b] = m + 1]
  BY <1>5, <1>6, <1>7 DEF D!DfsLeave, D!last, D!next_number, D!ToSet, ToSet
<1>9. /\ visited \subseteq R /\ e \in visited /\ OnPath /\ Finished
      /\ R \subseteq B /\ B \subseteq Blocks
  BY <1>1, <1>2, <1>4, FoundFacts, ListFacts DEF Searching
<1>10. PICK t, v, q : t = path' /\ v = post_order_vec' /\ q = post_order'
  OBVIOUS
<1>11. /\ t \in Seq(Blocks) /\ Len(t) = n - 1 /\ IsInjective(t)
       /\ (\A i \in 1 .. n - 1 : t[i] = path[i])
       /\ ToSet(t) = ToSet(path) \ {b}
  <2>1. IsInjective(path) /\ t = SubSeq(path, 1, Len(path) - 1) /\ b = path[Len(path)]
    BY <1>5, <1>6, <1>8, <1>9, <1>10 DEF OnPath
  <2>2. /\ t \in Seq(Blocks) /\ Len(t) = Len(path) - 1 /\ IsInjective(t)
        /\ \A i \in 1 .. Len(path) - 1 : t[i] = path[i]
        /\ ToSet(t) = ToSet(path) \ {path[Len(path)]}
    <3>1. path \in Seq(Blocks) /\ path # <<>>
      BY <1>2
    <3>2. Shortened(t, path, Blocks)
      BY <2>1, <3>1, FrontFacts
    <3> QED
      BY <3>2 DEF Shortened
  <2> QED
    BY <1>5, <2>1, <2>2
<1>12. /\ v # <<>> /\ Len(v) = m + 1 /\ v[m + 1] = b
       /\ (\A i \in 1 .. m : v[i] = post_order_vec[i])
       /\ ToSet(v) = ToSet(post_order_vec) \cup {b}
  BY <1>2, <1>6, <1>7, <1>8, <1>10, AppendSet, AppendProperties
<1>13. Entry(func)' = e /\ Found(func)' = R /\ BlocksOf(func)' = B
  BY <1>1, <1>2, <1>3, <1>4 DEF Entry, Found, BlocksOf
<1>14. b \in visited /\ b \in R /\ b \in B /\ b \notin ToSet(post_order_vec)
  BY <1>1, <1>4, <1>6, <1>9 DEF OnPath, Finished
<1>15. q[b] = m + 1 /\ \A x \in Blocks \ {b} : q[x] = post_order[x]
  BY <1>2, <1>6, <1>8, <1>10
<1>16. \A i \in 1 .. m : post_order_vec[i] \in Blocks \ {b} /\ post_order[post_order_vec[i]] = i
  <2> SUFFICES ASSUME NEW i \in 1 .. m
               PROVE  post_order_vec[i] \in Blocks \ {b} /\ post_order[post_order_vec[i]] = i
    OBVIOUS
  <2>1. post_order_vec[i] \in ToSet(post_order_vec)
    BY <1>7 DEF ToSet
  <2>2. post_order_vec[i] \in Blocks
    BY <1>2, <1>7, Entries
  <2> QED
    BY <1>7, <1>14, <2>1, <2>2 DEF Searched, Numbered
<1>17. Numbered'
  <2>1. ASSUME NEW i \in 1 .. m + 1 PROVE q[v[i]] = i
    <3>1. CASE i = m + 1
      BY <1>12, <1>15, <3>1
    <3>2. CASE i # m + 1
      <4>1. i \in 1 .. m
        BY <1>7, <3>2
      <4> QED
        BY <1>12, <1>15, <1>16, <4>1
    <3> QED
      BY <3>1, <3>2
  <2>2. ASSUME NEW g \in Funcs, g > func PROVE BlocksOf(g)' \cap ToSet(v) = {}
    <3>1. BlocksOf(g) \cap ToSet(post_order_vec) = {}
      BY <2>2 DEF Searched, Numbered
    <3>2. g # f
      BY <1>1, <2>2 DEF Funcs
    <3>3. BlocksOf(f) \cap BlocksOf(g) = {}
      BY <3>2, GraphFacts
    <3>4. BlocksOf(g)' = BlocksOf(g)
      BY <1>3 DEF BlocksOf
    <3> QED
      BY <1>4, <1>12, <1>14, <3>1, <3>3, <3>4
  <2> QED
    <3>1. func' # 0
      BY <1>1, <1>2 DEF Funcs
    <3> QED
      BY <1>2, <1>10, <1>12, <2>1, <2>2, <3>1 DEF Numbered
<1>18. OnPath'
  <2>1. IsInjective(t) /\ ToSet(t) \subseteq visited
    BY <1>9, <1>11 DEF OnPath
  <2>2. t # <<>> => t[1] = e
    <3> SUFFICES ASSUME t # <<>> PROVE t[1] = e
      OBVIOUS
    <3>1. n - 1 # 0
      BY <1>11, EmptySeq
    <3>2. 1 \in 1 .. n - 1
      BY <1>5, <3>1
    <3> QED
      BY <1>1, <1>2, <1>4, <1>9, <1>11, <3>2 DEF OnPath
  <2>3. ASSUME NEW k \in 2 .. n - 1 PROVE t[k] \in ToSet(succ_bbs[t[k - 1]])
    <3>1. k \in 2 .. n /\ k \in 1 .. n - 1 /\ k - 1 \in 1 .. n - 1
      BY <1>5
    <3> QED
      BY <1>5, <1>9, <1>11, <3>1 DEF OnPath
  <2> QED
    BY <1>2, <1>3, <1>10, <1>11, <1>13, <2>1, <2>2, <2>3 DEF OnPath
<1>19. Finished'
  <2>1. visited \ ToSet(t) = (visited \ ToSet(path)) \cup {b}
    BY <1>11, <1>14
  <2>2. ToSet(v) \cap B = visited \ ToSet(t)
    BY <1>1, <1>4, <1>9, <1>12, <1>14, <2>1 DEF Finished
  <2>3. ASSUME NEW x \in visited \ ToSet(path)
        PROVE  /\ ToSet(succ_bbs[x]) \subseteq visited
               /\ x # e => \E p \in visited : x \in ToSet(succ_bbs[p])
                                               /\ (p \in ToSet(t) \/ q[p] > q[x])
    <3>1. ToSet(succ_bbs[x]) \subseteq visited
      BY <1>9, <2>3 DEF Finished
    <3>2. ASSUME x # e
          PROVE  \E p \in visited : x \in ToSet(succ_bbs[p]) /\ (p \in ToSet(t) \/ q[p] > q[x])
      <4>1. PICK p \in visited : /\ x \in ToSet(succ_bbs[p])
                                 /\ p \in ToSet(path) \/ Later(p, x)
        BY <1>1, <1>4, <1>9, <2>3, <3>2 DEF Finished
      <4>2. x \in ToSet(post_order_vec) /\ x \in Blocks
        BY <1>9, <2>3 DEF Finished
      <4>3. x # b
        BY <1>14, <4>2
      <4>4. PICK i \in 1 .. m : x = post_order_vec[i]
        BY <1>7, <4>2 DEF ToSet
      <4>5. q[x] = i /\ post_order[x] = i
        BY <1>15, <1>16, <4>4
      <4>6. CASE p = b
        <5>1. q[p] > q[x]
          BY <1>7, <1>15, <4>5, <4>6
        <5> QED
          BY <4>1, <5>1
      <4>7. CASE p # b
        <5>1. p \in ToSet(path) => p \in ToSet(t)
          BY <1>11, <4>7
        <5>2. p \in Blocks
          BY <1>9
        <5>3. Later(p, x) => q[p] > q[x]
          BY <1>15, <4>2, <4>3, <4>7, <5>2 DEF Later
        <5> QED
          BY <4>1, <5>1, <5>3
      <4> QED
        BY <4>6, <4>7
    <3> QED
      BY <3>1, <3>2
  <2>4. ASSUME b # e
        PROVE  \E p \in visited : b \in ToSet(succ_bbs[p]) /\ p \in ToSet(t)
    <3>1. n # 1
      BY <1>1, <1>2, <1>4, <1>6, <1>9, <2>4 DEF OnPath
    <3>2. n \in 2 .. n /\ n - 1 \in 1 .. n - 1 /\ n - 1 \in 1 .. n
      BY <1>5, <3>1
    <3>3. PICK p : p = path[n - 1]
      OBVIOUS
    <3>4. b \in ToSet(succ_bbs[p])
      BY <1>5, <1>6, <1>9, <3>2, <3>3 DEF OnPath
    <3>5. p \in ToSet(path)
      BY <1>5, <3>2, <3>3 DEF ToSet
    <3>6. p = t[n - 1] /\ DOMAIN t = 1 .. n - 1
      BY <1>11, <3>2, <3>3, LenProperties
    <3>7. p \in ToSet(t)
      BY <3>2, <3>6 DEF ToSet
    <3> QED
      BY <1>9, <3>4, <3>5, <3>7 DEF OnPath
  <2>5. ASSUME t = <<>> PROVE v[m + 1] = e
    <3>1. n = 1
      <4>1. Len(t) = 0
        BY <2>5
      <4>2. n - 1 = 0
        BY <1>11, <4>1
      <4>3. n \in Nat
        OBVIOUS
      <4> QED
        BY <4>2, <4>3
    <3> QED
      BY <1>1, <1>2, <1>4, <1>6, <1>9, <1>12, <3>1 DEF OnPath
  <2>6. \A x \in visited \ ToSet(t) :
           /\ ToSet(succ_bbs[x]) \subseteq visited
           /\ x # e => \E p \in visited : x \in ToSet(succ_bbs[p])
                                           /\ (p \in ToSet(t) \/ q[p] > q[x])
    BY <1>8, <2>1, <2>3, <2>4
  <2> QED
    BY <1>2, <1>3, <1>10, <1>12, <1>13, <2>2, <2>5, <2>6 DEF Finished, Later
<1>20. Searching'
  BY <1>2, <1>9, <1>13, <1>18, <1>19 DEF Searching
<1> QED
  BY <1>2, <1>17, <1>20 DEF Searched

(* When the search is through, the blocks it found are those that are in    *)
(* reach of the entry.                                                      *)
LEMMA SearchDone ==
    ASSUME Ready, Placed, Searching, path = <<>>, func \in Funcs
    PROVE  Ordered
<1>1. ToSet(path) = {}
  BY DEF ToSet
<1>2. PICK f, e, R : f \in Funcs /\ f = func /\ e = Entry(f) /\ R = Found(f)
  OBVIOUS
<1>3. /\ IsFlowGraph(succ_bbs, e) /\ visited \subseteq R /\ e \in visited /\ Finished
  BY <1>2, FoundFacts DEF Searching
<1>4. R = visited
  <2>1. Closed(succ_bbs, 0, visited)
    BY <1>1, <1>3 DEF Finished, Closed
  <2>2. e \in DOMAIN succ_bbs /\ IsGraph(succ_bbs)
    BY <1>3 DEF IsFlowGraph
  <2>3. R \subseteq visited
    BY <1>2, <1>3, <2>1, <2>2, ReachLeast DEF Found, All
  <2> QED
    BY <1>3, <2>3
<1> QED
  BY <1>1, <1>2, <1>3, <1>4 DEF Finished, Ordered

(* The other steps leave the numbers alone.                                 *)
LEMMA NumbersKept ==
    ASSUME D!NextDominators, ~D!RunOnFunc, ~D!DfsEnter, ~D!DfsLeave
    PROVE  /\ UNCHANGED <<func, post_order_vec, post_order>>
           /\ pc = "dfs" => D!CreateIdom
           /\ pc' # "dfs" /\ pc # "idle"
<1>1. CASE D!CreateIdom
  BY <1>1 DEF D!CreateIdom, D!po_vars
<1>2. CASE D!SweepBlock \/ D!SweepEnd \/ D!Intersect \/ D!IntersectEnd
  BY <1>2 DEF D!SweepBlock, D!SweepEnd, D!Intersect, D!IntersectEnd, D!po_vars
<1>3. CASE D!NextPred \/ D!SetIdom
  BY <1>3 DEF D!NextPred, D!SetIdom, D!po_vars
<1>4. CASE D!FrontierBlock \/ D!Runner \/ D!CreateDomTree
  BY <1>4 DEF D!FrontierBlock, D!Runner, D!CreateDomTree, D!po_vars
<1>5. CASE D!OrderLeave \/ D!FuncDone \/ \E c \in Blocks : D!OrderEnter(c)
  BY <1>5 DEF D!OrderLeave, D!FuncDone, D!OrderEnter, D!po_vars
<1> QED
  BY <1>1, <1>2, <1>3, <1>4, <1>5 DEF D!NextDominators

LEMMA SearchedAlways == SpecAnalysis => []Searched
<1>1. InitAnalysis => Searched
  <2> SUFFICES ASSUME D!InitDominators PROVE Searched
    BY DEF InitAnalysis
  <2>1. func = 0 /\ pc = "idle" /\ post_order_vec = <<>>
    BY DEF D!InitDominators
  <2>2. 1 .. Len(post_order_vec) = {} /\ ToSet(post_order_vec) = {}
    BY <2>1 DEF ToSet
  <2> QED
    BY <2>1, <2>2 DEF Searched, Numbered
<1>2. Built /\ Placed /\ Searched /\ [NextAnalysis]_all_vars => Searched'
  <2> SUFFICES ASSUME Built, Placed, Searched, [NextAnalysis]_all_vars PROVE Searched'
    OBVIOUS
  <2>1. func # 0 => compiled
    BY DEF Placed, Places
  <2>2. CASE dom_vars' = dom_vars /\ (func # 0 => builder_vars' = builder_vars)
    <3>1. UNCHANGED <<pc, func, visited, path, post_order_vec, post_order>>
      BY <2>2 DEF dom_vars
    <3>2. CASE func = 0
      <4>1. pc # "dfs"
        BY <3>2 DEF Placed, Places
      <4>2. Numbered'
        <5>1. post_order_vec = <<>> /\ ToSet(<<>>) = {} /\ Len(<<>>) = 0
          BY <3>2 DEF Searched, Numbered, ToSet
        <5> QED
          BY <3>1, <5>1 DEF Numbered
      <4> QED
        BY <3>1, <3>2, <4>1, <4>2 DEF Searched
    <3>3. CASE func # 0
      <4>1. UNCHANGED <<basic_blocks, succ_bbs>>
        BY <2>2, <3>3 DEF builder_vars
      <4>2. PICK f : f = func
        OBVIOUS
      <4>3. Entry(f)' = Entry(f) /\ Found(f)' = Found(f) /\ \A g : BlocksOf(g)' = BlocksOf(g)
        BY <4>1 DEF Entry, Found, BlocksOf
      <4> QED
        BY <3>1, <4>1, <4>2, <4>3 DEF Searched, Numbered, Searching, OnPath, Finished, Ordered, Later
    <3> QED
      BY <3>2, <3>3
  <2>3. CASE compiled /\ D!NextDominators /\ builder_vars' = builder_vars
    <3>1. Ready
      BY <2>3 DEF Ready, Built
    <3>2. CASE D!RunOnFunc \/ D!DfsEnter \/ D!DfsLeave
      BY <2>3, <3>1, <3>2, SearchStart, SearchEnter, SearchLeave
    <3>3. CASE ~D!RunOnFunc /\ ~D!DfsEnter /\ ~D!DfsLeave
      <4>1. /\ UNCHANGED <<func, post_order_vec, post_order>> /\ pc' # "dfs" /\ pc # "idle"
            /\ pc = "dfs" => D!CreateIdom
        BY <2>3, <3>3, NumbersKept
      <4>2. func \in Funcs
        BY <4>1 DEF Placed, Places, D!TypeOK
      <4>3. Ordered
        <5>1. CASE pc = "dfs"
          <6>1. path = <<>>
            BY <4>1, <5>1 DEF D!CreateIdom
          <6> QED
            BY <3>1, <4>2, <5>1, <6>1, SearchDone DEF Searched
        <5>2. CASE pc # "dfs"
          BY <4>2, <5>2 DEF Searched, Funcs
        <5> QED
          BY <5>1, <5>2
      <4>4. UNCHANGED <<basic_blocks, succ_bbs>>
        BY <2>3 DEF builder_vars
      <4>5. PICK f : f = func
        OBVIOUS
      <4>6. Entry(f)' = Entry(f) /\ Found(f)' = Found(f) /\ \A g : BlocksOf(g)' = BlocksOf(g)
        BY <4>4 DEF Entry, Found, BlocksOf
      <4>7. Ordered'
        BY <4>1, <4>3, <4>4, <4>5, <4>6 DEF Ordered, Later
      <4>8. Numbered'
        BY <4>1, <4>6 DEF Searched, Numbered
      <4> QED
        BY <4>1, <4>7, <4>8 DEF Searched
    <3> QED
      BY <3>2, <3>3
  <2> QED
    BY <2>1, <2>2, <2>3, AnalysisStep
<1> QED
  BY BuiltAlways, PlacedAlways, <1>1, <1>2, PTL DEF SpecAnalysis

-----------------------------------------------------------------------------
(* The function under analysis, when its blocks are numbered.               *)
Numbering(e, R, vec, po) ==
    /\ \A b \in R : po[b] \in 1 .. Len(vec) /\ vec[po[b]] = b
    /\ \A a, b \in R : po[a] = po[b] => a = b
    /\ \A b \in R \ {e} : po[b] < po[e]
    /\ \A b \in R \ {e} : \E p \in R : b \in ToSet(succ_bbs[p]) /\ po[p] > po[b]

LEMMA OwnNumbers ==
    ASSUME Ready, Placed, Numbered, Ordered, NEW f \in Funcs, f = func
    PROVE  /\ Numbering(Entry(f), Found(f), post_order_vec, post_order)
           /\ \A i \in 1 .. Len(post_order_vec) :
                 /\ post_order_vec[i] \in Blocks /\ post_order[post_order_vec[i]] = i
                 /\ post_order_vec[i] \in BlocksOf(f) => post_order_vec[i] \in Found(f)
<1>1. PICK e, R, B : e = Entry(f) /\ R = Found(f) /\ B = BlocksOf(f)
  OBVIOUS
<1>2. /\ post_order_vec \in Seq(Blocks) /\ e \in R /\ R \subseteq B
      /\ R = ToSet(post_order_vec) \cap B
      /\ post_order_vec # <<>> /\ post_order_vec[Len(post_order_vec)] = e
      /\ \A x \in R \ {e} : \E p \in R : x \in ToSet(succ_bbs[p]) /\ Later(p, x)
  BY <1>1, FoundFacts DEF Placed, D!TypeOK, Ordered
<1>3. PICK m \in Nat : m = Len(post_order_vec) /\ m >= 1 /\ DOMAIN post_order_vec = 1 .. m
  BY <1>2, LenProperties, EmptySeq
<1>4. \A i \in 1 .. m : post_order_vec[i] \in Blocks /\ post_order[post_order_vec[i]] = i
  BY <1>2, <1>3, Entries DEF Numbered
<1>5. \A i \in 1 .. m : post_order_vec[i] \in B => post_order_vec[i] \in R
  BY <1>2, <1>3 DEF ToSet
<1>6. \A b \in R : \E i \in 1 .. m : b = post_order_vec[i]
  BY <1>2, <1>3 DEF ToSet
<1>7. \A b \in R : post_order[b] \in 1 .. m /\ post_order_vec[post_order[b]] = b
  BY <1>4, <1>6
<1>8. post_order[e] = m
  BY <1>2, <1>3, <1>4
<1>9. \A a, b \in R : post_order[a] = post_order[b] => a = b
  BY <1>7
<1>10. \A b \in R \ {e} : post_order[b] < post_order[e]
  <2> SUFFICES ASSUME NEW b \in R \ {e} PROVE post_order[b] < post_order[e]
    OBVIOUS
  <2>1. post_order[b] \in 1 .. m /\ post_order[b] # m
    BY <1>2, <1>7, <1>8, <1>9
  <2> QED
    BY <1>3, <1>8, <2>1
<1> QED
  BY <1>1, <1>2, <1>3, <1>4, <1>5, <1>7, <1>9, <1>10 DEF Numbering, Later

(* What dominates a block has a larger number: from the block the           *)
(* predecessors with larger numbers lead there.                             *)
LEMMA DomOrder ==
    ASSUME NEW e, IsFlowGraph(succ_bbs, e), NEW R, R = All(succ_bbs, e),
           NEW dom, dom = DominatedBy(succ_bbs, e), NEW vec, NEW po, Numbering(e, R, vec, po),
           Len(vec) \in Nat,
           NEW a \in R, NEW b \in dom[a], a # b
    PROVE  po[a] > po[b]
<1>0. /\ dom[a] \subseteq R /\ b \in R /\ \A x \in R : po[x] \in Nat /\ po[x] <= Len(vec)
  BY DomValue DEF Numbering
<1> DEFINE T == {n \in Nat : \E x \in dom[a] \ {a} : po[x] >= po[a] /\ n = Len(vec) - po[x]}
<1> SUFFICES ASSUME po[b] >= po[a] PROVE FALSE
  BY <1>0
<1>1. T # {}
  <2>1. Len(vec) - po[b] \in Nat
    BY <1>0
  <2> QED
    BY <1>0, <2>1
<1>2. PICK n \in T : \A k \in T : n <= k
  BY <1>1, LeastNumber
<1>3. PICK x \in dom[a] \ {a} : po[x] >= po[a] /\ n = Len(vec) - po[x]
  BY <1>2
<1>4. x # e
  <2> SUFFICES ASSUME x = e PROVE FALSE
    OBVIOUS
  <2>1. e \in R /\ dom[e] = R
    BY DomValue
  <2>2. a \in dom[e] /\ e \in dom[a]
    BY <1>3, <2>1
  <2> QED
    BY <1>3, <2>1, <2>2, DomAntisymmetric
<1>5. PICK p \in R : x \in ToSet(succ_bbs[p]) /\ po[p] > po[x]
  BY <1>0, <1>3, <1>4 DEF Numbering
<1>6. p \in dom[a]
  BY <1>3, <1>5, DomPredecessor
<1>7. p # a
  BY <1>0, <1>3, <1>5
<1>8. PICK k \in Nat : k = Len(vec) - po[p]
  BY <1>0
<1>9. po[p] >= po[a]
  BY <1>0, <1>3, <1>5
<1>10. k \in T
  BY <1>6, <1>7, <1>8, <1>9
<1>11. n <= k
  BY <1>2, <1>10
<1> QED
  BY <1>0, <1>3, <1>5, <1>8, <1>11

-----------------------------------------------------------------------------
(* The links.                                                               *)

(* A link of a block leads to one with a larger number that has a link, and *)
(* past nothing that dominates the block.                                   *)
Climb(id, po, R, dom, b) ==
    /\ id[b] \in R /\ po[id[b]] > po[b] /\ id[id[b]] # 0
    /\ \A d \in R : b \in dom[d] \ {d} => id[b] \in dom[d]

Links(id, po, e, B, R, dom) ==
    /\ id[e] = e
    /\ \A b \in B \ R : id[b] = 0
    /\ \A b \in R \ {e} : id[b] # 0 => Climb(id, po, R, dom, b)

(* What the sweep has passed has links.                                     *)
Swept(R) == \A i \in 1 .. Len(post_order_vec) :
                i > cursor /\ post_order_vec[i] \in R => idom[post_order_vec[i]] # 0

(* A block that may become the idom of b.                                   *)
Candidate(c, R, dom, b) == /\ c \in R /\ idom[c] # 0
                           /\ \A d \in R : b \in dom[d] \ {d} => c \in dom[d]

Chosen(e, R, dom, b) ==
    /\ b # e
    /\ b \in R =>
          /\ new_idom # 0 => Candidate(new_idom, R, dom, b)
          /\ \A j \in 1 .. Len(pre_bbs[b]) : j < pre /\ idom[pre_bbs[b][j]] # 0 =>
                new_idom # 0 /\ post_order[new_idom] >= post_order[pre_bbs[b][j]]

Meeting(R, dom, b) ==
    b \in R => /\ new_idom # 0 /\ Candidate(b1, R, dom, b) /\ Candidate(b2, R, dom, b)
               /\ post_order[b1] >= post_order[new_idom]
               /\ post_order[b2] >= post_order[pre_bbs[b][pre]]

LinksOf(e, B, R, dom) ==
    /\ Links(idom, post_order, e, B, R, dom)
    /\ pc \in {"sweep", "preds", "intersect"} => Swept(R)
    /\ pc \in {"preds", "intersect"} => Chosen(e, R, dom, post_order_vec[cursor])
    /\ pc = "intersect" => Meeting(R, dom, post_order_vec[cursor])
    /\ pc \in {"frontier", "runner", "order", "idle"} => \A b \in R : idom[b] # 0

Linked == func # 0 /\ pc # "dfs" =>
              LinksOf(Entry(func), BlocksOf(func), Found(func), Doms(func))

(* Between the blocks the candidate and the predecessor are reset.          *)
Fresh == /\ pc \notin {"preds", "intersect", "crash"} => new_idom = 0
         /\ pc \in {"idle", "dfs", "sweep", "order"} => pre = 1
         /\ pc = "frontier" /\ cursor > Len(basic_blocks[func]) => pre = 1

(* What the steps after the search work on.                                 *)
Seen(f, e, B, R, dom) == /\ f = func /\ e = Entry(f) /\ B = BlocksOf(f)
                         /\ R = Found(f) /\ dom = Doms(f)

Scene(e, B, R, dom) ==
    /\ e \in R /\ R \subseteq B /\ B \subseteq Blocks /\ 0 \notin Blocks
    /\ IsFlowGraph(succ_bbs, e) /\ R = All(succ_bbs, e) /\ dom = DominatedBy(succ_bbs, e)
    /\ Len(post_order_vec) \in Nat
    /\ Numbering(e, R, post_order_vec, post_order)
    /\ \A i \in 1 .. Len(post_order_vec) :
          /\ post_order_vec[i] \in Blocks /\ post_order[post_order_vec[i]] = i
          /\ post_order_vec[i] \in B => post_order_vec[i] \in R
    /\ \A a \in R : /\ dom[a] \subseteq R /\ a \in dom[a]
                    /\ \A b \in dom[a] \ {a} : post_order[a] > post_order[b]
    /\ \A b \in B : /\ pre_bbs[b] \in Seq(Blocks)
                    /\ \A j \in 1 .. Len(pre_bbs[b]) :
                          pre_bbs[b][j] \in B /\ b \in ToSet(succ_bbs[pre_bbs[b][j]])
                    /\ \A p \in R : b \in ToSet(succ_bbs[p]) =>
                          \E j \in 1 .. Len(pre_bbs[b]) : p = pre_bbs[b][j]

LEMMA OwnScene ==
    ASSUME Ready, Placed, Numbered, Ordered, func # 0
    PROVE  \E f, e, B, R, dom : f \in Funcs /\ Seen(f, e, B, R, dom) /\ Scene(e, B, R, dom)
<1>1. PICK f \in Funcs : f = func
  BY DEF Placed, D!TypeOK
<1>2. PICK e, B, R, dom : e = Entry(f) /\ B = BlocksOf(f) /\ R = Found(f) /\ dom = Doms(f)
  OBVIOUS
<1>3. /\ e \in R /\ R \subseteq B /\ B \subseteq Blocks /\ 0 \notin Blocks
      /\ IsFlowGraph(succ_bbs, e) /\ R = All(succ_bbs, e) /\ dom = DominatedBy(succ_bbs, e)
  BY <1>2, FoundFacts, ListFacts DEF Found, Doms, Blocks
<1>4. Len(post_order_vec) \in Nat
  BY DEF Placed, D!TypeOK
<1>5. Numbering(e, R, post_order_vec, post_order)
  BY <1>1, <1>2, OwnNumbers
<1>6. \A i \in 1 .. Len(post_order_vec) :
         /\ post_order_vec[i] \in Blocks /\ post_order[post_order_vec[i]] = i
         /\ post_order_vec[i] \in B => post_order_vec[i] \in R
  BY <1>1, <1>2, OwnNumbers
<1>7. \A a \in R : dom[a] \subseteq R /\ a \in dom[a]
  BY <1>3, DomValue
<1>8. \A a \in R : \A b \in dom[a] \ {a} : post_order[a] > post_order[b]
  BY <1>3, <1>4, <1>5, DomOrder
<1>9. ASSUME NEW b \in B
      PROVE  /\ pre_bbs[b] \in Seq(Blocks)
             /\ \A j \in 1 .. Len(pre_bbs[b]) :
                   pre_bbs[b][j] \in B /\ b \in ToSet(succ_bbs[pre_bbs[b][j]])
             /\ \A p \in R : b \in ToSet(succ_bbs[p]) =>
                   \E j \in 1 .. Len(pre_bbs[b]) : p = pre_bbs[b][j]
  <2>1. /\ pre_bbs[b] \in Seq(Blocks) /\ ToSet(pre_bbs[b]) \subseteq B /\ b \in Blocks
        /\ \A a \in Blocks : a \in ToSet(pre_bbs[b]) <=> b \in ToSet(succ_bbs[a])
    BY <1>2, <1>3, GraphFacts
  <2>2. ToSet(pre_bbs[b]) = {pre_bbs[b][j] : j \in 1 .. Len(pre_bbs[b])}
    BY <2>1, LenProperties DEF ToSet
  <2> QED
    BY <1>3, <2>1, <2>2
<1>10. \A a \in R : /\ dom[a] \subseteq R /\ a \in dom[a]
                     /\ \A b \in dom[a] \ {a} : post_order[a] > post_order[b]
  BY <1>7, <1>8
<1>11. Scene(e, B, R, dom)
  BY ZenonT(30), <1>3, <1>4, <1>5, <1>6, <1>9, <1>10 DEF Scene
<1> QED
  BY <1>1, <1>2, <1>11 DEF Seen

LEMMA SceneKept ==
    ASSUME Ready, Placed, Searched, UNCHANGED builder_vars, D!NextDominators,
           ~D!RunOnFunc, ~D!DfsEnter, ~D!DfsLeave
    PROVE  \E f, e, B, R, dom :
              /\ f \in Funcs /\ Seen(f, e, B, R, dom) /\ Seen(f, e, B, R, dom)' /\ Scene(e, B, R, dom)
              /\ UNCHANGED <<func, post_order_vec, post_order>> /\ pc' # "dfs"
<1>1. /\ UNCHANGED <<func, post_order_vec, post_order>> /\ pc' # "dfs" /\ pc # "idle"
      /\ pc = "dfs" => D!CreateIdom
  BY NumbersKept
<1>2. func # 0 /\ func \in Funcs
  BY <1>1 DEF Placed, Places, D!TypeOK
<1>3. Ordered /\ Numbered
  <2>1. CASE pc = "dfs"
    <3>1. path = <<>> /\ Searching
      BY <1>1, <2>1 DEF D!CreateIdom, Searched
    <3> QED
      BY <1>2, <3>1, SearchDone DEF Searched
  <2>2. CASE pc # "dfs"
    BY <1>2, <2>2 DEF Searched
  <2> QED
    BY <2>1, <2>2
<1>4. PICK f, e, B, R, dom : f \in Funcs /\ Seen(f, e, B, R, dom) /\ Scene(e, B, R, dom)
  BY <1>2, <1>3, OwnScene
<1>5. UNCHANGED <<basic_blocks, succ_bbs>>
  BY DEF builder_vars
<1>6. /\ Entry(f)' = Entry(f) /\ BlocksOf(f)' = BlocksOf(f) /\ Found(f)' = Found(f)
      /\ Doms(f)' = Doms(f)
  BY <1>5 DEF Entry, Found, BlocksOf, Doms
<1>7. Seen(f, e, B, R, dom)'
  BY <1>1, <1>4, <1>6 DEF Seen
<1> QED
  BY <1>1, <1>4, <1>7

LEMMA LinksCreated ==
    ASSUME Placed, NEW f, NEW e, NEW B, NEW R, NEW dom, Seen(f, e, B, R, dom), Scene(e, B, R, dom),
           UNCHANGED <<post_order_vec, post_order>>, D!CreateIdom
    PROVE  LinksOf(e, B, R, dom)'
<1>1. /\ pc' = "sweep" /\ cursor' = Len(post_order_vec)
      /\ idom' = [b \in Blocks |-> IF b = e THEN b ELSE IF b \in B THEN 0 ELSE idom[b]]
  BY DEF D!CreateIdom, D!rbegin, D!entry, D!Own, D!NoBlock, D!ToSet, Seen, Entry, BlocksOf, ToSet
<1>2. e \in R /\ R \subseteq B /\ B \subseteq Blocks /\ Len(post_order_vec) \in Nat
  BY DEF Scene
<1>3. idom'[e] = e /\ \A b \in B \ {e} : idom'[b] = 0
  BY <1>1, <1>2
<1>4. Links(idom, post_order, e, B, R, dom)'
  BY <1>2, <1>3 DEF Links
<1>5. Swept(R)'
  BY <1>1, <1>2 DEF Swept
<1> QED
  BY <1>1, <1>4, <1>5 DEF LinksOf

LEMMA LinksSwept ==
    ASSUME Placed, NEW f, NEW e, NEW B, NEW R, NEW dom, Seen(f, e, B, R, dom), Scene(e, B, R, dom),
           UNCHANGED <<post_order_vec, post_order, pre_bbs>>, LinksOf(e, B, R, dom), Fresh,
           D!SweepBlock \/ D!SweepEnd
    PROVE  LinksOf(e, B, R, dom)'
<1>1. pc = "sweep" /\ UNCHANGED <<idom, new_idom, pre>> /\ new_idom = 0 /\ pre = 1
  BY DEF D!SweepBlock, D!SweepEnd, Fresh, D!local_vars
<1>2. Links(idom, post_order, e, B, R, dom)' /\ Links(idom, post_order, e, B, R, dom)
  BY <1>1 DEF LinksOf
<1>3. /\ e \in R /\ R \subseteq B /\ B \subseteq Blocks /\ Len(post_order_vec) \in Nat
      /\ 0 \notin Blocks /\ cursor \in Nat
      /\ \A b \in R : post_order[b] \in 1 .. Len(post_order_vec)
                      /\ post_order_vec[post_order[b]] = b
  BY DEF Scene, Numbering, Placed, D!TypeOK
<1>4. CASE D!SweepBlock
  <2>1. /\ cursor > 0
        /\ IF post_order_vec[cursor] = e THEN cursor' = cursor - 1 /\ pc' = "sweep"
                                         ELSE pc' = "preds" /\ cursor' = cursor
    BY <1>1, <1>4 DEF D!SweepBlock, D!entry, Seen, Entry
  <2>2. CASE post_order_vec[cursor] = e
    <3>1. idom[e] # 0
      BY <1>2, <1>3 DEF Links
    <3>2. Swept(R)'
      <4> SUFFICES ASSUME NEW i \in 1 .. Len(post_order_vec), i > cursor', post_order_vec[i] \in R
                   PROVE  idom[post_order_vec[i]] # 0
        BY <1>1 DEF Swept
      <4>1. i = cursor \/ i > cursor
        BY <1>3, <2>1, <2>2
      <4> QED
        BY <1>1, <2>2, <3>1, <4>1 DEF LinksOf, Swept
    <3> QED
      BY <1>2, <2>1, <2>2, <3>2 DEF LinksOf
  <2>3. CASE post_order_vec[cursor] # e
    <3>1. Swept(R)'
      BY <1>1, <2>1, <2>3 DEF LinksOf, Swept
    <3>2. Chosen(e, R, dom, post_order_vec[cursor])'
      BY <1>1, <2>1, <2>3 DEF Chosen
    <3> QED
      BY <1>2, <2>1, <2>3, <3>1, <3>2 DEF LinksOf
  <2> QED
    BY <2>2, <2>3
<1>5. CASE D!SweepEnd
  <2>1. /\ cursor = 0
        /\ \/ cursor' = Len(post_order_vec) /\ pc' = "sweep"
           \/ pc' = "frontier"
    BY <1>1, <1>5 DEF D!SweepEnd, D!rbegin
  <2>2. CASE cursor' = Len(post_order_vec) /\ pc' = "sweep"
    <3>1. Swept(R)'
      BY <1>3, <2>2 DEF Swept
    <3> QED
      BY <1>2, <2>2, <3>1 DEF LinksOf
  <2>3. CASE pc' = "frontier"
    <3>1. ASSUME NEW b \in R PROVE idom[b] # 0
      <4>1. PICK i \in 1 .. Len(post_order_vec) : i = post_order[b] /\ post_order_vec[i] = b
        BY <1>3
      <4>2. i > cursor
        BY <2>1
      <4> QED
        BY <1>1, <4>1, <4>2 DEF LinksOf, Swept
    <3> QED
      BY <1>1, <1>2, <2>3, <3>1 DEF LinksOf
  <2> QED
    BY <2>1, <2>2, <2>3
<1> QED
  BY <1>4, <1>5

LEMMA LinksChosen ==
    ASSUME Placed, NEW f, NEW e, NEW B, NEW R, NEW dom, Seen(f, e, B, R, dom), Scene(e, B, R, dom),
           UNCHANGED <<post_order_vec, post_order, pre_bbs>>, LinksOf(e, B, R, dom), D!NextPred
    PROVE  LinksOf(e, B, R, dom)'
<1>1. /\ pc = "preds" /\ UNCHANGED <<idom, cursor>>
  BY DEF D!NextPred
<1>2. PICK b, p : b = post_order_vec[cursor] /\ p = pre_bbs[b][pre]
  OBVIOUS
<1>3. /\ pre <= Len(pre_bbs[b])
      /\ \/ idom[p] = 0 /\ pre' = pre + 1 /\ new_idom' = new_idom /\ pc' = "preds"
         \/ idom[p] # 0 /\ new_idom = 0 /\ new_idom' = p /\ pre' = pre + 1 /\ pc' = "preds"
         \/ /\ idom[p] # 0 /\ new_idom # 0 /\ b1' = new_idom /\ b2' = p /\ pc' = "intersect"
            /\ UNCHANGED <<pre, new_idom>>
  BY <1>1, <1>2 DEF D!NextPred, D!processed, D!NoBlock
<1>4. Links(idom, post_order, e, B, R, dom)' /\ Links(idom, post_order, e, B, R, dom)
  BY <1>1 DEF LinksOf
<1>5. Swept(R)'
  BY <1>1 DEF LinksOf, Swept
<1>6. Chosen(e, R, dom, b)
  BY <1>1, <1>2 DEF LinksOf
<1>7. pre \in Nat \ {0}
  BY DEF Placed, D!TypeOK
<1>8. b # e /\ b = post_order_vec'[cursor']
  BY <1>1, <1>2, <1>6 DEF Chosen
<1>9. \A c : Candidate(c, R, dom, b)' <=> Candidate(c, R, dom, b)
  BY <1>1 DEF Candidate
<1>10. CASE b \notin R
  <2>1. Chosen(e, R, dom, b)' /\ Meeting(R, dom, b)'
    BY <1>8, <1>10 DEF Chosen, Meeting
  <2> QED
    BY <1>3, <1>4, <1>5, <1>8, <2>1 DEF LinksOf
<1>11. CASE b \in R
  <2>1. /\ b \in B /\ pre \in 1 .. Len(pre_bbs[b]) /\ Len(pre_bbs[b]) \in Nat
    <3>1. b \in B /\ pre_bbs[b] \in Seq(Blocks)
      BY <1>11 DEF Scene
    <3>2. Len(pre_bbs[b]) \in Nat
      BY <3>1, LenProperties
    <3> QED
      BY <1>3, <1>7, <3>1, <3>2
  <2>2. p \in B /\ b \in ToSet(succ_bbs[p])
    BY <1>2, <2>1 DEF Scene
  <2>3. ASSUME idom[p] # 0 PROVE Candidate(p, R, dom, b) /\ post_order[p] \in Nat
    <3>1. p \in R
      BY <1>4, <2>2, <2>3 DEF Links
    <3>2. ASSUME NEW d \in R, b \in dom[d] \ {d} PROVE p \in dom[d]
      BY <2>2, <3>1, <3>2, DomPredecessor DEF Scene
    <3>3. post_order[p] \in Nat
      BY <3>1 DEF Scene, Numbering
    <3> QED
      BY <2>3, <3>1, <3>2, <3>3 DEF Candidate
  <2>4. /\ new_idom # 0 => Candidate(new_idom, R, dom, b)
        /\ \A j \in 1 .. Len(pre_bbs[b]) : j < pre /\ idom[pre_bbs[b][j]] # 0 =>
              new_idom # 0 /\ post_order[new_idom] >= post_order[pre_bbs[b][j]]
    BY <1>6, <1>11 DEF Chosen
  <2>5. \A j \in 1 .. Len(pre_bbs[b]) : j < pre + 1 => j < pre \/ j = pre
    BY <2>1
  <2>6. CASE idom[p] = 0 /\ pre' = pre + 1 /\ new_idom' = new_idom /\ pc' = "preds"
    <3>1. \A j \in 1 .. Len(pre_bbs[b]) : j < pre' /\ idom[pre_bbs[b][j]] # 0 =>
              new_idom # 0 /\ post_order[new_idom] >= post_order[pre_bbs[b][j]]
      BY <1>2, <2>4, <2>5, <2>6
    <3>2. Chosen(e, R, dom, b)'
      BY <1>1, <1>8, <1>9, <2>4, <2>6, <3>1 DEF Chosen
    <3> QED
      BY <1>4, <1>5, <1>8, <2>6, <3>2 DEF LinksOf
  <2>7. CASE idom[p] # 0 /\ new_idom = 0 /\ new_idom' = p /\ pre' = pre + 1 /\ pc' = "preds"
    <3>1. p # 0
      BY <2>2 DEF Scene
    <3>2. ASSUME NEW j \in 1 .. Len(pre_bbs[b]), j < pre', idom[pre_bbs[b][j]] # 0
          PROVE  post_order[p] >= post_order[pre_bbs[b][j]]
      <4>1. j = pre
        BY <2>4, <2>5, <2>7, <3>2
      <4> QED
        BY <1>2, <2>3, <2>7, <4>1
    <3>3. Chosen(e, R, dom, b)'
      BY <1>1, <1>8, <1>9, <2>3, <2>7, <3>1, <3>2 DEF Chosen
    <3> QED
      BY <1>4, <1>5, <1>8, <2>7, <3>3 DEF LinksOf
  <2>8. CASE /\ idom[p] # 0 /\ new_idom # 0 /\ b1' = new_idom /\ b2' = p /\ pc' = "intersect"
             /\ UNCHANGED <<pre, new_idom>>
    <3>1. Chosen(e, R, dom, b)'
      BY <1>1, <1>8, <1>9, <2>4, <2>8 DEF Chosen
    <3>2. post_order[new_idom] \in Nat
      BY <2>4, <2>8 DEF Candidate, Scene, Numbering
    <3>3. Meeting(R, dom, b)'
      BY <1>2, <1>9, <2>3, <2>4, <2>8, <3>2 DEF Meeting
    <3> QED
      BY <1>4, <1>5, <1>8, <2>8, <3>1, <3>3 DEF LinksOf
  <2> QED
    BY <1>3, <2>6, <2>7, <2>8
<1> QED
  BY <1>10, <1>11

LEMMA LinksSet ==
    ASSUME Placed, NEW f, NEW e, NEW B, NEW R, NEW dom, Seen(f, e, B, R, dom), Scene(e, B, R, dom),
           UNCHANGED <<post_order_vec, post_order, pre_bbs>>, LinksOf(e, B, R, dom), D!SetIdom
    PROVE  LinksOf(e, B, R, dom)'
<1>1. PICK b : b = post_order_vec[cursor]
  OBVIOUS
<1>2. /\ pc = "preds" /\ pc' = "sweep" /\ cursor' = cursor - 1 /\ pre > Len(pre_bbs[b])
      /\ idom' = [idom EXCEPT ![b] = new_idom]
  BY <1>1 DEF D!SetIdom
<1>3. cursor \in 1 .. Len(post_order_vec) /\ idom \in [Blocks -> Blocks \cup {0}] /\ pre \in Nat
  BY <1>2 DEF Placed, Places, D!TypeOK, D!Maybe, D!NoBlock, Scene
<1>4. b \in Blocks /\ post_order[b] = cursor /\ (b \in B => b \in R)
  BY <1>1, <1>3 DEF Scene
<1>5. idom'[b] = new_idom /\ \A x \in Blocks \ {b} : idom'[x] = idom[x]
  BY <1>2, <1>3, <1>4
<1>6. /\ Links(idom, post_order, e, B, R, dom) /\ Swept(R) /\ Chosen(e, R, dom, b)
      /\ e \in R /\ R \subseteq B /\ B \subseteq Blocks
  BY <1>1, <1>2 DEF LinksOf, Scene
<1>7. CASE b \notin R
  <2>1. \A x \in B : x # b /\ idom'[x] = idom[x]
    BY <1>4, <1>5, <1>6, <1>7
  <2>2. Links(idom, post_order, e, B, R, dom)'
    <3>1. ASSUME NEW x \in R \ {e}, idom[x] # 0 PROVE Climb(idom, post_order, R, dom, x)'
      <4>1. Climb(idom, post_order, R, dom, x)
        BY <1>6, <3>1 DEF Links
      <4> QED
        BY <1>6, <2>1, <4>1 DEF Climb
    <3> QED
      BY <1>6, <2>1, <3>1 DEF Links
  <2>3. Swept(R)'
    <3> SUFFICES ASSUME NEW i \in 1 .. Len(post_order_vec), i > cursor - 1, post_order_vec[i] \in R
                 PROVE  idom'[post_order_vec[i]] # 0
      BY <1>2 DEF Swept
    <3>1. i # cursor
      BY <1>1, <1>7
    <3>2. i > cursor
      BY <1>3, <3>1
    <3>3. idom[post_order_vec[i]] # 0
      BY <1>6, <3>2 DEF Swept
    <3> QED
      BY <1>6, <2>1, <3>3
  <2> QED
    BY <1>2, <2>2, <2>3 DEF LinksOf
<1>8. CASE b \in R
  <2>1. PICK p \in R : b \in ToSet(succ_bbs[p]) /\ post_order[p] > post_order[b]
    BY <1>6, <1>8 DEF Scene, Numbering, Chosen
  <2>2. PICK k \in 1 .. Len(post_order_vec) : k = post_order[p] /\ post_order_vec[k] = p
    BY DEF Scene, Numbering
  <2>3. idom[p] # 0
    BY <1>4, <1>6, <2>1, <2>2 DEF Swept
  <2>4. PICK j \in 1 .. Len(pre_bbs[b]) : p = pre_bbs[b][j]
    BY <1>6, <1>8, <2>1 DEF Scene
  <2>5. j < pre
    <3>1. pre_bbs[b] \in Seq(Blocks)
      BY <1>6, <1>8 DEF Scene
    <3>2. Len(pre_bbs[b]) \in Nat
      BY <3>1, LenProperties
    <3> QED
      BY <1>2, <1>3, <3>2
  <2>6. new_idom # 0 /\ post_order[new_idom] >= post_order[p] /\ Candidate(new_idom, R, dom, b)
    BY <1>6, <1>8, <2>3, <2>4, <2>5 DEF Chosen
  <2>7. new_idom \in R /\ post_order[new_idom] \in Nat /\ post_order[p] \in Nat /\ post_order[b] \in Nat
    BY <1>8, <2>6 DEF Candidate, Scene, Numbering
  <2>8. post_order[new_idom] > post_order[b] /\ new_idom # b
    BY <2>1, <2>6, <2>7
  <2>9. Climb(idom, post_order, R, dom, b)'
    <3>1. idom'[new_idom] # 0
      BY <1>5, <1>6, <2>6, <2>7, <2>8 DEF Candidate
    <3> QED
      BY <1>5, <2>6, <2>7, <2>8, <3>1 DEF Climb, Candidate
  <2>10. ASSUME NEW x \in R \ {e, b}, idom'[x] # 0 PROVE Climb(idom, post_order, R, dom, x)'
    <3>1. idom'[x] = idom[x]
      BY <1>5, <1>6
    <3>2. Climb(idom, post_order, R, dom, x)
      BY <1>6, <2>10, <3>1 DEF Links
    <3>3. idom'[idom[x]] # 0
      BY <1>5, <1>6, <2>6, <3>2 DEF Climb
    <3> QED
      BY <3>1, <3>2, <3>3 DEF Climb
  <2>11. Links(idom, post_order, e, B, R, dom)'
    <3>1. b # e
      BY <1>6 DEF Chosen
    <3>2. idom'[e] = e /\ \A x \in B \ R : idom'[x] = 0
      BY <1>5, <1>6, <1>8, <3>1 DEF Links
    <3> QED
      BY <2>9, <2>10, <3>2 DEF Links
  <2>12. Swept(R)'
    <3> SUFFICES ASSUME NEW i \in 1 .. Len(post_order_vec), i > cursor - 1, post_order_vec[i] \in R
                 PROVE  idom'[post_order_vec[i]] # 0
      BY <1>2 DEF Swept
    <3>1. CASE post_order_vec[i] = b
      BY <1>5, <2>6, <3>1
    <3>2. CASE post_order_vec[i] # b
      <4>1. i > cursor
        BY <1>1, <1>3, <3>2
      <4>2. idom[post_order_vec[i]] # 0
        BY <1>6, <4>1 DEF Swept
      <4> QED
        BY <1>5, <1>6, <3>2, <4>2
    <3> QED
      BY <3>1, <3>2
  <2> QED
    BY <1>2, <2>11, <2>12 DEF LinksOf
<1> QED
  BY <1>7, <1>8

(* Of two candidates the one with the smaller number is no dominator yet, so *)
(* its link is a candidate as well.                                         *)
LEMMA FingerClimbs ==
    ASSUME NEW e, NEW B, NEW R, NEW dom, Scene(e, B, R, dom),
           Links(idom, post_order, e, B, R, dom), NEW b,
           NEW c, Candidate(c, R, dom, b), NEW o, Candidate(o, R, dom, b),
           post_order[c] < post_order[o]
    PROVE  Candidate(idom[c], R, dom, b) /\ post_order[idom[c]] > post_order[c]
<1>1. c \in R /\ o \in R /\ post_order[c] \in Nat /\ post_order[o] \in Nat /\ c # o
  BY DEF Candidate, Scene, Numbering
<1>2. c # e
  BY <1>1 DEF Scene, Numbering
<1>3. Climb(idom, post_order, R, dom, c)
  BY <1>1, <1>2 DEF Links, Candidate
<1>4. ASSUME NEW d \in R, b \in dom[d] \ {d} PROVE idom[c] \in dom[d]
  <2>1. c \in dom[d] /\ o \in dom[d]
    BY <1>4 DEF Candidate
  <2>2. c # d
    <3> SUFFICES ASSUME c = d PROVE FALSE
      OBVIOUS
    <3>1. o \in dom[c] \ {c}
      BY <1>1, <2>1
    <3>2. post_order[c] > post_order[o]
      BY <1>1, <3>1 DEF Scene
    <3> QED
      BY <1>1, <3>2
  <2> QED
    BY <1>3, <2>1, <2>2 DEF Climb
<1> QED
  BY <1>3, <1>4 DEF Climb, Candidate

LEMMA LinksMeet ==
    ASSUME Placed, NEW f, NEW e, NEW B, NEW R, NEW dom, Seen(f, e, B, R, dom), Scene(e, B, R, dom),
           UNCHANGED <<post_order_vec, post_order, pre_bbs>>, LinksOf(e, B, R, dom), D!Intersect
    PROVE  LinksOf(e, B, R, dom)'
<1>1. PICK b : b = post_order_vec[cursor]
  OBVIOUS
<1>2. /\ pc = "intersect" /\ b1 # b2 /\ UNCHANGED <<idom, cursor, pre, new_idom>>
      /\ \/ (b1 = 0 \/ b2 = 0) /\ pc' = "crash"
         \/ b1 # 0 /\ b2 # 0 /\ pc' = "intersect"
            /\ IF post_order[b1] < post_order[b2] THEN b1' = idom[b1] /\ b2' = b2
                                                  ELSE b2' = idom[b2] /\ b1' = b1
  BY DEF D!Intersect, D!NoBlock, D!below
<1>3. /\ Links(idom, post_order, e, B, R, dom)' /\ Links(idom, post_order, e, B, R, dom)
      /\ Swept(R)' /\ Chosen(e, R, dom, b)' /\ b = post_order_vec'[cursor'] /\ Meeting(R, dom, b)
  BY <1>1, <1>2 DEF LinksOf, Swept, Chosen, Candidate
<1>4. CASE b \notin R
  <2>1. Meeting(R, dom, b)'
    BY <1>4 DEF Meeting
  <2> QED
    BY <1>2, <1>3, <2>1 DEF LinksOf
<1>5. CASE b \in R
  <2>1. /\ new_idom # 0 /\ Candidate(b1, R, dom, b) /\ Candidate(b2, R, dom, b)
        /\ post_order[b1] >= post_order[new_idom]
        /\ post_order[b2] >= post_order[pre_bbs[b][pre]]
    BY <1>3, <1>5 DEF Meeting
  <2>2. b1 \in R /\ b2 \in R /\ b1 # 0 /\ b2 # 0
    BY <2>1 DEF Candidate, Scene
  <2>3. /\ post_order[b1] \in Nat /\ post_order[b2] \in Nat /\ post_order[b1] # post_order[b2]
        /\ post_order \in [Blocks -> Nat]
    BY <1>2, <2>2 DEF Scene, Numbering, Placed, D!TypeOK
  <2>4. \A c : Candidate(c, R, dom, b)' <=> Candidate(c, R, dom, b)
    BY <1>2 DEF Candidate
  <2>5. /\ post_order[new_idom] \in Int /\ post_order[pre_bbs[b][pre]] \in Int
    <3>1. Candidate(new_idom, R, dom, b)
      BY <1>1, <1>2, <1>5, <2>1 DEF LinksOf, Chosen
    <3>2. new_idom \in Blocks /\ b \in B
      BY <1>5, <3>1 DEF Candidate, Scene
    <3>3. pre_bbs[b][pre] \in Blocks
      <4>1. pre_bbs[b] \in Seq(Blocks)
        BY <3>2 DEF Scene
      <4>2. pre \in 1 .. Len(pre_bbs[b])
        BY <1>1, <1>2, <4>1, LenProperties DEF Placed, Places, D!TypeOK
      <4> QED
        BY <4>1, <4>2, Entries
    <3> QED
      BY <2>3, <3>2, <3>3
  <2>6. CASE post_order[b1] < post_order[b2]
    <3>1. Candidate(idom[b1], R, dom, b) /\ post_order[idom[b1]] > post_order[b1]
      BY <1>3, <2>1, <2>6, FingerClimbs
    <3>2. post_order[idom[b1]] \in Nat
      BY <3>1 DEF Candidate, Scene, Numbering
    <3>3. b1' = idom[b1] /\ b2' = b2 /\ pc' = "intersect"
      BY <1>2, <2>2, <2>6
    <3>4. Meeting(R, dom, b)'
      BY <1>2, <2>1, <2>3, <2>4, <2>5, <3>1, <3>2, <3>3 DEF Meeting
    <3> QED
      BY <1>3, <3>3, <3>4 DEF LinksOf
  <2>7. CASE post_order[b2] < post_order[b1]
    <3>1. Candidate(idom[b2], R, dom, b) /\ post_order[idom[b2]] > post_order[b2]
      BY <1>3, <2>1, <2>7, FingerClimbs
    <3>2. post_order[idom[b2]] \in Nat
      BY <3>1 DEF Candidate, Scene, Numbering
    <3>3. b2' = idom[b2] /\ b1' = b1 /\ pc' = "intersect"
      BY <1>2, <2>2, <2>3, <2>7
    <3>4. Meeting(R, dom, b)'
      BY <1>2, <2>1, <2>3, <2>4, <2>5, <3>1, <3>2, <3>3 DEF Meeting
    <3> QED
      BY <1>3, <3>3, <3>4 DEF LinksOf
  <2> QED
    BY <2>3, <2>6, <2>7
<1> QED
  BY <1>4, <1>5

LEMMA LinksMet ==
    ASSUME Placed, NEW f, NEW e, NEW B, NEW R, NEW dom, Seen(f, e, B, R, dom), Scene(e, B, R, dom),
           UNCHANGED <<post_order_vec, post_order, pre_bbs>>, LinksOf(e, B, R, dom), D!IntersectEnd
    PROVE  LinksOf(e, B, R, dom)'
<1>1. PICK b : b = post_order_vec[cursor]
  OBVIOUS
<1>2. /\ pc = "intersect" /\ b1 = b2 /\ UNCHANGED <<idom, cursor>>
      /\ new_idom' = b1 /\ pre' = pre + 1 /\ pc' = "preds"
  BY DEF D!IntersectEnd
<1>3. /\ Links(idom, post_order, e, B, R, dom)' /\ Swept(R)' /\ Chosen(e, R, dom, b)
      /\ b = post_order_vec'[cursor'] /\ Meeting(R, dom, b)
  BY <1>1, <1>2 DEF LinksOf, Swept
<1>4. \A c : Candidate(c, R, dom, b)' <=> Candidate(c, R, dom, b)
  BY <1>2 DEF Candidate
<1>5. Chosen(e, R, dom, b)'
  <2>1. CASE b \notin R
    BY <1>3, <2>1 DEF Chosen
  <2>2. CASE b \in R
    <3>1. /\ new_idom # 0 /\ Candidate(b1, R, dom, b) /\ Candidate(b2, R, dom, b)
          /\ post_order[b1] >= post_order[new_idom]
          /\ post_order[b1] >= post_order[pre_bbs[b][pre]]
      BY <1>2, <1>3, <2>2 DEF Meeting
    <3>2. b1 # 0 /\ post_order[b1] \in Nat
      BY <3>1 DEF Candidate, Scene, Numbering
    <3>3. pre \in Nat /\ b \in B /\ post_order \in [Blocks -> Nat] /\ B \subseteq Blocks
          /\ new_idom \in R /\ R \subseteq B
      BY <1>3, <2>2, <3>1 DEF Placed, D!TypeOK, Scene, Chosen, Candidate
    <3>4. ASSUME NEW j \in 1 .. Len(pre_bbs[b]), j < pre + 1, idom[pre_bbs[b][j]] # 0
          PROVE  post_order[b1] >= post_order[pre_bbs[b][j]]
      <4>1. CASE j = pre
        BY <3>1, <4>1
      <4>2. CASE j # pre
        <5>1. j < pre
          <6>1. pre_bbs[b] \in Seq(Blocks)
            BY <3>3 DEF Scene
          <6>2. j \in Nat
            BY <6>1, LenProperties
          <6> QED
            BY <3>3, <3>4, <4>2, <6>2
        <5>2. post_order[new_idom] >= post_order[pre_bbs[b][j]]
          BY <1>3, <2>2, <3>4, <5>1 DEF Chosen
        <5>3. pre_bbs[b][j] \in Blocks
          BY <3>3 DEF Scene
        <5> QED
          BY <3>1, <3>2, <3>3, <5>2, <5>3
      <4> QED
        BY <4>1, <4>2
    <3> QED
      BY <1>2, <1>3, <1>4, <3>1, <3>2, <3>4 DEF Chosen
  <2> QED
    BY <2>1, <2>2
<1> QED
  BY <1>2, <1>3, <1>5 DEF LinksOf

LEMMA FreshStep ==
    ASSUME Placed, Fresh, D!NextDominators, UNCHANGED builder_vars
    PROVE  Fresh'
<1>0. UNCHANGED basic_blocks /\ cursor \in Nat
  BY DEF builder_vars, Placed, D!TypeOK
<1>1. CASE D!RunOnFunc \/ D!DfsEnter \/ D!DfsLeave \/ D!CreateIdom
  BY <1>1 DEF D!RunOnFunc, D!DfsEnter, D!DfsLeave, D!CreateIdom, D!local_vars, Fresh
<1>2. CASE D!SweepBlock \/ D!SweepEnd
  BY <1>2 DEF D!SweepBlock, D!SweepEnd, D!local_vars, Fresh
<1>3. CASE D!NextPred \/ D!Intersect \/ D!IntersectEnd
  BY <1>3 DEF D!NextPred, D!Intersect, D!IntersectEnd, Fresh
<1>4. CASE D!SetIdom
  BY <1>4 DEF D!SetIdom, D!locals, D!NoBlock, Fresh
<1>5. CASE D!FrontierBlock
  <2>1. /\ pc = "frontier" /\ new_idom' = new_idom /\ func' = func
        /\ \/ pc' = "runner" /\ UNCHANGED <<cursor, pre>>
           \/ pc' = "frontier" /\ pre' = 1
    BY <1>5 DEF D!FrontierBlock
  <2> QED
    BY <2>1 DEF Fresh
<1>6. CASE D!Runner
  <2>1. pc = "runner" /\ UNCHANGED <<new_idom, func, cursor>> /\ pc' \in {"frontier", "crash", "runner"}
    BY <1>6 DEF D!Runner
  <2>2. cursor <= Len(basic_blocks[func]) /\ func \in Funcs
    BY <2>1 DEF Placed, Places, D!TypeOK
  <2>3. pc' = "frontier" => ~(cursor' > Len(basic_blocks'[func']))
    <3>1. basic_blocks[func] \in Seq(Blocks) => Len(basic_blocks[func]) \in Nat
      BY LenProperties
    <3> QED
      BY <1>0, <2>1, <2>2
  <2> QED
    BY <2>1, <2>3 DEF Fresh
<1>7. CASE D!CreateDomTree
  BY <1>7 DEF D!CreateDomTree, D!local_vars, Fresh
<1>8. CASE D!OrderLeave \/ D!FuncDone \/ \E c \in Blocks : D!OrderEnter(c)
  BY <1>8 DEF D!OrderLeave, D!FuncDone, D!OrderEnter, D!local_vars, Fresh
<1> QED
  BY <1>1, <1>2, <1>3, <1>4, <1>5, <1>6, <1>7, <1>8 DEF D!NextDominators

(* The steps after the sweeps only read the links.                          *)
LEMMA LinksRead ==
    ASSUME NEW e, NEW B, NEW R, NEW dom, UNCHANGED post_order, LinksOf(e, B, R, dom),
           \/ D!FrontierBlock \/ D!Runner \/ D!CreateDomTree \/ D!OrderLeave \/ D!FuncDone
           \/ \E c \in Blocks : D!OrderEnter(c)
    PROVE  LinksOf(e, B, R, dom)'
<1>1. /\ idom' = idom /\ pc \in {"frontier", "runner", "order"}
      /\ pc' \in {"frontier", "runner", "order", "idle", "crash"}
  <2>1. CASE D!FrontierBlock \/ D!Runner
    BY <2>1 DEF D!FrontierBlock, D!Runner
  <2>2. CASE D!CreateDomTree \/ D!OrderLeave
    BY <2>2 DEF D!CreateDomTree, D!OrderLeave
  <2>3. CASE D!FuncDone \/ \E c \in Blocks : D!OrderEnter(c)
    BY <2>3 DEF D!FuncDone, D!OrderEnter
  <2> QED
    BY <2>1, <2>2, <2>3
<1> QED
  BY <1>1 DEF LinksOf

LEMMA LinkedAlways == SpecAnalysis => [](Linked /\ Fresh)
<1>1. InitAnalysis => Linked /\ Fresh
  BY DEF InitAnalysis, D!InitDominators, Linked, Fresh, D!NoBlock
<1>2. Built /\ Placed /\ Searched /\ Linked /\ Fresh /\ [NextAnalysis]_all_vars => Linked' /\ Fresh'
  <2> SUFFICES ASSUME Built, Placed, Searched, Linked, Fresh, [NextAnalysis]_all_vars
               PROVE  Linked' /\ Fresh'
    OBVIOUS
  <2>1. func # 0 => compiled
    BY DEF Placed, Places
  <2>2. CASE dom_vars' = dom_vars /\ (func # 0 => builder_vars' = builder_vars)
    <3>1. UNCHANGED <<pc, func, cursor, pre, new_idom, b1, b2, idom, post_order_vec, post_order>>
      BY <2>2 DEF dom_vars
    <3>2. CASE func = 0
      <4>1. pc = "idle"
        BY <3>2 DEF Placed, Places
      <4> QED
        BY <3>1, <3>2, <4>1 DEF Linked, Fresh
    <3>3. CASE func # 0
      <4>1. UNCHANGED <<basic_blocks, succ_bbs, pre_bbs>>
        BY <2>2, <3>3 DEF builder_vars
      <4>2. PICK f, e, B, R, dom : Seen(f, e, B, R, dom)
        BY DEF Seen
      <4>3. Seen(f, e, B, R, dom)'
        <5>1. /\ Entry(f)' = Entry(f) /\ BlocksOf(f)' = BlocksOf(f) /\ Found(f)' = Found(f)
              /\ Doms(f)' = Doms(f)
          BY <4>1 DEF Entry, Found, BlocksOf, Doms
        <5> QED
          BY <3>1, <4>2, <5>1 DEF Seen
      <4>4. LinksOf(e, B, R, dom) => LinksOf(e, B, R, dom)'
        BY <3>1, <4>1 DEF LinksOf, Swept, Chosen, Meeting, Candidate
      <4>5. Linked'
        BY <3>1, <4>2, <4>3, <4>4 DEF Linked, Seen
      <4> QED
        BY <3>1, <4>1, <4>5 DEF Fresh
    <3> QED
      BY <3>2, <3>3
  <2>3. CASE compiled /\ D!NextDominators /\ builder_vars' = builder_vars
    <3>1. Ready /\ Fresh' /\ UNCHANGED <<basic_blocks, succ_bbs, pre_bbs>>
      BY <2>3, FreshStep DEF Ready, Built, builder_vars
    <3>2. CASE D!RunOnFunc \/ D!DfsEnter \/ D!DfsLeave
      <4>1. pc' = "dfs"
        BY <3>2 DEF D!RunOnFunc, D!DfsEnter, D!DfsLeave
      <4> QED
        BY <3>1, <4>1 DEF Linked
    <3>3. CASE ~D!RunOnFunc /\ ~D!DfsEnter /\ ~D!DfsLeave
      <4>1. PICK f, e, B, R, dom :
              /\ Seen(f, e, B, R, dom) /\ Seen(f, e, B, R, dom)' /\ Scene(e, B, R, dom)
              /\ UNCHANGED <<func, post_order_vec, post_order>> /\ pc' # "dfs"
        BY <2>3, <3>1, <3>3, SceneKept
      <4>2. func # 0
        <5>1. pc # "idle"
          BY <2>3, <3>3, NumbersKept
        <5> QED
          BY <5>1 DEF Placed, Places
      <4>3. LinksOf(e, B, R, dom)'
        <5>1. CASE D!CreateIdom
          BY <4>1, <5>1, LinksCreated
        <5>2. CASE ~D!CreateIdom
          <6>1. LinksOf(e, B, R, dom)
            <7>1. pc # "dfs"
              BY <2>3, <3>3, <5>2, NumbersKept
            <7> QED
              BY <4>1, <4>2, <7>1 DEF Linked, Seen
          <6> QED
            BY <2>3, <3>1, <3>3, <4>1, <5>2, <6>1, LinksSwept, LinksChosen, LinksSet, LinksMeet,
               LinksMet, LinksRead DEF D!NextDominators
        <5> QED
          BY <5>1, <5>2
      <4>4. Linked'
        BY <4>1, <4>3 DEF Linked, Seen
      <4> QED
        BY <3>1, <4>4
    <3> QED
      BY <3>2, <3>3
  <2> QED
    BY <2>1, <2>2, <2>3, AnalysisStep
<1> QED
  BY BuiltAlways, PlacedAlways, SearchedAlways, <1>1, <1>2, PTL DEF SpecAnalysis

(* In the function under analysis every link goes to a larger post order    *)
(* number, whatever was analysed before: this is what makes intersect end.  *)
THEOREM LinksClimb == SpecAnalysis => []IdomClimbs
<1>1. Built /\ Placed /\ Searched /\ Linked => IdomClimbs
  <2> SUFFICES ASSUME Built, Placed, Searched, Linked, D!Sweeping \/ D!IdomDone,
                      NEW b \in D!Own(func) \ {D!entry(func)}, idom[b] # 0
               PROVE  post_order[idom[b]] > post_order[b]
    BY DEF IdomClimbs, D!IdomClimbs, D!NoBlock
  <2>1. func # 0 /\ pc # "dfs"
    BY DEF Placed, Places, D!Sweeping, D!IdomDone
  <2>2. LinksOf(Entry(func), BlocksOf(func), Found(func), Doms(func))
    BY <2>1 DEF Linked
  <2>3. b \in BlocksOf(func) /\ b # Entry(func)
    BY DEF D!Own, D!ToSet, D!entry, BlocksOf, ToSet, Entry
  <2> QED
    BY <2>2, <2>3 DEF LinksOf, Links, Climb
<1> QED
  BY BuiltAlways, PlacedAlways, SearchedAlways, LinkedAlways, <1>1, PTL

-----------------------------------------------------------------------------
(* The chain of the links.                                                  *)

(* What Dominators measures its results by is the dominance of FlowGraph.   *)
LEMMA CardinalityIs == \A S : D!Cardinality(S) = Cardinality(S)
BY DEF D!Cardinality, Cardinality

LEMMA ReachIs == \A succ, start, avoid : D!Reach(succ, start, avoid) = Reach(succ, start, avoid)
BY CardinalityIs DEF D!Reach, Reach, D!ToSet, ToSet

LEMMA DomIs == \A f : D!Dom(f) = Doms(f) /\ D!entry(f) = Entry(f) /\ D!Own(f) = BlocksOf(f)
<1>1. \A succ, start : D!DominatedBy(succ, start) = DominatedBy(succ, start)
  BY ReachIs DEF D!DominatedBy, DominatedBy
<1> QED
  BY <1>1 DEF D!Dom, D!entry, D!Own, D!ToSet, Doms, Entry, BlocksOf, ToSet

Up(S) == S \cup {idom[x] : x \in S \ {0}}

LEMMA ChainUnfolds ==
    ASSUME idom \in [Blocks -> Blocks \cup {0}], NEW b \in Blocks
    PROVE  \E w \in [Nat -> SUBSET (Blocks \cup {0})] :
              /\ w[0] = {b} /\ \A n \in Nat : w[n + 1] = Up(w[n])
              /\ D!Chain(b) = w[Cardinality(Blocks)] \ {0}
<1> DEFINE M == Blocks \cup {0}
           Def(w) == [n \in Nat |-> IF n = 0 THEN {b}
                                    ELSE LET near == w[n - 1]
                                         IN  near \cup {idom[x] : x \in near \ {0}}]
           F == [ns \in Nat \X SUBSET M |-> Up(ns[2])]
           c == CHOOSE w : w = Def(w)
<1>1. \A S \in SUBSET M : Up(S) \in SUBSET M
  BY DEF Up
<1>2. F \in [Nat \X SUBSET M -> SUBSET M]
  BY <1>1
<1>3. {b} \in SUBSET M
  OBVIOUS
<1>4. PICK g : Iterates(g, {b}, F, SUBSET M)
  <2>1. IsStep(F, SUBSET M)
    BY <1>2 DEF IsStep
  <2> HIDE DEF F, M
  <2> QED
    BY <1>3, <2>1, Recursion
<1>5. \A n \in Nat : g[n + 1] = Up(g[n])
  <2> SUFFICES ASSUME NEW n \in Nat PROVE g[n + 1] = Up(g[n])
    OBVIOUS
  <2>1. <<n, g[n]>> \in Nat \X SUBSET M /\ <<n, g[n]>>[2] = g[n]
    BY <1>4 DEF Iterates
  <2>2. F[<<n, g[n]>>] = Up(g[n])
    BY <2>1
  <2> QED
    BY <1>4, <2>2 DEF Iterates
<1>6. g = Def(g)
  <2>1. ASSUME NEW n \in Nat PROVE g[n] = Def(g)[n]
    <3>1. CASE n = 0
      BY <1>4, <3>1 DEF Iterates
    <3>2. CASE n # 0
      <4>1. n - 1 \in Nat /\ (n - 1) + 1 = n
        BY <3>2
      <4>2. g[n] = Up(g[n - 1])
        BY <1>5, <4>1
      <4> QED
        BY <3>2, <4>2 DEF Up
    <3> QED
      BY <3>1, <3>2
  <2>2. DOMAIN g = Nat
    BY <1>4 DEF Iterates
  <2> QED
    BY <1>4, <2>1, <2>2 DEF Iterates
<1>7. c = Def(c)
  <2> HIDE DEF Def
  <2> QED
    BY <1>6
<1>8. D!Chain(b) = c[Cardinality(Blocks)] \ {0}
  BY CardinalityIs DEF D!Chain, D!NoBlock
<1> HIDE DEF c
<1>9. c[0] = {b} /\ \A n \in Nat : c[n + 1] = Up(c[n])
  <2>1. c[0] = {b}
    BY <1>7
  <2>2. ASSUME NEW n \in Nat PROVE c[n + 1] = Up(c[n])
    <3>1. n + 1 \in Nat /\ n + 1 # 0 /\ (n + 1) - 1 = n
      OBVIOUS
    <3>2. Def(c)[n + 1] = Up(c[n])
      BY <3>1 DEF Up
    <3> QED
      BY <1>7, <3>2
  <2> QED
    BY <2>1, <2>2
<1>10. c \in [Nat -> SUBSET M]
  <2> DEFINE T == {n \in Nat : c[n] \in SUBSET M}
  <2>1. 0 \in T
    BY <1>3, <1>9
  <2>2. \A n \in Nat : n \in T => n + 1 \in T
    BY <1>1, <1>9
  <2> HIDE DEF T
  <2>3. \A n \in Nat : n \in T
    BY <2>1, <2>2, Induction
  <2>4. \A n \in Nat : c[n] \in SUBSET M
    BY <2>3 DEF T
  <2> QED
    BY <1>7, <2>4
<1> QED
  BY <1>8, <1>9, <1>10

(* A block is listed once, so there are no more numbers than blocks.        *)
LEMMA NumbersBounded ==
    ASSUME post_order_vec \in Seq(Blocks), Numbered
    PROVE  Cardinality(Blocks) \in Nat /\ Len(post_order_vec) <= Cardinality(Blocks)
<1>1. IsFiniteSet(Blocks)
  BY BuilderAssumption, FS_Interval DEF Blocks, BuilderAssumption
<1>2. PICK m \in Nat : m = Len(post_order_vec) /\ DOMAIN post_order_vec = 1 .. m
  BY LenProperties
<1>3. post_order_vec \in [1 .. m -> Blocks]
  BY <1>2, LenProperties, Entries
<1>4. post_order_vec \in Injection(1 .. m, Blocks)
  BY <1>2, <1>3 DEF Injection, IsInjective, Numbered
<1>5. Cardinality(1 .. m) <= Cardinality(Blocks)
  BY <1>1, <1>4, FS_Injection
<1>6. Cardinality(1 .. m) = m
  <2>1. Cardinality(1 .. m) = IF 1 > m THEN 0 ELSE m - 1 + 1
    BY FS_Interval
  <2> QED
    BY <2>1
<1> QED
  BY <1>1, <1>2, <1>5, <1>6, FS_CardinalityType

(* Every link of the chain of a block comes closer to a dominator or meets  *)
(* it, and has a larger number.                                             *)
LEMMA ChainHolds ==
    ASSUME Placed, Numbered, NEW e, NEW B, NEW R, NEW dom, Scene(e, B, R, dom),
           Links(idom, post_order, e, B, R, dom),
           NEW b \in R, idom[b] # 0, NEW d \in R, b \in dom[d]
    PROVE  d \in D!Chain(b)
<1>1. /\ post_order \in [Blocks -> Nat] /\ R \subseteq Blocks /\ 0 \notin Blocks
      /\ idom \in [Blocks -> Blocks \cup {0}] /\ Len(post_order_vec) \in Nat
      /\ Cardinality(Blocks) \in Nat /\ Len(post_order_vec) <= Cardinality(Blocks)
  BY NumbersBounded DEF Placed, D!TypeOK, D!Maybe, D!NoBlock, Scene
<1>2. PICK w \in [Nat -> SUBSET (Blocks \cup {0})] :
           /\ w[0] = {b} /\ \A n \in Nat : w[n + 1] = Up(w[n])
           /\ D!Chain(b) = w[Cardinality(Blocks)] \ {0}
  BY <1>1, ChainUnfolds
<1> DEFINE Near(n, x) == /\ x \in w[n] /\ x \in R /\ idom[x] # 0 /\ x \in dom[d] \ {d}
                         /\ post_order[x] >= post_order[b] + n
           T == {n \in Nat : d \in w[n] \/ \E x : Near(n, x)}
<1>3. 0 \in T
  <2>1. b \in w[0] /\ post_order[b] \in Nat
    BY <1>1, <1>2
  <2>2. b # d => Near(0, b)
    BY <2>1
  <2>3. d \in w[0] \/ \E x : Near(0, x)
    BY <2>1, <2>2
  <2> QED
    BY <2>3
<1>4. ASSUME NEW n \in Nat, n \in T PROVE n + 1 \in T
  <2>1. w[n] \subseteq w[n + 1] /\ \A x \in w[n] \ {0} : idom[x] \in w[n + 1]
    BY <1>2 DEF Up
  <2>2. CASE d \in w[n]
    BY <2>1, <2>2
  <2>3. CASE d \notin w[n]
    <3>1. PICK x : Near(n, x)
      BY <1>4, <2>3
    <3>2. x # e
      <4>1. post_order[d] > post_order[x]
        BY <3>1 DEF Scene
      <4>2. d = e \/ post_order[d] < post_order[e]
        BY DEF Scene, Numbering
      <4>3. post_order[d] \in Nat /\ post_order[x] \in Nat
        BY <1>1, <3>1
      <4> QED
        BY <3>1, <4>1, <4>2, <4>3
    <3>3. Climb(idom, post_order, R, dom, x)
      BY <3>1, <3>2 DEF Links
    <3>4. PICK y : y = idom[x]
      OBVIOUS
    <3>5. y \in R /\ post_order[y] > post_order[x] /\ idom[y] # 0 /\ y \in dom[d] /\ y \in w[n + 1]
      BY <1>1, <2>1, <3>1, <3>3, <3>4 DEF Climb
    <3>6. post_order[y] >= post_order[b] + (n + 1)
      <4>1. post_order[y] \in Nat /\ post_order[x] \in Nat /\ post_order[b] \in Nat
        BY <1>1, <3>1, <3>5
      <4> QED
        BY <3>1, <3>5, <4>1
    <3> QED
      BY <3>5, <3>6
  <2> QED
    BY <2>2, <2>3
<1> HIDE DEF T
<1>5. \A n \in Nat : n \in T
  BY <1>3, <1>4, Induction
<1>6. PICK k \in Nat : k = Cardinality(Blocks)
  BY <1>1
<1>7. d \in w[k] \/ \E x : Near(k, x)
  BY <1>5 DEF T
<1>8. ~\E x : Near(k, x)
  <2> SUFFICES ASSUME NEW x, Near(k, x) PROVE FALSE
    OBVIOUS
  <2>1. post_order[x] \in 1 .. Len(post_order_vec) /\ post_order[b] \in 1 .. Len(post_order_vec)
    BY DEF Scene, Numbering
  <2> QED
    BY <1>1, <1>6, <2>1
<1>9. d # 0
  BY <1>1
<1> QED
  BY <1>2, <1>6, <1>7, <1>8, <1>9

(* While the sweeps run no block's chain has lost a dominator.              *)
THEOREM ChainsKeepDominators == SpecAnalysis => []DominatorsOnChain
<1>1. Built /\ Placed /\ Searched /\ Linked => DominatorsOnChain
  <2> SUFFICES ASSUME Built, Placed, Searched, Linked, D!Sweeping,
                      NEW b \in DOMAIN Doms(func), idom[b] # 0,
                      NEW d \in DOMAIN Doms(func), b \in Doms(func)[d]
               PROVE  d \in D!Chain(b)
    BY DomIs DEF DominatorsOnChain, D!DominatorsOnChain, D!NoBlock
  <2>1. func # 0 /\ pc # "dfs"
    BY DEF Placed, Places, D!Sweeping
  <2>2. Ready /\ Numbered /\ Ordered
    BY <2>1 DEF Built, Ready, Placed, Places, Searched
  <2>3. PICK f, e, B, R, dom : Seen(f, e, B, R, dom) /\ Scene(e, B, R, dom)
    BY <2>1, <2>2, OwnScene
  <2>4. Links(idom, post_order, e, B, R, dom)
    BY <2>1, <2>3 DEF Linked, LinksOf, Seen
  <2>5. DOMAIN dom = R /\ dom = Doms(func)
    BY <2>3, DomValue DEF Scene, Seen
  <2> QED
    BY <2>2, <2>3, <2>4, <2>5, ChainHolds
<1> QED
  BY BuiltAlways, PlacedAlways, SearchedAlways, LinkedAlways, <1>1, PTL

-----------------------------------------------------------------------------
(* The fixed point.                                                         *)

(* What the links lead to from a block: the least set that holds the block  *)
(* and follows them.                                                        *)
Follows(id, S) == \A y \in S : id[y] # 0 => id[y] \in S
Above(id, p)   == {c \in Blocks : \A S \in SUBSET Blocks : p \in S /\ Follows(id, S) => c \in S}

LEMMA AboveFacts ==
    ASSUME NEW id \in [Blocks -> Blocks \cup {0}], NEW p \in Blocks
    PROVE  /\ p \in Above(id, p) /\ Above(id, p) \subseteq Blocks
           /\ \A c \in Above(id, p) : id[c] # 0 => id[c] \in Above(id, p)
           /\ \A q \in Above(id, p) : Above(id, q) \subseteq Above(id, p)
           /\ \A c \in Above(id, p) : c = p \/ (id[p] # 0 /\ c \in Above(id, id[p]))
<1>1. p \in Above(id, p) /\ Above(id, p) \subseteq Blocks
  BY DEF Above
<1>2. ASSUME NEW c \in Above(id, p), id[c] # 0 PROVE id[c] \in Above(id, p)
  <2>1. c \in Blocks /\ id[c] \in Blocks
    BY <1>2 DEF Above
  <2>2. ASSUME NEW S \in SUBSET Blocks, p \in S, Follows(id, S) PROVE id[c] \in S
    <3>1. c \in S
      BY <2>2 DEF Above
    <3> QED
      BY <1>2, <2>2, <3>1 DEF Follows
  <2> QED
    BY <2>1, <2>2 DEF Above
<1>3. ASSUME NEW q \in Above(id, p), NEW c \in Above(id, q) PROVE c \in Above(id, p)
  <2>1. c \in Blocks
    BY DEF Above
  <2>2. ASSUME NEW S \in SUBSET Blocks, p \in S, Follows(id, S) PROVE c \in S
    <3>1. q \in S
      BY <2>2 DEF Above
    <3> QED
      BY <2>2, <3>1 DEF Above
  <2> QED
    BY <2>1, <2>2 DEF Above
<1>4. ASSUME NEW c \in Above(id, p), c # p PROVE id[p] # 0 /\ c \in Above(id, id[p])
  <2>1. CASE id[p] = 0
    <3>1. {p} \in SUBSET Blocks /\ p \in {p} /\ Follows(id, {p})
      BY <2>1 DEF Follows
    <3> QED
      BY <1>4, <3>1 DEF Above
  <2>2. CASE id[p] # 0
    <3> DEFINE U == {p} \cup Above(id, id[p])
    <3>1. id[p] \in Blocks
      BY <2>2
    <3>2. id[p] \in Above(id, id[p]) /\ Above(id, id[p]) \subseteq Blocks
      BY <3>1 DEF Above
    <3>3. ASSUME NEW y \in U, id[y] # 0 PROVE id[y] \in U
      <4>1. CASE y = p
        BY <3>2, <4>1
      <4>2. CASE y \in Above(id, id[p])
        <5>1. id[y] \in Blocks
          BY <3>2, <3>3, <4>2
        <5>2. ASSUME NEW S \in SUBSET Blocks, id[p] \in S, Follows(id, S) PROVE id[y] \in S
          <6>1. y \in S
            BY <4>2, <5>2 DEF Above
          <6> QED
            BY <3>3, <5>2, <6>1 DEF Follows
        <5>3. id[y] \in Above(id, id[p])
          BY <5>1, <5>2 DEF Above
        <5> QED
          BY <5>3
      <4> QED
        BY <4>1, <4>2
    <3>4. U \in SUBSET Blocks /\ p \in U /\ Follows(id, U)
      BY <3>2, <3>3 DEF Follows
    <3>5. c \in U
      <4> HIDE DEF U
      <4> QED
        BY <3>4 DEF Above
    <3> QED
      BY <1>4, <2>2, <3>5
  <2> QED
    BY <2>1, <2>2
<1> QED
  BY <1>1, <1>2, <1>3, <1>4

(* Every predecessor that has a link leads to c.                            *)
Met(id, R, b, c) == \A p \in R : b \in ToSet(succ_bbs[p]) /\ id[p] # 0 => c \in Above(id, p)

FixedOf(e, R) ==
    /\ pc \in {"sweep", "preds", "intersect"} /\ ~changed =>
          \A i \in 1 .. Len(post_order_vec) :
              i > cursor /\ post_order_vec[i] \in R \ {e} =>
                  Met(idom, R, post_order_vec[i], idom[post_order_vec[i]])
    /\ pc \in {"preds", "intersect"} /\ post_order_vec[cursor] \in R =>
          \A j \in 1 .. Len(pre_bbs[post_order_vec[cursor]]) :
              j < pre /\ idom[pre_bbs[post_order_vec[cursor]][j]] # 0 =>
                  new_idom \in Above(idom, pre_bbs[post_order_vec[cursor]][j])
    /\ pc = "intersect" /\ post_order_vec[cursor] \in R =>
          /\ b1 \in Above(idom, new_idom)
          /\ b2 \in Above(idom, pre_bbs[post_order_vec[cursor]][pre])
    /\ pc \in {"frontier", "runner", "order", "idle"} =>
          \A b \in R \ {e} : Met(idom, R, b, idom[b])

Fixed == func # 0 /\ pc # "dfs" => FixedOf(Entry(func), Found(func))

LEMMA FixedSwept ==
    ASSUME Placed, NEW e, NEW B, NEW R, NEW dom, Scene(e, B, R, dom),
           UNCHANGED <<post_order_vec, post_order, pre_bbs, succ_bbs>>,
           D!CreateIdom \/ (Fresh /\ FixedOf(e, R) /\ (D!SweepBlock \/ D!SweepEnd)),
           e = D!entry(func)
    PROVE  FixedOf(e, R)'
<1>1. /\ Len(post_order_vec) \in Nat /\ cursor \in Nat
      /\ \A b \in R : post_order[b] \in 1 .. Len(post_order_vec)
                      /\ post_order_vec[post_order[b]] = b
  BY DEF Scene, Numbering, Placed, D!TypeOK
<1>2. CASE pc' = "sweep" /\ cursor' = Len(post_order_vec)
  BY <1>1, <1>2 DEF FixedOf
<1>3. CASE Fresh /\ FixedOf(e, R) /\ D!SweepBlock
  <2>1. /\ cursor > 0 /\ pc = "sweep" /\ UNCHANGED <<idom, pre, new_idom, changed>> /\ pre = 1
        /\ IF post_order_vec[cursor] = e THEN cursor' = cursor - 1 /\ pc' = "sweep"
                                         ELSE pc' = "preds" /\ cursor' = cursor
    BY <1>3 DEF D!SweepBlock, D!local_vars, Fresh
  <2>2. ASSUME ~changed, NEW i \in 1 .. Len(post_order_vec), i > cursor',
               post_order_vec[i] \in R \ {e}
        PROVE  Met(idom, R, post_order_vec[i], idom[post_order_vec[i]])
    <3>1. i > cursor
      BY <1>1, <2>1, <2>2
    <3> QED
      BY <1>3, <2>1, <2>2, <3>1 DEF FixedOf
  <2>3. \A x, c : Met(idom, R, x, c)' <=> Met(idom, R, x, c)
    BY <2>1 DEF Met
  <2> QED
    BY <2>1, <2>2, <2>3 DEF FixedOf
<1>4. CASE Fresh /\ FixedOf(e, R) /\ D!SweepEnd /\ pc' = "frontier"
  <2>1. cursor = 0 /\ ~changed /\ pc = "sweep" /\ idom' = idom
    BY <1>4 DEF D!SweepEnd
  <2>2. ASSUME NEW b \in R \ {e} PROVE Met(idom, R, b, idom[b])
    <3>1. PICK i \in 1 .. Len(post_order_vec) : i = post_order[b] /\ post_order_vec[i] = b
      BY <1>1
    <3>2. i > cursor
      BY <2>1
    <3> QED
      BY <1>4, <2>1, <3>1, <3>2 DEF FixedOf
  <2>3. \A x, c : Met(idom, R, x, c)' <=> Met(idom, R, x, c)
    BY <2>1 DEF Met
  <2> QED
    BY <1>4, <2>1, <2>2, <2>3 DEF FixedOf
<1>5. D!CreateIdom => pc' = "sweep" /\ cursor' = Len(post_order_vec)
  BY DEF D!CreateIdom, D!rbegin
<1>6. D!SweepEnd => (pc' = "sweep" /\ cursor' = Len(post_order_vec)) \/ pc' = "frontier"
  BY DEF D!SweepEnd, D!rbegin
<1> QED
  BY <1>2, <1>3, <1>4, <1>5, <1>6

(* The predecessors of a block that is reached.                             *)
LEMMA PredFacts ==
    ASSUME Placed, NEW e, NEW B, NEW R, NEW dom, Scene(e, B, R, dom), NEW b \in R
    PROVE  /\ Len(pre_bbs[b]) \in Nat
           /\ \A j \in 1 .. Len(pre_bbs[b]) : pre_bbs[b][j] \in Blocks
           /\ \A p \in R : b \in ToSet(succ_bbs[p]) => \E j \in 1 .. Len(pre_bbs[b]) : p = pre_bbs[b][j]
           /\ idom \in [Blocks -> Blocks \cup {0}] /\ 0 \notin Blocks /\ R \subseteq Blocks
<1>1. /\ pre_bbs[b] \in Seq(Blocks)
      /\ \A j \in 1 .. Len(pre_bbs[b]) : pre_bbs[b][j] \in B
      /\ \A p \in R : b \in ToSet(succ_bbs[p]) => \E j \in 1 .. Len(pre_bbs[b]) : p = pre_bbs[b][j]
      /\ B \subseteq Blocks /\ 0 \notin Blocks /\ R \subseteq B
  BY DEF Scene
<1>2. Len(pre_bbs[b]) \in Nat
  BY <1>1, LenProperties
<1>3. idom \in [Blocks -> Blocks \cup {0}]
  BY DEF Placed, D!TypeOK, D!Maybe, D!NoBlock
<1> QED
  BY <1>1, <1>2, <1>3

LEMMA FixedChosen ==
    ASSUME Placed, NEW e, NEW B, NEW R, NEW dom, Scene(e, B, R, dom),
           UNCHANGED <<post_order_vec, post_order, pre_bbs, succ_bbs>>,
           LinksOf(e, B, R, dom), FixedOf(e, R), D!NextPred
    PROVE  FixedOf(e, R)'
<1>1. /\ pc = "preds" /\ UNCHANGED <<idom, cursor, changed>> /\ pc' \in {"preds", "intersect"}
  BY DEF D!NextPred
<1>2. PICK b, p : b = post_order_vec[cursor] /\ p = pre_bbs[b][pre]
  OBVIOUS
<1>3. /\ pre <= Len(pre_bbs[b])
      /\ \/ idom[p] = 0 /\ pre' = pre + 1 /\ new_idom' = new_idom /\ pc' = "preds"
         \/ idom[p] # 0 /\ new_idom = 0 /\ new_idom' = p /\ pre' = pre + 1 /\ pc' = "preds"
         \/ /\ idom[p] # 0 /\ new_idom # 0 /\ b1' = new_idom /\ b2' = p /\ pc' = "intersect"
            /\ UNCHANGED <<pre, new_idom>>
  BY <1>1, <1>2 DEF D!NextPred, D!processed, D!NoBlock
<1>4. /\ b = post_order_vec'[cursor'] /\ \A x : Above(idom, x)' = Above(idom, x)
      /\ \A x, c : Met(idom, R, x, c)' <=> Met(idom, R, x, c)
  BY <1>1, <1>2 DEF Met, Above, Follows
<1>5. /\ ~changed' =>
            \A i \in 1 .. Len(post_order_vec') :
                i > cursor' /\ post_order_vec'[i] \in R \ {e} =>
                    Met(idom, R, post_order_vec[i], idom[post_order_vec[i]])'
  BY <1>1, <1>4 DEF FixedOf
<1>6. CASE b \notin R
  BY <1>1, <1>4, <1>5, <1>6 DEF FixedOf
<1>7. CASE b \in R
  <2>1. /\ Len(pre_bbs[b]) \in Nat /\ \A j \in 1 .. Len(pre_bbs[b]) : pre_bbs[b][j] \in Blocks
        /\ idom \in [Blocks -> Blocks \cup {0}] /\ 0 \notin Blocks /\ R \subseteq Blocks
    BY <1>7, PredFacts
  <2>2. pre \in 1 .. Len(pre_bbs[b])
    BY <1>3, <2>1 DEF Placed, D!TypeOK
  <2>3. p \in Blocks /\ p \in Above(idom, p)
    BY <1>2, <2>1, <2>2, AboveFacts
  <2>4. \A j \in 1 .. Len(pre_bbs[b]) : j < pre /\ idom[pre_bbs[b][j]] # 0 =>
            new_idom # 0 /\ new_idom \in Above(idom, pre_bbs[b][j])
    BY <1>1, <1>2, <1>7 DEF LinksOf, Chosen, FixedOf
  <2>5. \A j \in 1 .. Len(pre_bbs[b]) : j < pre + 1 => j < pre \/ j = pre
    BY <2>1, <2>2
  <2>6. CASE idom[p] = 0 /\ pre' = pre + 1 /\ new_idom' = new_idom /\ pc' = "preds"
    <3>1. \A j \in 1 .. Len(pre_bbs[b]) : j < pre' /\ idom[pre_bbs[b][j]] # 0 =>
              new_idom' \in Above(idom, pre_bbs[b][j])
      BY <1>2, <2>4, <2>5, <2>6
    <3> QED
      BY <1>1, <1>4, <1>5, <2>6, <3>1 DEF FixedOf
  <2>7. CASE idom[p] # 0 /\ new_idom = 0 /\ new_idom' = p /\ pre' = pre + 1 /\ pc' = "preds"
    <3>1. \A j \in 1 .. Len(pre_bbs[b]) : j < pre' /\ idom[pre_bbs[b][j]] # 0 =>
              new_idom' \in Above(idom, pre_bbs[b][j])
      BY <1>2, <2>3, <2>4, <2>5, <2>7
    <3> QED
      BY <1>1, <1>4, <1>5, <2>7, <3>1 DEF FixedOf
  <2>8. CASE /\ idom[p] # 0 /\ new_idom # 0 /\ b1' = new_idom /\ b2' = p /\ pc' = "intersect"
             /\ UNCHANGED <<pre, new_idom>>
    <3>1. new_idom \in Blocks
      BY <1>1, <1>2, <1>7, <2>1, <2>8 DEF LinksOf, Chosen, Candidate
    <3>2. new_idom \in Above(idom, new_idom)
      BY <2>1, <3>1, AboveFacts
    <3>3. b1' \in Above(idom, new_idom') /\ b2' \in Above(idom, pre_bbs[b][pre'])
      BY <1>2, <2>3, <2>8, <3>2
    <3>4. \A j \in 1 .. Len(pre_bbs[b]) : j < pre' /\ idom[pre_bbs[b][j]] # 0 =>
              new_idom' \in Above(idom, pre_bbs[b][j])
      BY <2>4, <2>8
    <3> QED
      BY <1>1, <1>4, <1>5, <2>8, <3>3, <3>4 DEF FixedOf
  <2> QED
    BY <1>3, <2>6, <2>7, <2>8
<1> QED
  BY <1>6, <1>7

LEMMA FixedMeet ==
    ASSUME Placed, NEW e, NEW B, NEW R, NEW dom, Scene(e, B, R, dom),
           UNCHANGED <<post_order_vec, post_order, pre_bbs, succ_bbs>>,
           LinksOf(e, B, R, dom), FixedOf(e, R), D!Intersect \/ D!IntersectEnd
    PROVE  FixedOf(e, R)'
<1>1. PICK b : b = post_order_vec[cursor]
  OBVIOUS
<1>2. /\ pc = "intersect" /\ UNCHANGED <<idom, cursor, changed>>
      /\ \/ pc' = "crash"
         \/ /\ pc' = "intersect" /\ UNCHANGED <<pre, new_idom>> /\ b1 # 0 /\ b2 # 0
            /\ (b1' = idom[b1] /\ b2' = b2) \/ (b1' = b1 /\ b2' = idom[b2])
         \/ pc' = "preds" /\ b1 = b2 /\ new_idom' = b1 /\ pre' = pre + 1
  BY DEF D!Intersect, D!IntersectEnd, D!NoBlock
<1>3. /\ b = post_order_vec'[cursor'] /\ \A x : Above(idom, x)' = Above(idom, x)
      /\ \A x, c : Met(idom, R, x, c)' <=> Met(idom, R, x, c)
  BY <1>1, <1>2 DEF Met, Above, Follows
<1>4. /\ ~changed' =>
            \A i \in 1 .. Len(post_order_vec') :
                i > cursor' /\ post_order_vec'[i] \in R \ {e} =>
                    Met(idom, R, post_order_vec[i], idom[post_order_vec[i]])'
  BY <1>2, <1>3 DEF FixedOf
<1>5. CASE pc' = "crash"
  BY <1>5 DEF FixedOf
<1>6. CASE b \notin R
  BY <1>2, <1>3, <1>4, <1>6 DEF FixedOf
<1>7. CASE b \in R /\ pc' # "crash"
  <2>1. /\ Len(pre_bbs[b]) \in Nat /\ \A j \in 1 .. Len(pre_bbs[b]) : pre_bbs[b][j] \in Blocks
        /\ idom \in [Blocks -> Blocks \cup {0}] /\ 0 \notin Blocks /\ R \subseteq Blocks
    BY <1>7, PredFacts
  <2>2. pre \in 1 .. Len(pre_bbs[b])
    BY <1>1, <1>2, <2>1 DEF Placed, Places, D!TypeOK
  <2>3. /\ new_idom # 0 /\ Candidate(b1, R, dom, b) /\ Candidate(b2, R, dom, b)
        /\ Candidate(new_idom, R, dom, b)
    BY <1>1, <1>2, <1>7 DEF LinksOf, Chosen, Meeting
  <2>4. /\ idom[b1] # 0 /\ idom[b2] # 0 /\ new_idom \in Blocks /\ pre_bbs[b][pre] \in Blocks
    BY <2>1, <2>2, <2>3 DEF Candidate
  <2>5. b1 \in Above(idom, new_idom) /\ b2 \in Above(idom, pre_bbs[b][pre])
    BY <1>1, <1>2, <1>7 DEF FixedOf
  <2>6. \A j \in 1 .. Len(pre_bbs[b]) : j < pre /\ idom[pre_bbs[b][j]] # 0 =>
            new_idom \in Above(idom, pre_bbs[b][j])
    BY <1>1, <1>2, <1>7 DEF FixedOf
  <2>7. CASE /\ pc' = "intersect" /\ UNCHANGED <<pre, new_idom>> /\ b1 # 0 /\ b2 # 0
             /\ (b1' = idom[b1] /\ b2' = b2) \/ (b1' = b1 /\ b2' = idom[b2])
    <3>1. b1' \in Above(idom, new_idom) /\ b2' \in Above(idom, pre_bbs[b][pre])
      <4>1. idom[b1] \in Above(idom, new_idom) /\ idom[b2] \in Above(idom, pre_bbs[b][pre])
        BY <2>1, <2>4, <2>5, AboveFacts
      <4> QED
        BY <2>5, <2>7, <4>1
    <3> QED
      BY <1>2, <1>3, <1>4, <2>6, <2>7, <3>1 DEF FixedOf
  <2>8. CASE pc' = "preds" /\ b1 = b2 /\ new_idom' = b1 /\ pre' = pre + 1
    <3>1. ASSUME NEW j \in 1 .. Len(pre_bbs[b]), j < pre', idom[pre_bbs[b][j]] # 0
          PROVE  new_idom' \in Above(idom, pre_bbs[b][j])
      <4>1. CASE j = pre
        BY <2>5, <2>8, <4>1
      <4>2. CASE j # pre
        <5>1. j < pre
          BY <2>1, <2>2, <2>8, <3>1, <4>2
        <5>2. new_idom \in Above(idom, pre_bbs[b][j]) /\ pre_bbs[b][j] \in Blocks
          BY <2>1, <2>6, <3>1, <5>1
        <5>3. Above(idom, new_idom) \subseteq Above(idom, pre_bbs[b][j])
          BY <2>1, <5>2, AboveFacts
        <5> QED
          BY <2>5, <2>8, <5>3
      <4> QED
        BY <4>1, <4>2
    <3> QED
      BY <1>2, <1>3, <1>4, <2>8, <3>1 DEF FixedOf
  <2> QED
    BY <1>2, <1>7, <2>7, <2>8
<1> QED
  BY <1>5, <1>6, <1>7

LEMMA FixedSet ==
    ASSUME Placed, NEW e, NEW B, NEW R, NEW dom, Scene(e, B, R, dom),
           UNCHANGED <<post_order_vec, post_order, pre_bbs, succ_bbs>>,
           LinksOf(e, B, R, dom), FixedOf(e, R), D!SetIdom
    PROVE  FixedOf(e, R)'
<1>1. PICK b : b = post_order_vec[cursor]
  OBVIOUS
<1>2. /\ pc = "preds" /\ pc' = "sweep" /\ cursor' = cursor - 1 /\ pre > Len(pre_bbs[b])
      /\ idom' = [idom EXCEPT ![b] = new_idom]
      /\ changed' = (changed \/ idom[b] # new_idom)
  BY <1>1 DEF D!SetIdom
<1>3. cursor \in 1 .. Len(post_order_vec) /\ idom \in [Blocks -> Blocks \cup {0}] /\ pre \in Nat
  BY <1>2 DEF Placed, Places, D!TypeOK, D!Maybe, D!NoBlock, Scene
<1>4. b \in Blocks
  BY <1>1, <1>3 DEF Scene
<1>5. SUFFICES ASSUME ~changed',
                      NEW i \in 1 .. Len(post_order_vec), i > cursor - 1,
                      post_order_vec[i] \in R \ {e}
               PROVE  Met(idom', R, post_order_vec[i], idom'[post_order_vec[i]])
  BY <1>2 DEF FixedOf, Met
<1>6. ~changed /\ idom[b] = new_idom
  BY <1>2, <1>5
<1>7. idom' = idom
  BY <1>2, <1>3, <1>4, <1>6
<1>8. CASE i > cursor
  BY <1>2, <1>5, <1>6, <1>7, <1>8 DEF FixedOf
<1>9. CASE i = cursor
  <2>1. post_order_vec[i] = b /\ b \in R
    BY <1>1, <1>5, <1>9
  <2>2. ASSUME NEW p \in R, b \in ToSet(succ_bbs[p]), idom[p] # 0 PROVE new_idom \in Above(idom, p)
    <3>1. PICK j \in 1 .. Len(pre_bbs[b]) : p = pre_bbs[b][j]
      BY <2>1, <2>2, PredFacts
    <3>2. j < pre
      <4>1. Len(pre_bbs[b]) \in Nat
        BY <2>1, PredFacts
      <4> QED
        BY <1>2, <1>3, <4>1
    <3> QED
      BY <1>1, <1>2, <2>1, <2>2, <3>1, <3>2 DEF FixedOf
  <2> QED
    BY <1>6, <1>7, <2>1, <2>2 DEF Met
<1> QED
  BY <1>3, <1>5, <1>8, <1>9

(* The steps after the sweeps only read the links.                          *)
LEMMA FixedRead ==
    ASSUME NEW e, NEW R, UNCHANGED <<post_order_vec, succ_bbs>>, FixedOf(e, R),
           \/ D!FrontierBlock \/ D!Runner \/ D!CreateDomTree \/ D!OrderLeave \/ D!FuncDone
           \/ \E c \in Blocks : D!OrderEnter(c)
    PROVE  FixedOf(e, R)'
<1>1. /\ idom' = idom /\ pc \in {"frontier", "runner", "order"}
      /\ pc' \in {"frontier", "runner", "order", "idle", "crash"}
  <2>1. CASE D!FrontierBlock \/ D!Runner
    BY <2>1 DEF D!FrontierBlock, D!Runner
  <2>2. CASE D!CreateDomTree \/ D!OrderLeave
    BY <2>2 DEF D!CreateDomTree, D!OrderLeave
  <2>3. CASE D!FuncDone \/ \E c \in Blocks : D!OrderEnter(c)
    BY <2>3 DEF D!FuncDone, D!OrderEnter
  <2> QED
    BY <2>1, <2>2, <2>3
<1>2. \A x, c : Met(idom, R, x, c)' <=> Met(idom, R, x, c)
  BY <1>1 DEF Met, Above, Follows
<1> QED
  BY <1>1, <1>2 DEF FixedOf

LEMMA FixedAlways == SpecAnalysis => []Fixed
<1>1. InitAnalysis => Fixed
  BY DEF InitAnalysis, D!InitDominators, Fixed
<1>2. Built /\ Placed /\ Searched /\ Linked /\ Fresh /\ Fixed /\ [NextAnalysis]_all_vars => Fixed'
  <2> SUFFICES ASSUME Built, Placed, Searched, Linked, Fresh, Fixed, [NextAnalysis]_all_vars
               PROVE  Fixed'
    OBVIOUS
  <2>1. func # 0 => compiled
    BY DEF Placed, Places
  <2>2. CASE dom_vars' = dom_vars /\ (func # 0 => builder_vars' = builder_vars)
    <3>1. UNCHANGED <<pc, func, cursor, pre, new_idom, b1, b2, idom, changed, post_order_vec>>
      BY <2>2 DEF dom_vars
    <3>2. CASE func = 0
      BY <3>1, <3>2 DEF Fixed
    <3>3. CASE func # 0
      <4>1. UNCHANGED <<basic_blocks, succ_bbs, pre_bbs>>
        BY <2>2, <3>3 DEF builder_vars
      <4>2. PICK f, e, R : f = func /\ e = Entry(f) /\ R = Found(f)
        OBVIOUS
      <4>3. Entry(f)' = e /\ Found(f)' = R
        BY <4>1, <4>2 DEF Entry, Found
      <4>4. FixedOf(e, R) => FixedOf(e, R)'
        BY <3>1, <4>1 DEF FixedOf, Met, Above, Follows
      <4> QED
        BY <3>1, <4>2, <4>3, <4>4 DEF Fixed
    <3> QED
      BY <3>2, <3>3
  <2>3. CASE compiled /\ D!NextDominators /\ builder_vars' = builder_vars
    <3>1. Ready /\ UNCHANGED <<basic_blocks, succ_bbs, pre_bbs>>
      BY <2>3 DEF Ready, Built, builder_vars
    <3>2. CASE D!RunOnFunc \/ D!DfsEnter \/ D!DfsLeave
      <4>1. pc' = "dfs"
        BY <3>2 DEF D!RunOnFunc, D!DfsEnter, D!DfsLeave
      <4> QED
        BY <4>1 DEF Fixed
    <3>3. CASE ~D!RunOnFunc /\ ~D!DfsEnter /\ ~D!DfsLeave
      <4>1. PICK f, e, B, R, dom :
              /\ Seen(f, e, B, R, dom) /\ Seen(f, e, B, R, dom)' /\ Scene(e, B, R, dom)
              /\ UNCHANGED <<func, post_order_vec, post_order>> /\ pc' # "dfs"
        BY <2>3, <3>1, <3>3, SceneKept
      <4>2. func # 0 /\ e = D!entry(func)
        <5>1. pc # "idle"
          BY <2>3, <3>3, NumbersKept
        <5> QED
          BY <4>1, <5>1, DomIs DEF Placed, Places, Seen
      <4>3. FixedOf(e, R)'
        <5>1. CASE D!CreateIdom
          BY <3>1, <4>1, <4>2, <5>1, FixedSwept
        <5>2. CASE ~D!CreateIdom
          <6>1. LinksOf(e, B, R, dom) /\ FixedOf(e, R)
            <7>1. pc # "dfs"
              BY <2>3, <3>3, <5>2, NumbersKept
            <7> QED
              BY <4>1, <4>2, <7>1 DEF Linked, Fixed, Seen
          <6> QED
            BY <2>3, <3>1, <3>3, <4>1, <4>2, <5>2, <6>1, FixedSwept, FixedChosen, FixedSet,
               FixedMeet, FixedRead DEF D!NextDominators
        <5> QED
          BY <5>1, <5>2
      <4> QED
        BY <4>1, <4>3 DEF Fixed, Seen
    <3> QED
      BY <3>2, <3>3
  <2> QED
    BY <2>1, <2>2, <2>3, AnalysisStep
<1> QED
  BY BuiltAlways, PlacedAlways, SearchedAlways, LinkedAlways, <1>1, <1>2, PTL DEF SpecAnalysis

(* At the fixed point the links lead from a block to its dominators only:   *)
(* from the blocks that they do not lead to c from, no branch goes to       *)
(* another but c itself.                                                    *)
LEMMA LinksDominate ==
    ASSUME NEW e, NEW R, IsFlowGraph(succ_bbs, e), R = All(succ_bbs, e),
           idom \in [Blocks -> Blocks \cup {0}], 0 \notin Blocks, R \subseteq Blocks,
           idom[e] = e, \A b \in R \ {e} : idom[b] \in R /\ Met(idom, R, b, idom[b]),
           NEW x \in R, NEW c \in Above(idom, x)
    PROVE  x \in DominatedBy(succ_bbs, e)[c]
<1>1. /\ e \in R /\ \A p \in R : ToSet(succ_bbs[p]) \subseteq R
      /\ \A a \in R : DominatedBy(succ_bbs, e)[a] = R \ Reach(succ_bbs, e, a)
  BY DomValue
<1>2. c \in R
  <2>1. R \in SUBSET Blocks /\ x \in R /\ Follows(idom, R)
    BY <1>1 DEF Follows
  <2> QED
    BY <2>1 DEF Above
<1> DEFINE S == {y \in R : c \notin Above(idom, y)}
<1>3. \A y \in Above(idom, e) : y = e
  <2>1. {e} \in SUBSET Blocks /\ e \in {e} /\ Follows(idom, {e})
    BY <1>1 DEF Follows
  <2> QED
    BY <2>1 DEF Above
<1>4. e = c \/ e \in S
  BY <1>1, <1>3
<1>5. ASSUME NEW p \in S, NEW y \in ToSet(succ_bbs[p]), y # c PROVE y \in S
  <2>1. p \in R /\ y \in R /\ p \in Blocks /\ y \in Blocks
    BY <1>1
  <2>2. SUFFICES ASSUME c \in Above(idom, y) PROVE FALSE
    BY <2>1
  <2>3. y # e
    BY <1>3, <1>5, <2>2
  <2>4. idom[p] # 0
    BY <1>1, <2>1
  <2>5. idom[y] \in Above(idom, p)
    BY <2>1, <2>3, <2>4 DEF Met
  <2>6. c \in Above(idom, idom[y])
    BY <1>5, <2>1, <2>2, AboveFacts
  <2>7. c \in Above(idom, p)
    BY <2>1, <2>5, <2>6, AboveFacts
  <2> QED
    BY <2>7
<1>6. Closed(succ_bbs, c, S)
  BY <1>5 DEF Closed
<1>7. Reach(succ_bbs, e, c) \subseteq S
  <2> HIDE DEF S
  <2> QED
    BY <1>4, <1>6, ReachLeast DEF IsFlowGraph
<1> QED
  BY <1>1, <1>2, <1>7

(* The links are the tree of the dominators.                                *)
Settled(e, B, R, dom) ==
    /\ idom[e] = e /\ \A b \in B \ R : idom[b] = 0
    /\ \A b \in R \ {e} : /\ idom[b] \in R \ {b} /\ b \in dom[idom[b]]
                          /\ post_order[idom[b]] > post_order[b]
                          /\ \A d \in R : b \in dom[d] \ {d} => idom[b] \in dom[d]

LEMMA Settles ==
    ASSUME Placed, NEW e, NEW B, NEW R, NEW dom, Scene(e, B, R, dom),
           LinksOf(e, B, R, dom), FixedOf(e, R), pc \in {"frontier", "runner", "order", "idle"}
    PROVE  Settled(e, B, R, dom)
<1>1. /\ idom \in [Blocks -> Blocks \cup {0}] /\ 0 \notin Blocks /\ R \subseteq Blocks
      /\ post_order \in [Blocks -> Nat] /\ e \in R
      /\ IsFlowGraph(succ_bbs, e) /\ R = All(succ_bbs, e) /\ dom = DominatedBy(succ_bbs, e)
  BY DEF Placed, D!TypeOK, D!Maybe, D!NoBlock, Scene
<1>2. /\ idom[e] = e /\ \A b \in B \ R : idom[b] = 0
      /\ \A b \in R \ {e} : Climb(idom, post_order, R, dom, b) /\ Met(idom, R, b, idom[b])
  BY DEF LinksOf, FixedOf, Links
<1>3. ASSUME NEW b \in R \ {e}
      PROVE  /\ idom[b] \in R \ {b} /\ b \in dom[idom[b]]
             /\ post_order[idom[b]] > post_order[b]
             /\ \A d \in R : b \in dom[d] \ {d} => idom[b] \in dom[d]
  <2>1. /\ idom[b] \in R /\ post_order[idom[b]] > post_order[b]
        /\ \A d \in R : b \in dom[d] \ {d} => idom[b] \in dom[d]
    BY <1>2 DEF Climb
  <2>2. idom[b] # b
    BY <1>1, <2>1
  <2>3. idom[b] \in Above(idom, b)
    BY <1>1, <2>1, AboveFacts
  <2>4. \A y \in R \ {e} : idom[y] \in R /\ Met(idom, R, y, idom[y])
    BY <1>2 DEF Climb
  <2>5. b \in dom[idom[b]]
    BY <1>1, <1>2, <2>3, <2>4, LinksDominate
  <2> QED
    BY <2>1, <2>2, <2>5
<1> QED
  BY <1>2, <1>3 DEF Settled

(* When the sweeps are over every block that the entry reaches has its      *)
(* immediate dominator, and no other block has a link.                      *)
THEOREM IdomIsDominator == SpecAnalysis => []IdomCorrect
<1>1. Built /\ Placed /\ Searched /\ Linked /\ Fixed => IdomCorrect
  <2> SUFFICES ASSUME Built, Placed, Searched, Linked, Fixed, D!IdomDone,
                      NEW b \in BlocksOf(func) \ {Entry(func)}
               PROVE  LET dom == Doms(func)
                          strict == {a \in DOMAIN dom \ {b} : b \in dom[a]}
                      IN  IF b \notin DOMAIN dom THEN idom[b] = 0
                          ELSE /\ idom[b] \in strict
                               /\ \A a \in strict : idom[b] \in dom[a]
    BY DomIs DEF IdomCorrect, D!IdomCorrect, D!NoBlock
  <2>1. func # 0 /\ pc \in {"frontier", "runner", "order", "idle"}
    BY DEF D!IdomDone
  <2>2. Ready /\ Numbered /\ Ordered
    BY <2>1 DEF Built, Ready, Placed, Places, Searched
  <2>3. PICK f, e, B, R, dom : Seen(f, e, B, R, dom) /\ Scene(e, B, R, dom)
    BY <2>1, <2>2, OwnScene
  <2>4. LinksOf(e, B, R, dom) /\ FixedOf(e, R)
    BY <2>1, <2>3 DEF Linked, Fixed, Seen
  <2>5. Settled(e, B, R, dom)
    BY <2>1, <2>3, <2>4, Settles
  <2>6. DOMAIN dom = R /\ dom = Doms(func) /\ b \in B \ {e}
    BY <2>3, DomValue DEF Scene, Seen
  <2> QED
    BY <2>5, <2>6 DEF Settled
<1> QED
  BY BuiltAlways, PlacedAlways, SearchedAlways, LinkedAlways, FixedAlways, <1>1, PTL

-----------------------------------------------------------------------------
(* The frontiers.                                                           *)

(* A predecessor p of b has told every block whose frontier has b by it.    *)
Collected(b, p, R, dom) ==
    \A a \in R : p \in dom[a] /\ ~(b \in dom[a] /\ b # a) => b \in dom_frontier[a]

(* The runner is between the predecessor p of bb and the idom of bb.        *)
Running(bb, p, B, R, dom) ==
    /\ b1 \in B \cup {0} /\ (bb \notin R => b1 \notin R)
    /\ bb \in R /\ b1 \in R => p \in dom[b1] /\ b1 \in dom[idom[bb]]
    /\ bb \in R /\ p \in R =>
          /\ b1 \in R
          /\ \A a \in R : p \in dom[a] /\ ~(bb \in dom[a] /\ bb # a) =>
                bb \in dom_frontier[a] \/ b1 \in dom[a]

CollectedOf(bbs, B, R, dom) ==
    /\ \A a \in R : dom_frontier[a] \subseteq Frontier(succ_bbs, dom, a)
    /\ \A k \in 1 .. Len(bbs) : bbs[k] \in R =>
          \A j \in 1 .. Len(pre_bbs[bbs[k]]) :
              k < cursor \/ (k = cursor /\ j < pre) => Collected(bbs[k], pre_bbs[bbs[k]][j], R, dom)
    /\ pc = "runner" => Running(bbs[cursor], pre_bbs[bbs[cursor]][pre], B, R, dom)

(* The frontiers of a function are exact ...                                *)
ExactFor(f) == \A a \in Found(f) : dom_frontier[a] = Frontier(succ_bbs, Doms(f), a)

(* ... or still empty.                                                      *)
EmptyFor(f) == \A b \in BlocksOf(f) : dom_frontier[b] = {}

Frontiers ==
    /\ \A f \in Funcs : f < func \/ (f = func /\ pc \in {"order", "idle"}) => ExactFor(f)
    /\ func = 0 => \A b \in Blocks : dom_frontier[b] = {}
    /\ \A f \in Funcs : f > func \/ (f = func /\ pc \in {"dfs", "sweep", "preds", "intersect"}) =>
          EmptyFor(f)
    /\ pc \in {"frontier", "runner"} =>
          CollectedOf(basic_blocks[func], BlocksOf(func), Found(func), Doms(func))

(* No branch goes back to an entry.                                         *)
EntryOnly(e, R) == \A p \in R : e \notin ToSet(succ_bbs[p])

(* What dominates the only predecessor of a block dominates the block, so   *)
(* the runner is not needed there.                                          *)
LEMMA SinglePredecessor ==
    ASSUME Placed, NEW e, NEW B, NEW R, NEW dom, Scene(e, B, R, dom), EntryOnly(e, R),
           NEW b \in R, NEW p \in R, b \in ToSet(succ_bbs[p]),
           \A q \in R : b \in ToSet(succ_bbs[q]) => q = p,
           NEW a \in R, p \in dom[a]
    PROVE  b \in dom[a] /\ b # a
<1>1. /\ e \in R /\ R \subseteq Blocks /\ post_order \in [Blocks -> Nat]
      /\ IsFlowGraph(succ_bbs, e) /\ R = All(succ_bbs, e) /\ dom = DominatedBy(succ_bbs, e)
      /\ \A x \in R \ {e} : \E q \in R : x \in ToSet(succ_bbs[q]) /\ post_order[q] > post_order[x]
      /\ \A x \in R : \A y \in dom[x] \ {x} : post_order[x] > post_order[y]
  BY DEF Scene, Numbering, Placed, D!TypeOK
<1>2. /\ \A x \in R : ToSet(succ_bbs[x]) \subseteq R
      /\ \A x \in R : dom[x] = R \ Reach(succ_bbs, e, x)
  BY <1>1, DomValue
<1>3. b # e
  BY DEF EntryOnly
<1>4. post_order[p] > post_order[b]
  BY <1>1, <1>3
<1>5. b # a
  <2> SUFFICES ASSUME b = a PROVE FALSE
    OBVIOUS
  <2>1. p # b
    BY <1>1, <1>4
  <2>2. post_order[b] > post_order[p]
    BY <1>1, <2>1
  <2>3. post_order[b] \in Nat /\ post_order[p] \in Nat
    BY <1>1
  <2> QED
    BY <1>4, <2>2, <2>3
<1>6. b \in dom[a]
  <2> SUFFICES ASSUME b \in Reach(succ_bbs, e, a) PROVE FALSE
    BY <1>2
  <2> DEFINE S == Reach(succ_bbs, e, a) \ {b}
  <2>1. /\ \A x \in Reach(succ_bbs, e, a) : \A y \in ToSet(succ_bbs[x]) :
              y = a \/ y \in Reach(succ_bbs, e, a)
        /\ e = a \/ e \in Reach(succ_bbs, e, a)
    BY <1>1, Avoiding
  <2>2. ASSUME NEW x \in S, NEW y \in ToSet(succ_bbs[x]), y # a PROVE y \in S
    <3>1. Reach(succ_bbs, e, a) \subseteq R
      BY <1>1, <1>2, <2>1, ReachLeast DEF IsFlowGraph, Closed
    <3>2. p \notin Reach(succ_bbs, e, a)
      BY <1>2
    <3> QED
      BY <2>1, <2>2, <3>1, <3>2
  <2>3. Closed(succ_bbs, a, S)
    BY <2>2 DEF Closed
  <2>4. e = a \/ e \in S
    BY <1>3, <2>1
  <2>5. Reach(succ_bbs, e, a) \subseteq S
    <3> HIDE DEF S
    <3> QED
      BY <1>1, <2>3, <2>4, ReachLeast DEF IsFlowGraph
  <2> QED
    BY <2>5
<1> QED
  BY <1>5, <1>6

(* What the runner steps work on.                                           *)
Row(bbs, e, B, R) == /\ bbs = basic_blocks[func] /\ Len(bbs) \in Nat /\ EntryOnly(e, R)
                     /\ \A k \in 1 .. Len(bbs) : bbs[k] \in B

(* Dominance on a tree that is settled.                                     *)
LEMMA TreeFacts ==
    ASSUME NEW e, NEW B, NEW R, NEW dom, Scene(e, B, R, dom)
    PROVE  /\ DOMAIN dom = R /\ dom[e] = R /\ e \in R /\ R \subseteq B /\ B \subseteq Blocks
           /\ 0 \notin Blocks
           /\ \A a \in R : a \in dom[a] /\ dom[a] \subseteq R /\ ToSet(succ_bbs[a]) \subseteq R
           /\ \A a \in R : \A b \in dom[a] : \A c \in dom[b] : c \in dom[a]
           /\ \A a \in R : \A b \in dom[a] : a \in dom[b] => a = b
           /\ \A a, x \in R : \A b \in dom[a] \ {a} : b \in ToSet(succ_bbs[x]) => x \in dom[a]
<1>1. /\ e \in R /\ R \subseteq B /\ B \subseteq Blocks /\ 0 \notin Blocks
      /\ IsFlowGraph(succ_bbs, e) /\ R = All(succ_bbs, e) /\ dom = DominatedBy(succ_bbs, e)
  BY DEF Scene
<1>2. /\ DOMAIN dom = R /\ dom[e] = R
      /\ \A a \in R : a \in dom[a] /\ dom[a] \subseteq R /\ ToSet(succ_bbs[a]) \subseteq R
  BY <1>1, DomValue
<1>3. ASSUME NEW a \in R, NEW b \in dom[a], NEW c \in dom[b] PROVE c \in dom[a]
  BY <1>1, DomTransitive
<1>4. ASSUME NEW a \in R, NEW b \in dom[a], a \in dom[b] PROVE a = b
  BY <1>1, <1>4, DomAntisymmetric
<1>5. ASSUME NEW a \in R, NEW x \in R, NEW b \in dom[a] \ {a}, b \in ToSet(succ_bbs[x])
      PROVE  x \in dom[a]
  BY <1>1, <1>5, DomPredecessor
<1> QED
  BY <1>1, <1>2, <1>3, <1>4, <1>5

(* A runner starts, or the next block is looked at.                         *)
LEMMA RunnerStarts ==
    ASSUME Placed, NEW e, NEW B, NEW R, NEW dom, Scene(e, B, R, dom), Settled(e, B, R, dom),
           NEW bbs, Row(bbs, e, B, R), UNCHANGED <<succ_bbs, pre_bbs>>,
           CollectedOf(bbs, B, R, dom), D!FrontierBlock
    PROVE  CollectedOf(bbs, B, R, dom)'
<1>1. PICK bb : bb = bbs[cursor]
  OBVIOUS
<1>2. /\ pc = "frontier" /\ cursor <= Len(bbs) /\ UNCHANGED <<idom, dom_frontier>>
      /\ IF Len(pre_bbs[bb]) > 1 /\ pre <= Len(pre_bbs[bb])
         THEN b1' = pre_bbs[bb][pre] /\ pc' = "runner" /\ UNCHANGED <<cursor, pre>>
         ELSE cursor' = cursor + 1 /\ pre' = 1 /\ pc' = "frontier"
  BY <1>1 DEF D!FrontierBlock, D!joins, Row
<1>3. cursor \in Nat /\ pre \in Nat \ {0}
  BY DEF Placed, D!TypeOK
<1>4. cursor \in 1 .. Len(bbs) /\ bb \in B /\ Len(bbs) \in Nat
  BY <1>1, <1>2, <1>3 DEF Row, Placed, Places
<1>5. /\ pre_bbs[bb] \in Seq(Blocks)
      /\ \A j \in 1 .. Len(pre_bbs[bb]) : pre_bbs[bb][j] \in B /\ bb \in ToSet(succ_bbs[pre_bbs[bb][j]])
      /\ \A q \in R : bb \in ToSet(succ_bbs[q]) => \E j \in 1 .. Len(pre_bbs[bb]) : q = pre_bbs[bb][j]
  BY <1>4 DEF Scene
<1>6. Len(pre_bbs[bb]) \in Nat
  BY <1>5, LenProperties
<1>7. /\ \A a \in R : dom_frontier'[a] \subseteq Frontier(succ_bbs', dom, a)
      /\ \A k, j : Collected(bbs[k], pre_bbs[bbs[k]][j], R, dom)' <=>
                   Collected(bbs[k], pre_bbs[bbs[k]][j], R, dom)
  BY <1>2 DEF CollectedOf, Collected
<1>8. CASE Len(pre_bbs[bb]) > 1 /\ pre <= Len(pre_bbs[bb])
  <2>1. PICK p : p = pre_bbs[bb][pre]
    OBVIOUS
  <2>2. p \in B /\ bb \in ToSet(succ_bbs[p])
    <3>1. pre \in 1 .. Len(pre_bbs[bb])
      BY <1>3, <1>6, <1>8
    <3> QED
      BY <1>5, <2>1, <3>1
  <2>3. b1' = p /\ pc' = "runner" /\ UNCHANGED <<cursor, pre>>
    BY <1>2, <1>8, <2>1
  <2>4. bb \notin R => p \notin R
    BY <2>2, TreeFacts
  <2>5. ASSUME bb \in R, p \in R PROVE p \in dom[p] /\ p \in dom[idom[bb]]
    <3>1. bb # e
      BY <2>2, <2>5 DEF Row, EntryOnly
    <3>2. idom[bb] \in R /\ bb \in dom[idom[bb]] \ {idom[bb]}
      BY <2>5, <3>1 DEF Settled
    <3> QED
      BY <2>2, <2>5, <3>2, TreeFacts
  <2>6. Running(bb, p, B, R, dom)'
    BY <1>2, <2>2, <2>3, <2>4, <2>5 DEF Running
  <2> QED
    BY <1>1, <1>2, <1>7, <2>1, <2>3, <2>6 DEF CollectedOf
<1>9. CASE ~(Len(pre_bbs[bb]) > 1 /\ pre <= Len(pre_bbs[bb]))
  <2>1. cursor' = cursor + 1 /\ pre' = 1 /\ pc' = "frontier"
    BY <1>2, <1>9
  <2>2. ASSUME NEW k \in 1 .. Len(bbs), bbs[k] \in R, NEW j \in 1 .. Len(pre_bbs[bbs[k]]), k <= cursor
        PROVE  Collected(bbs[k], pre_bbs[bbs[k]][j], R, dom)
    <3>1. CASE k < cursor
      BY <2>2, <3>1 DEF CollectedOf
    <3>2. CASE k = cursor /\ pre > Len(pre_bbs[bb])
      <4>1. j < pre
        BY <1>1, <1>3, <1>6, <3>2
      <4> QED
        BY <2>2, <3>2, <4>1 DEF CollectedOf
    <3>3. CASE k = cursor /\ ~(pre > Len(pre_bbs[bb]))
      <4>1. Len(pre_bbs[bb]) = 1 /\ j = 1
        <5>1. PICK n \in Nat : n = Len(pre_bbs[bb])
          BY <1>6
        <5>2. j \in 1 .. n /\ ~(n > 1 /\ pre <= n) /\ ~(pre > n) /\ pre \in Nat
          BY <1>1, <1>3, <1>9, <3>3, <5>1
        <5>3. n = 1
          BY <5>2
        <5> QED
          BY <5>1, <5>2, <5>3
      <4>2. bb \in ToSet(succ_bbs[pre_bbs[bb][1]]) /\ bb \in R
        BY <1>1, <1>5, <2>2, <3>3, <4>1
      <4>3. \A q \in R : bb \in ToSet(succ_bbs[q]) => q = pre_bbs[bb][1]
        BY <1>5, <4>1
      <4>4. ASSUME NEW a \in R, pre_bbs[bb][1] \in dom[a] PROVE bb \in dom[a] /\ bb # a
        <5>1. pre_bbs[bb][1] \in R
          BY <4>4, TreeFacts
        <5> QED
          BY <4>2, <4>3, <4>4, <5>1, SinglePredecessor DEF Row
      <4> QED
        BY <1>1, <3>3, <4>1, <4>4 DEF Collected
    <3> QED
      BY <1>3, <2>2, <3>1, <3>2, <3>3
  <2>3. \A k \in 1 .. Len(bbs) : k < cursor' \/ (k = cursor' /\ FALSE) => k <= cursor
    BY <1>3, <1>4, <2>1
  <2>4. \A k \in 1 .. Len(bbs) : \A j \in 1 .. Len(pre_bbs[bbs[k]]) : ~(j < pre')
    BY <2>1
  <2>5. ASSUME NEW k \in 1 .. Len(bbs), bbs[k] \in R, NEW j \in 1 .. Len(pre_bbs'[bbs[k]]),
               k < cursor' \/ (k = cursor' /\ j < pre')
        PROVE  Collected(bbs[k], pre_bbs[bbs[k]][j], R, dom)'
    BY <1>7, <2>2, <2>3, <2>4, <2>5
  <2> QED
    BY <1>7, <2>1, <2>5 DEF CollectedOf
<1> QED
  BY <1>8, <1>9

LEMMA RunnerTurns ==
    ASSUME Placed, NEW e, NEW B, NEW R, NEW dom, Scene(e, B, R, dom), Settled(e, B, R, dom),
           NEW bbs, Row(bbs, e, B, R), UNCHANGED <<succ_bbs, pre_bbs>>,
           CollectedOf(bbs, B, R, dom), D!Runner
    PROVE  /\ pc' # "crash" => CollectedOf(bbs, B, R, dom)'
           /\ \A x \in Blocks \ B : dom_frontier'[x] = dom_frontier[x]
<1>1. PICK bb, p : bb = bbs[cursor] /\ p = pre_bbs[bb][pre]
  OBVIOUS
<1>2. /\ pc = "runner" /\ UNCHANGED <<idom, cursor>>
      /\ \/ /\ b1 = idom[bb] /\ pc' = "frontier" /\ pre' = pre + 1 /\ dom_frontier' = dom_frontier
         \/ b1 # idom[bb] /\ b1 = 0 /\ pc' = "crash" /\ dom_frontier' = dom_frontier
         \/ /\ b1 # idom[bb] /\ b1 # 0 /\ pc' = "runner" /\ pre' = pre /\ b1' = idom[b1]
            /\ dom_frontier' = [dom_frontier EXCEPT ![b1] = @ \cup {bb}]
  BY <1>1 DEF D!Runner, D!NoBlock, Row
<1>3. /\ cursor \in 1 .. Len(bbs) /\ cursor \in Nat /\ bb \in B /\ pre \in Nat \ {0}
      /\ pre <= Len(pre_bbs[bb])
  BY <1>1, <1>2 DEF Row, Placed, Places, D!TypeOK
<1>4. p \in B /\ bb \in ToSet(succ_bbs[p])
  <2>1. /\ pre_bbs[bb] \in Seq(Blocks)
        /\ \A j \in 1 .. Len(pre_bbs[bb]) :
              pre_bbs[bb][j] \in B /\ bb \in ToSet(succ_bbs[pre_bbs[bb][j]])
    BY <1>3 DEF Scene
  <2>2. pre \in 1 .. Len(pre_bbs[bb])
    <3>1. Len(pre_bbs[bb]) \in Nat
      BY <2>1, LenProperties
    <3> QED
      BY <1>3, <3>1
  <2> QED
    BY <1>1, <2>1, <2>2
<1>5. p \in R => bb # e
  BY <1>4 DEF Row, EntryOnly
<1>6. Running(bb, p, B, R, dom)
  BY <1>1, <1>2 DEF CollectedOf
<1>7. /\ \A a \in R : dom_frontier[a] \subseteq Frontier(succ_bbs, dom, a)
      /\ \A k \in 1 .. Len(bbs) : bbs[k] \in R =>
            \A j \in 1 .. Len(pre_bbs[bbs[k]]) :
                k < cursor \/ (k = cursor /\ j < pre) => Collected(bbs[k], pre_bbs[bbs[k]][j], R, dom)
  BY DEF CollectedOf
<1>8. dom_frontier \in [Blocks -> SUBSET Blocks]
  BY DEF Placed, D!TypeOK
<1>9. CASE b1 = idom[bb] /\ pc' = "frontier" /\ pre' = pre + 1 /\ dom_frontier' = dom_frontier
  <2>1. ASSUME bb \in R PROVE Collected(bb, p, R, dom)
    <3> SUFFICES ASSUME NEW a \in R, p \in dom[a], ~(bb \in dom[a] /\ bb # a), bb \notin dom_frontier[a]
                 PROVE  FALSE
      BY DEF Collected
    <3>1. p \in R
      BY TreeFacts
    <3>2. b1 \in dom[a]
      BY <1>6, <2>1, <3>1 DEF Running
    <3>3. idom[bb] \in R /\ idom[bb] # bb /\ bb \in dom[idom[bb]]
      BY <1>5, <2>1, <3>1 DEF Settled
    <3>4. bb \in dom[a]
      BY <1>9, <3>2, <3>3, TreeFacts
    <3>5. bb = a
      BY <3>4
    <3> QED
      BY <1>9, <2>1, <3>2, <3>3, <3>5, TreeFacts
  <2>2. ASSUME NEW k \in 1 .. Len(bbs), bbs[k] \in R, NEW j \in 1 .. Len(pre_bbs[bbs[k]]),
               k < cursor \/ (k = cursor /\ j < pre + 1)
        PROVE  Collected(bbs[k], pre_bbs[bbs[k]][j], R, dom)
    <3>1. k < cursor \/ (k = cursor /\ j < pre) \/ (k = cursor /\ j = pre)
      BY <1>3, <2>2
    <3> QED
      BY <1>1, <1>7, <2>1, <2>2, <3>1
  <2>3. \A x, y : Collected(x, y, R, dom)' <=> Collected(x, y, R, dom)
    BY <1>9 DEF Collected
  <2> QED
    BY <1>2, <1>7, <1>9, <2>2, <2>3 DEF CollectedOf
<1>10. CASE /\ b1 # idom[bb] /\ b1 # 0 /\ pc' = "runner" /\ pre' = pre /\ b1' = idom[b1]
            /\ dom_frontier' = [dom_frontier EXCEPT ![b1] = @ \cup {bb}]
  <2>1. b1 \in B /\ b1 \in Blocks /\ (bb \notin R => b1 \notin R)
    BY <1>6, <1>10, TreeFacts DEF Running
  <2>2. /\ dom_frontier'[b1] = dom_frontier[b1] \cup {bb}
        /\ \A x \in Blocks : x # b1 => dom_frontier'[x] = dom_frontier[x]
    BY <1>8, <1>10, <2>1
  <2>3. ASSUME b1 \in R
        PROVE  /\ bb \in R /\ p \in dom[b1] /\ p \in R /\ b1 \in dom[idom[bb]] /\ b1 # e
               /\ idom[bb] \in R /\ bb \in dom[idom[bb]] /\ idom[bb] # bb
    <3>1. bb \in R /\ p \in dom[b1] /\ b1 \in dom[idom[bb]]
      BY <1>6, <2>1, <2>3 DEF Running
    <3>2. p \in R
      BY <2>3, <3>1, TreeFacts
    <3>3. idom[bb] \in R /\ bb \in dom[idom[bb]] /\ idom[bb] # bb
      BY <1>5, <3>1, <3>2 DEF Settled
    <3>4. b1 # e
      BY <1>10, <3>1, <3>3, TreeFacts
    <3> QED
      BY <3>1, <3>2, <3>3, <3>4
  <2>4. ASSUME NEW a \in R PROVE dom_frontier'[a] \subseteq Frontier(succ_bbs, dom, a)
    <3>1. CASE a # b1
      BY <1>7, <2>2, <2>4, <3>1, TreeFacts
    <3>2. CASE a = b1
      <4>1. ~(bb \in dom[b1] /\ bb # b1)
        <5> SUFFICES ASSUME bb \in dom[b1] \ {b1} PROVE FALSE
          OBVIOUS
        <5>1. bb \in R \ {e}
          BY <1>5, <2>3, <2>4, <3>2
        <5>2. idom[bb] \in dom[b1]
          BY <2>4, <3>2, <5>1 DEF Settled
        <5> QED
          BY <1>10, <2>3, <2>4, <3>2, <5>2, TreeFacts
      <4>2. bb \in Frontier(succ_bbs, dom, a)
        BY <1>4, <2>3, <2>4, <3>2, <4>1, TreeFacts DEF Frontier
      <4> QED
        BY <1>7, <2>2, <2>4, <3>2, <4>2
    <3> QED
      BY <3>1, <3>2
  <2>5. \A x, y : Collected(x, y, R, dom) => Collected(x, y, R, dom)'
    BY <2>2, TreeFacts DEF Collected
  <2>6. idom[b1] \in B \cup {0} /\ (b1 \notin R => idom[b1] \notin R)
    BY <2>1, TreeFacts DEF Settled
  <2>7. ASSUME b1 \in R
        PROVE  idom[b1] \in R /\ p \in dom[idom[b1]] /\ idom[b1] \in dom[idom[bb]]
    <3>1. /\ idom[b1] \in R /\ b1 \in dom[idom[b1]]
          /\ \A d \in R : b1 \in dom[d] \ {d} => idom[b1] \in dom[d]
      BY <2>3, <2>7 DEF Settled
    <3>2. p \in dom[idom[b1]]
      BY <2>3, <2>7, <3>1, TreeFacts
    <3> QED
      BY <1>10, <2>3, <2>7, <3>1, <3>2
  <2>8. ASSUME bb \in R, p \in R,
               NEW a \in R, p \in dom[a], ~(bb \in dom[a] /\ bb # a), bb \notin dom_frontier'[a]
        PROVE  idom[b1] \in dom[a]
    <3>1. b1 \in R /\ (bb \in dom_frontier[a] \/ b1 \in dom[a])
      BY <1>6, <2>8 DEF Running
    <3>2. a # b1 /\ bb \notin dom_frontier[a]
      BY <2>2, <2>8, TreeFacts
    <3> QED
      BY <2>3, <2>8, <3>1, <3>2 DEF Settled
  <2>9. bb \in R /\ p \in R => b1 \in R
    BY <1>6 DEF Running
  <2>10. Running(bb, p, B, R, dom)'
    <3>1. b1' \in B \cup {0} /\ (bb \notin R => b1' \notin R)
      BY <1>10, <2>1, <2>6
    <3>2. bb \in R /\ b1' \in R => p \in dom[b1'] /\ b1' \in dom[idom'[bb]]
      BY <1>2, <1>10, <2>6, <2>7
    <3>3. bb \in R /\ p \in R =>
             /\ b1' \in R
             /\ \A a \in R : p \in dom[a] /\ ~(bb \in dom[a] /\ bb # a) =>
                   bb \in dom_frontier'[a] \/ b1' \in dom[a]
      BY <1>10, <2>7, <2>8, <2>9
    <3> QED
      BY <3>1, <3>2, <3>3 DEF Running
  <2>11. \A k \in 1 .. Len(bbs) : bbs[k] \in R =>
            \A j \in 1 .. Len(pre_bbs[bbs[k]]) :
                k < cursor' \/ (k = cursor' /\ j < pre') =>
                    Collected(bbs[k], pre_bbs[bbs[k]][j], R, dom)'
    BY <1>2, <1>7, <1>10, <2>5
  <2>12. CollectedOf(bbs, B, R, dom)'
    BY <1>1, <1>2, <1>10, <2>4, <2>10, <2>11 DEF CollectedOf
  <2> QED
    BY <2>1, <2>2, <2>12
<1> QED
  BY <1>2, <1>9, <1>10

(* When the rows are through the frontiers are complete.                    *)
LEMMA CollectedAll ==
    ASSUME Placed, NEW e, NEW B, NEW R, NEW dom, Scene(e, B, R, dom),
           NEW bbs, Row(bbs, e, B, R), \A b \in R : \E k \in 1 .. Len(bbs) : b = bbs[k],
           CollectedOf(bbs, B, R, dom), cursor > Len(bbs)
    PROVE  \A a \in R : dom_frontier[a] = Frontier(succ_bbs, dom, a)
<1> SUFFICES ASSUME NEW a \in R, NEW b \in Frontier(succ_bbs, dom, a) PROVE b \in dom_frontier[a]
  BY DEF CollectedOf
<1>1. b \in R /\ ~(b \in dom[a] /\ b # a) /\ \E p \in dom[a] : b \in ToSet(succ_bbs[p])
  BY TreeFacts DEF Frontier
<1>2. PICK p \in R : p \in dom[a] /\ b \in ToSet(succ_bbs[p])
  BY <1>1, TreeFacts
<1>3. PICK k \in 1 .. Len(bbs) : b = bbs[k]
  BY <1>1
<1>4. PICK j \in 1 .. Len(pre_bbs[b]) : p = pre_bbs[b][j]
  BY <1>1, <1>2, PredFacts
<1>5. k < cursor
  BY DEF Row, Placed, D!TypeOK
<1>6. Collected(b, p, R, dom)
  BY <1>1, <1>3, <1>4, <1>5 DEF CollectedOf
<1> QED
  BY <1>1, <1>2, <1>6 DEF Collected

(* The steps by what they touch of the results.                             *)
Early == {"dfs", "sweep", "preds", "intersect"}

LEMMA StepKinds ==
    ASSUME D!NextDominators
    PROVE  \/ D!RunOnFunc \/ D!FrontierBlock \/ D!Runner \/ D!CreateDomTree
           \/ /\ UNCHANGED <<func, dom_frontier, dom_tree_succ, dom_tree_L, dom_tree_R>>
              /\ pc \in Early /\ pc' \in Early \cup {"frontier", "crash"}
              /\ pc' = "frontier" => pc = "sweep" /\ cursor' = 1 /\ pre' = pre
           \/ /\ D!OrderLeave \/ D!FuncDone \/ \E c \in Blocks : D!OrderEnter(c)
              /\ UNCHANGED <<func, dom_frontier, dom_tree_succ, idom>>
              /\ pc = "order" /\ pc' \in {"order", "idle"}
<1>1. CASE D!DfsEnter \/ D!DfsLeave \/ D!CreateIdom
  BY <1>1 DEF D!DfsEnter, D!DfsLeave, D!CreateIdom, D!tree_vars, Early
<1>2. CASE D!SweepBlock \/ D!SetIdom \/ D!NextPred
  BY <1>2 DEF D!SweepBlock, D!SetIdom, D!NextPred, D!tree_vars, Early
<1>3. CASE D!Intersect \/ D!IntersectEnd
  BY <1>3 DEF D!Intersect, D!IntersectEnd, D!tree_vars, Early
<1>4. CASE D!SweepEnd
  BY <1>4 DEF D!SweepEnd, D!tree_vars, D!local_vars, Early
<1>5. CASE D!OrderLeave \/ D!FuncDone \/ \E c \in Blocks : D!OrderEnter(c)
  BY <1>5 DEF D!OrderLeave, D!FuncDone, D!OrderEnter, D!tree_vars
<1> QED
  BY <1>1, <1>2, <1>3, <1>4, <1>5 DEF D!NextDominators

(* What stands while the frontiers are collected.                           *)
LEMMA FrontierScene ==
    ASSUME Ready, Placed, Searched, Linked, Fixed, NEW e, NEW B, NEW R, NEW dom, NEW f \in Funcs,
           Seen(f, e, B, R, dom), Scene(e, B, R, dom), pc \in {"frontier", "runner", "order"}
    PROVE  /\ Settled(e, B, R, dom) /\ Row(basic_blocks[f], e, B, R)
           /\ \A b \in B : \E k \in 1 .. Len(basic_blocks[f]) : b = basic_blocks[f][k]
<1>1. func # 0
  BY DEF Placed, Places
<1>2. LinksOf(e, B, R, dom) /\ FixedOf(e, R)
  BY <1>1 DEF Linked, Fixed, Seen
<1>3. Settled(e, B, R, dom)
  BY <1>2, Settles
<1>4. /\ Len(basic_blocks[f]) \in Nat
      /\ \A k \in 1 .. Len(basic_blocks[f]) : basic_blocks[f][k] \in B
      /\ \A b \in B : \E k \in 1 .. Len(basic_blocks[f]) : b = basic_blocks[f][k]
  BY ListFacts, LenProperties DEF Seen
<1>5. EntryOnly(e, R)
  <2>1. \A b \in BlocksOf(f) : ToSet(succ_bbs[b]) \subseteq BlocksOf(f) \ {Entry(f)}
    BY GraphFacts
  <2> QED
    BY <2>1, TreeFacts DEF EntryOnly, Seen
<1> QED
  BY <1>3, <1>4, <1>5 DEF Row, Seen

LEMMA FrontiersStep ==
    ASSUME Ready, Placed, Searched, Linked, Fresh, Fixed, Frontiers, UNCHANGED builder_vars,
           D!NextDominators
    PROVE  Frontiers'
<1>1. /\ UNCHANGED <<basic_blocks, succ_bbs, pre_bbs>>
      /\ \A f : /\ Entry(f)' = Entry(f) /\ BlocksOf(f)' = BlocksOf(f) /\ Found(f)' = Found(f)
                /\ Doms(f)' = Doms(f)
  BY DEF builder_vars, Entry, Found, BlocksOf, Doms
<1>2. func \in Nat /\ Funcs \subseteq Nat \ {0}
  BY DEF Placed, D!TypeOK, Funcs
<1>3. dom_frontier' = dom_frontier => \A f : ExactFor(f)' <=> ExactFor(f)
  BY <1>1 DEF ExactFor
<1>4. dom_frontier' = dom_frontier => \A f : EmptyFor(f)' <=> EmptyFor(f)
  BY <1>1 DEF EmptyFor
<1>5. CASE D!RunOnFunc
  <2>1. pc = "idle" /\ pc' = "dfs" /\ func' = func + 1 /\ dom_frontier' = dom_frontier
    BY <1>5 DEF D!RunOnFunc
  <2>2. ASSUME NEW f \in Funcs, f < func' PROVE ExactFor(f)'
    <3>1. f < func \/ f = func
      BY <1>2, <2>1, <2>2
    <3> QED
      BY <1>3, <2>1, <3>1 DEF Frontiers
  <2>3. ASSUME NEW f \in Funcs, f > func' \/ f = func' PROVE EmptyFor(f)'
    <3>1. f > func
      BY <1>2, <2>1, <2>3
    <3> QED
      BY <1>4, <2>1, <3>1 DEF Frontiers
  <2>4. func' # 0
    BY <1>2, <2>1
  <2> QED
    BY <2>1, <2>2, <2>3, <2>4 DEF Frontiers
<1>6. CASE /\ UNCHANGED <<func, dom_frontier, dom_tree_succ, dom_tree_L, dom_tree_R>>
           /\ pc \in Early /\ pc' \in Early \cup {"frontier", "crash"}
           /\ pc' = "frontier" => pc = "sweep" /\ cursor' = 1 /\ pre' = pre
  <2>1. ASSUME pc' = "frontier"
        PROVE  CollectedOf(basic_blocks[func], BlocksOf(func), Found(func), Doms(func))'
    <3>1. pre' = 1 /\ cursor' = 1
      BY <1>6, <2>1 DEF Fresh
    <3>2. PICK f \in Funcs : f = func
      BY <1>6 DEF Early, Placed, Places, D!TypeOK
    <3>3. \A a \in Found(f) : dom_frontier'[a] = {}
      BY <1>6, <2>1, <3>2, FoundFacts DEF Frontiers, EmptyFor, Early
    <3>4. PICK bbs, B, R, dom : bbs = basic_blocks[f] /\ B = BlocksOf(f) /\ R = Found(f) /\ dom = Doms(f)
      OBVIOUS
    <3>5. CollectedOf(bbs, B, R, dom)'
      BY <2>1, <3>1, <3>3, <3>4 DEF CollectedOf
    <3>6. /\ basic_blocks'[func'] = bbs /\ BlocksOf(func)' = B /\ Found(func)' = R
          /\ Doms(func)' = dom
      <4>1. func' = f
        BY <1>6, <3>2
      <4>2. basic_blocks'[f] = bbs /\ BlocksOf(f)' = B /\ Found(f)' = R /\ Doms(f)' = dom
        BY <1>1, <3>4
      <4> QED
        BY <4>1, <4>2 DEF BlocksOf, Found, Doms, Entry
    <3> QED
      BY <3>5, <3>6
  <2>2. pc' # "runner" /\ pc' \notin {"order", "idle"} /\ pc \notin {"order", "idle"}
    BY <1>6 DEF Early
  <2> QED
    BY <1>3, <1>4, <1>6, <2>1, <2>2 DEF Frontiers, Early
<1>7. CASE /\ UNCHANGED <<func, dom_frontier, dom_tree_succ, idom>>
           /\ pc = "order" /\ pc' \in {"order", "idle"}
  BY <1>3, <1>4, <1>7 DEF Frontiers
<1>8. CASE D!FrontierBlock \/ D!Runner \/ D!CreateDomTree
  <2>1. /\ pc \in {"frontier", "runner"}
        /\ D!FrontierBlock => pc' \in {"frontier", "runner"} /\ dom_frontier' = dom_frontier
        /\ D!Runner => pc' \in {"frontier", "runner", "crash"}
        /\ D!CreateDomTree => pc' = "order" /\ dom_frontier' = dom_frontier
    BY <1>8 DEF D!FrontierBlock, D!Runner, D!CreateDomTree
  <2>2. ~D!RunOnFunc /\ ~D!DfsEnter /\ ~D!DfsLeave
    BY <2>1 DEF D!RunOnFunc, D!DfsEnter, D!DfsLeave
  <2>3. PICK f, e, B, R, dom :
          /\ f \in Funcs /\ func = f /\ func' = f
          /\ Seen(f, e, B, R, dom) /\ Seen(f, e, B, R, dom)' /\ Scene(e, B, R, dom)
    BY <2>2, SceneKept DEF Seen
  <2>4. PICK bbs : bbs = basic_blocks[f]
    OBVIOUS
  <2>5. /\ Settled(e, B, R, dom) /\ Row(bbs, e, B, R)
        /\ \A b \in B : \E k \in 1 .. Len(bbs) : b = bbs[k]
    BY <2>1, <2>3, <2>4, FrontierScene
  <2>6. CollectedOf(bbs, B, R, dom)
    BY <2>1, <2>3, <2>4 DEF Frontiers, Seen
  <2>7. /\ (D!FrontierBlock \/ D!Runner) /\ pc' # "crash" => CollectedOf(bbs, B, R, dom)'
        /\ \A x \in Blocks \ B : dom_frontier'[x] = dom_frontier[x]
    BY <1>1, <1>8, <2>1, <2>3, <2>5, <2>6, RunnerStarts, RunnerTurns
  <2>8. \A g \in Funcs \ {f} : BlocksOf(g) \subseteq Blocks \ B /\ Found(g) \subseteq BlocksOf(g)
    BY <2>3, GraphFacts, ListFacts, FoundFacts DEF Seen
  <2>9. ASSUME NEW g \in Funcs \ {f} PROVE (ExactFor(g) => ExactFor(g)') /\ (EmptyFor(g) => EmptyFor(g)')
    <3>1. \A x \in BlocksOf(g) : dom_frontier'[x] = dom_frontier[x]
      BY <2>7, <2>8
    <3>2. ExactFor(g) => ExactFor(g)'
      BY <1>1, <2>8, <3>1 DEF ExactFor
    <3>3. EmptyFor(g) => EmptyFor(g)'
      BY <1>1, <3>1 DEF EmptyFor
    <3> QED
      BY <3>2, <3>3
  <2>10. ASSUME D!CreateDomTree PROVE ExactFor(f)'
    <3>1. cursor > Len(bbs)
      BY <2>3, <2>4, <2>10 DEF D!CreateDomTree
    <3>2. \A a \in R : dom_frontier[a] = Frontier(succ_bbs, dom, a)
      BY <2>3, <2>5, <2>6, <3>1, CollectedAll, TreeFacts
    <3>3. Found(f)' = R /\ Doms(f)' = dom
      BY <2>3, <1>1 DEF Seen
    <3> QED
      BY <1>1, <2>1, <2>10, <3>2, <3>3 DEF ExactFor
  <2>11. \A g \in Funcs : g < func' \/ (g = func' /\ pc' \in {"order", "idle"}) => ExactFor(g)'
    <3> SUFFICES ASSUME NEW g \in Funcs, g < func' \/ (g = func' /\ pc' \in {"order", "idle"})
                 PROVE  ExactFor(g)'
      OBVIOUS
    <3>1. CASE g = f
      <4>1. func' = g /\ ~(g < func')
        BY <1>2, <2>3, <3>1
      <4>2. D!CreateDomTree
        BY <1>8, <2>1, <4>1
      <4> QED
        BY <2>10, <3>1, <4>2
    <3>2. CASE g # f
      <4>1. g < func
        BY <2>3, <3>2
      <4>2. ExactFor(g)
        BY <4>1 DEF Frontiers
      <4> QED
        BY <2>9, <3>2, <4>2
    <3> QED
      BY <3>1, <3>2
  <2>12. \A g \in Funcs : g > func' \/ (g = func' /\ pc' \in {"dfs", "sweep", "preds", "intersect"}) => EmptyFor(g)'
    <3> SUFFICES ASSUME NEW g \in Funcs,
                        g > func' \/ (g = func' /\ pc' \in {"dfs", "sweep", "preds", "intersect"})
                 PROVE  EmptyFor(g)'
      OBVIOUS
    <3>1. g > func /\ g # f
      BY <1>2, <1>8, <2>1, <2>3
    <3>2. EmptyFor(g)
      BY <3>1 DEF Frontiers
    <3> QED
      BY <2>9, <3>1, <3>2
  <2>13. pc' \in {"frontier", "runner"} =>
            CollectedOf(basic_blocks[func], BlocksOf(func), Found(func), Doms(func))'
    <3> SUFFICES ASSUME pc' \in {"frontier", "runner"}
                 PROVE  CollectedOf(basic_blocks[func], BlocksOf(func), Found(func), Doms(func))'
      OBVIOUS
    <3>1. CollectedOf(bbs, B, R, dom)'
      BY <1>8, <2>1, <2>7
    <3>2. /\ basic_blocks'[func'] = bbs /\ BlocksOf(func)' = B /\ Found(func)' = R
          /\ Doms(func)' = dom
      BY <1>1, <2>3, <2>4 DEF Seen, BlocksOf, Found, Doms, Entry
    <3> QED
      BY <3>1, <3>2
  <2>14. func' # 0
    BY <1>2, <2>3
  <2> QED
    BY <2>11, <2>12, <2>13, <2>14 DEF Frontiers
<1> QED
  BY <1>5, <1>6, <1>7, <1>8, StepKinds

LEMMA OwnBlocks == Built => \A f \in Funcs : BlocksOf(f) \subseteq Blocks
BY CreatedBlocks DEF Built, BuilderInv, Core

LEMMA OwnBlocksNext == (Built => \A f \in Funcs : BlocksOf(f) \subseteq Blocks)'
BY OwnBlocks, PTL

LEMMA FrontiersAlways == SpecAnalysis => []Frontiers
<1>1. InitAnalysis => Frontiers
  <2> SUFFICES ASSUME InitAnalysis PROVE Frontiers
    OBVIOUS
  <2>1. func = 0 /\ pc = "idle" /\ dom_frontier = [b \in Blocks |-> {}]
    BY DEF InitAnalysis, D!InitDominators
  <2>2. Funcs \subseteq Nat \ {0}
    BY DEF Funcs
  <2>3. \A f \in Funcs : BlocksOf(f) \subseteq Blocks
    <3>1. \A f \in Funcs : basic_blocks[f] = <<>>
      BY DEF InitAnalysis, Init
    <3> QED
      BY <3>1 DEF BlocksOf, ToSet
  <2>4. \A f \in Funcs : EmptyFor(f)
    BY <2>1, <2>3 DEF EmptyFor
  <2> QED
    BY <2>1, <2>2, <2>4 DEF Frontiers
<1>2. Built /\ Built' /\ Placed /\ Searched /\ Linked /\ Fresh /\ Fixed /\ Frontiers /\ [NextAnalysis]_all_vars => Frontiers'
  <2> SUFFICES ASSUME Built, Built', Placed, Searched, Linked, Fresh, Fixed, Frontiers,
                      [NextAnalysis]_all_vars
               PROVE  Frontiers'
    OBVIOUS
  <2>1. func # 0 => compiled
    BY DEF Placed, Places
  <2>2. CASE dom_vars' = dom_vars /\ (func # 0 => builder_vars' = builder_vars)
    <3>1. UNCHANGED <<pc, func, cursor, pre, b1, idom, dom_frontier>>
      BY <2>2 DEF dom_vars
    <3>2. CASE func = 0
      <4>1. pc = "idle" /\ \A b \in Blocks : dom_frontier[b] = {}
        BY <3>2 DEF Frontiers, Placed, Places
      <4>2. \A f \in Funcs : BlocksOf(f)' \subseteq Blocks
        BY OwnBlocksNext DEF Blocks, Funcs
      <4>3. \A f \in Funcs : EmptyFor(f)'
        BY <3>1, <4>1, <4>2 DEF EmptyFor
      <4>4. \A f \in Funcs : ~(f < func)  /\ f # func
        BY <3>2 DEF Funcs
      <4> QED
        BY <3>1, <3>2, <4>1, <4>3, <4>4 DEF Frontiers
    <3>3. CASE func # 0
      <4>1. UNCHANGED <<basic_blocks, succ_bbs, pre_bbs>>
        BY <2>2, <3>3 DEF builder_vars
      <4>2. \A f : /\ Entry(f)' = Entry(f) /\ BlocksOf(f)' = BlocksOf(f) /\ Found(f)' = Found(f)
                   /\ Doms(f)' = Doms(f)
        BY <4>1 DEF Entry, Found, BlocksOf, Doms
      <4>3. \A f : (ExactFor(f)' <=> ExactFor(f)) /\ (EmptyFor(f)' <=> EmptyFor(f))
        BY <3>1, <4>1, <4>2 DEF ExactFor, EmptyFor
      <4>4. PICK bbs, B, R, dom : bbs = basic_blocks[func] /\ B = BlocksOf(func) /\ R = Found(func) /\ dom = Doms(func)
        OBVIOUS
      <4>5. /\ basic_blocks'[func'] = bbs /\ BlocksOf(func)' = B /\ Found(func)' = R
            /\ Doms(func)' = dom
        BY <3>1, <4>1, <4>4 DEF BlocksOf, Found, Doms, Entry
      <4>6. CollectedOf(bbs, B, R, dom) => CollectedOf(bbs, B, R, dom)'
        BY <3>1, <4>1 DEF CollectedOf, Collected, Running
      <4> QED
        BY <3>1, <3>3, <4>3, <4>4, <4>5, <4>6 DEF Frontiers
    <3> QED
      BY <3>2, <3>3
  <2>3. CASE compiled /\ D!NextDominators /\ builder_vars' = builder_vars
    <3>1. Ready
      BY <2>3 DEF Ready, Built
    <3> QED
      BY <2>3, <3>1, FrontiersStep
  <2> QED
    BY <2>1, <2>2, <2>3, AnalysisStep
<1> QED
  BY BuiltAlways, PlacedAlways, SearchedAlways, LinkedAlways, FixedAlways, <1>1, <1>2, PTL DEF SpecAnalysis

(* The dominance frontiers by which Mem2Reg places its phis are those of    *)
(* the graph, for every function analysed so far.                           *)
THEOREM FrontiersAreExact == SpecAnalysis => []FrontierExact
<1>1. Placed /\ Built /\ Frontiers => FrontierExact
  <2> SUFFICES ASSUME Placed, Built, Frontiers,
                      NEW f \in Funcs, f < func \/ (f = func /\ pc \in {"order", "idle"}),
                      NEW a \in DOMAIN Doms(f)
               PROVE  dom_frontier[a] = Frontier(succ_bbs, Doms(f), a)
    BY DomIs DEF FrontierExact, D!FrontierExact, D!FrontiersOf, D!Frontier, Frontier, D!ToSet, ToSet
  <2>1. Ready
    <3>1. func # 0
      BY DEF Funcs, Placed, D!TypeOK
    <3> QED
      BY <3>1 DEF Placed, Places, Built, Ready
  <2>2. DOMAIN Doms(f) = Found(f)
    BY <2>1, FoundFacts, DomValue DEF Doms, Found
  <2> QED
    BY <2>2 DEF Frontiers, ExactFor
<1> QED
  BY PlacedAlways, BuiltAlways, FrontiersAlways, <1>1, PTL

(* At a predecessor that cannot be reached, under a block that can.         *)
AtDeadPred == /\ pc = "runner" /\ new_idom = 0
              /\ basic_blocks[func][cursor] \in Found(func)
              /\ pre_bbs[basic_blocks[func][cursor]][pre] \notin Found(func)

(* At a block of a function analysed before, which the sweep visits again.  *)
AtEarlierBlock == pc = "intersect" /\ post_order_vec[cursor] \notin BlocksOf(func)

LEMMA RunnerFails ==
    ASSUME Built, Placed, Searched, Linked, Fresh, Fixed, Frontiers, compiled, D!Runner, pc' = "crash"
    PROVE  AtDeadPred
<1>1. Ready /\ func # 0 /\ pc = "runner"
  BY DEF Built, Ready, D!Runner, Placed, Places
<1>2. Numbered /\ Ordered
  BY <1>1 DEF Searched
<1>3. PICK f, e, B, R, dom : f \in Funcs /\ Seen(f, e, B, R, dom) /\ Scene(e, B, R, dom)
  BY <1>1, <1>2, OwnScene
<1>4. PICK bb : bb = basic_blocks[f][cursor]
  OBVIOUS
<1>5. Settled(e, B, R, dom) /\ Row(basic_blocks[f], e, B, R)
  BY <1>1, <1>3, FrontierScene
<1>6. b1 = 0 /\ b1 # idom[bb]
  BY <1>1, <1>3, <1>4 DEF D!Runner, D!NoBlock, Seen
<1>7. Running(bb, pre_bbs[bb][pre], B, R, dom)
  BY <1>1, <1>3, <1>4 DEF Frontiers, CollectedOf, Seen
<1>8. bb \in B
  <2>1. cursor \in 1 .. Len(basic_blocks[f])
    BY <1>1, <1>3, <1>5 DEF Placed, Places, D!TypeOK, Row, Seen
  <2> QED
    BY <1>4, <1>5, <2>1 DEF Row
<1>9. bb \in R
  BY <1>5, <1>6, <1>8 DEF Settled
<1>10. 0 \notin R
  BY <1>3 DEF Scene
<1>11. pre_bbs[bb][pre] \notin R
  BY <1>6, <1>7, <1>9, <1>10 DEF Running
<1>12. new_idom = 0
  BY <1>1 DEF Fresh
<1> QED
  BY <1>1, <1>3, <1>4, <1>9, <1>11, <1>12 DEF AtDeadPred, Seen

LEMMA FingersFail ==
    ASSUME Built, Placed, Searched, Linked, compiled, D!Intersect, pc' = "crash"
    PROVE  AtEarlierBlock
<1>1. Ready /\ func # 0 /\ pc = "intersect"
  BY DEF Built, Ready, D!Intersect, Placed, Places
<1>2. Numbered /\ Ordered
  BY <1>1 DEF Searched
<1>3. PICK f, e, B, R, dom : f \in Funcs /\ Seen(f, e, B, R, dom) /\ Scene(e, B, R, dom)
  BY <1>1, <1>2, OwnScene
<1>4. b1 = 0 \/ b2 = 0
  BY <1>1 DEF D!Intersect, D!NoBlock
<1>5. Meeting(R, dom, post_order_vec[cursor])
  BY <1>1, <1>3 DEF Linked, LinksOf, Seen
<1>6. 0 \notin R
  BY <1>3 DEF Scene
<1>7. post_order_vec[cursor] \notin R
  BY <1>4, <1>5, <1>6 DEF Meeting, Candidate
<1>8. cursor \in 1 .. Len(post_order_vec)
  BY <1>1, <1>3 DEF Placed, Places, D!TypeOK, Scene
<1>9. post_order_vec[cursor] \notin B
  BY <1>3, <1>7, <1>8 DEF Scene
<1> QED
  BY <1>1, <1>3, <1>9 DEF AtEarlierBlock, Seen

(* The step that follows a null pointer is one of the runner at a dead      *)
(* predecessor, with the candidate reset: among the blocks of the function  *)
(* that it analyses, intersect never fails.                                 *)
THEOREM FailsAtDeadPred ==
    SpecAnalysis => [][pc # "crash" /\ pc' = "crash" => AtDeadPred \/ AtEarlierBlock]_all_vars
<1>1. ASSUME Built, Placed, Searched, Linked, Fresh, Fixed, Frontiers, [NextAnalysis]_all_vars,
             pc # "crash", pc' = "crash"
      PROVE  AtDeadPred \/ AtEarlierBlock
  <2>1. compiled /\ D!NextDominators
    <3>1. dom_vars' # dom_vars
      BY <1>1 DEF dom_vars
    <3> QED
      BY <1>1, <3>1, AnalysisStep DEF Placed, Places
  <2>2. D!Runner \/ D!Intersect
    <3>1. ~D!RunOnFunc /\ ~D!DfsEnter /\ ~D!DfsLeave /\ ~D!CreateIdom
      BY <1>1 DEF D!RunOnFunc, D!DfsEnter, D!DfsLeave, D!CreateIdom
    <3>2. ~D!SweepBlock /\ ~D!SweepEnd /\ ~D!NextPred /\ ~D!SetIdom
      BY <1>1 DEF D!SweepBlock, D!SweepEnd, D!NextPred, D!SetIdom
    <3>3. ~D!IntersectEnd /\ ~D!FrontierBlock /\ ~D!CreateDomTree
      BY <1>1 DEF D!IntersectEnd, D!FrontierBlock, D!CreateDomTree
    <3>4. ~D!OrderLeave /\ ~D!FuncDone /\ ~\E c \in Blocks : D!OrderEnter(c)
      BY <1>1 DEF D!OrderLeave, D!FuncDone, D!OrderEnter
    <3> QED
      BY <2>1, <3>1, <3>2, <3>3, <3>4 DEF D!NextDominators
  <2> QED
    BY <1>1, <2>1, <2>2, RunnerFails, FingersFail
<1> QED
  BY BuiltAlways, PlacedAlways, SearchedAlways, LinkedAlways, FixedAlways, FrontiersAlways, <1>1,
     PTL DEF SpecAnalysis

-----------------------------------------------------------------------------
(* The numbers of the tree.                                                 *)
Between(a, b)   == dom_tree_L[a] <= dom_tree_L[b] /\ dom_tree_R[a] >= dom_tree_L[b]
OrderFor(f)     == \A a, b \in Found(f) : Between(a, b) <=> b \in Doms(f)[a]
ChildlessFor(f) == \A b \in BlocksOf(f) : dom_tree_succ[b] = {}

(* The blocks on the path dominate what follows on it; a block is visited   *)
(* after all that dominates it.  A block on the path was numbered before    *)
(* all blocks below it and after all others; a finished one has all blocks  *)
(* below it between its numbers, and no others.                             *)
NumbersOf(e, R, dom) ==
    /\ \A b \in R : dom_tree_succ[b] = {c \in R \ {e} : idom[c] = b}
    /\ visited \subseteq R /\ e \in visited /\ ToSet(path) \subseteq visited /\ IsInjective(path)
    /\ \A i, j \in DOMAIN path : i <= j => path[j] \in dom[path[i]]
    /\ \A y \in visited : \A d \in R : y \in dom[d] => d \in visited
    /\ \A y \in visited : dom_tree_L[y] <= order
    /\ \A x \in ToSet(path) : \A y \in visited : y \in dom[x] <=> dom_tree_L[y] >= dom_tree_L[x]
    /\ \A x \in visited \ ToSet(path) :
          /\ dom[x] \subseteq visited \ ToSet(path) /\ dom_tree_R[x] <= order
          /\ \A y \in visited : y \in dom[x] <=> Between(x, y)

Trees ==
    /\ \A f \in Funcs : f < func \/ (f = func /\ pc = "idle") => OrderFor(f)
    /\ func = 0 => \A b \in Blocks : dom_tree_succ[b] = {}
    /\ \A f \in Funcs : f > func \/ (f = func /\ pc \in Early \cup {"frontier", "runner"}) =>
          ChildlessFor(f)
    /\ pc = "order" => NumbersOf(Entry(func), Found(func), Doms(func))

(* A block that another one strictly dominates is below a child of that     *)
(* one: the highest block between them.                                     *)
LEMMA ChildAbove ==
    ASSUME Placed, NEW e, NEW B, NEW R, NEW dom, Scene(e, B, R, dom), Settled(e, B, R, dom),
           NEW x \in R, NEW y \in dom[x] \ {x}
    PROVE  \E c \in R \ {e} : idom[c] = x /\ y \in dom[c]
<1> DEFINE Z == {z \in R : z \in dom[x] \ {x} /\ y \in dom[z]}
           T == {n \in Nat : \E z \in Z : n = Len(post_order_vec) - post_order[z]}
<1>1. /\ Len(post_order_vec) \in Nat
      /\ \A z \in R : post_order[z] \in Nat /\ post_order[z] <= Len(post_order_vec)
  BY DEF Scene, Numbering
<1>2. y \in Z
  BY TreeFacts
<1>3. \A z \in Z : Len(post_order_vec) - post_order[z] \in T
  BY <1>1
<1>4. PICK n \in T : \A m \in T : n <= m
  <2>1. T # {} /\ T \in SUBSET Nat
    BY <1>2, <1>3
  <2> HIDE DEF T
  <2> QED
    BY <2>1, LeastNumber
<1>5. PICK c \in Z : n = Len(post_order_vec) - post_order[c]
  OBVIOUS
<1>6. c # e
  BY TreeFacts
<1>7. idom[c] \in R /\ c \in dom[idom[c]] /\ post_order[idom[c]] > post_order[c] /\ idom[c] \in dom[x]
  BY <1>6 DEF Settled
<1>8. idom[c] = x
  <2> SUFFICES ASSUME idom[c] # x PROVE FALSE
    OBVIOUS
  <2>1. idom[c] \in Z
    BY <1>7, TreeFacts
  <2>2. n <= Len(post_order_vec) - post_order[idom[c]]
    BY <1>3, <1>4, <2>1
  <2> QED
    BY <1>1, <1>5, <1>7, <2>2
<1> QED
  BY <1>6, <1>8

LEMMA TreeMade ==
    ASSUME Placed, NEW e, NEW B, NEW R, NEW dom, Scene(e, B, R, dom), Settled(e, B, R, dom),
           e = D!entry(func), B = D!Own(func), \A b \in B : dom_tree_succ[b] = {},
           D!CreateDomTree
    PROVE  /\ NumbersOf(e, R, dom)'
           /\ \A x \in Blocks \ B : /\ dom_tree_L'[x] = dom_tree_L[x] /\ dom_tree_R'[x] = dom_tree_R[x]
                                    /\ dom_tree_succ'[x] = dom_tree_succ[x]
<1>1. /\ visited' = {e} /\ path' = <<e>> /\ order' = 1 /\ UNCHANGED <<idom, dom_tree_R>>
      /\ dom_tree_L' = [dom_tree_L EXCEPT ![e] = 1]
      /\ dom_tree_succ' = [b \in Blocks |-> dom_tree_succ[b] \cup {c \in B \ {e} : idom[c] = b}]
  BY DEF D!CreateDomTree
<1>2. e \in R /\ R \subseteq B /\ B \subseteq Blocks /\ 0 \notin Blocks /\ dom[e] = R
  BY TreeFacts
<1>3. dom_tree_L \in [Blocks -> Nat]
  BY DEF Placed, D!TypeOK
<1>4. dom_tree_L'[e] = 1 /\ \A x \in Blocks \ {e} : dom_tree_L'[x] = dom_tree_L[x]
  BY <1>1, <1>2, <1>3
<1>5. ASSUME NEW b \in R PROVE dom_tree_succ'[b] = {c \in R \ {e} : idom[c] = b}
  <2>1. \A c \in B \ R : idom[c] # b
    BY <1>2, <1>5 DEF Settled
  <2>2. dom_tree_succ'[b] = {c \in B \ {e} : idom[c] = b}
    BY <1>1, <1>2, <1>5
  <2> QED
    BY <1>2, <2>1, <2>2
<1>6. ASSUME NEW x \in Blocks \ B PROVE dom_tree_succ'[x] = dom_tree_succ[x]
  <2>1. \A c \in B \ {e} : idom[c] # x
    BY <1>2, <1>6 DEF Settled
  <2> QED
    BY <1>1, <1>6, <2>1
<1>7. ToSet(path') = {e} /\ IsInjective(path') /\ DOMAIN path' = {1} /\ path'[1] = e
  <2>1. DOMAIN <<e>> = {1} /\ <<e>>[1] = e
    OBVIOUS
  <2> QED
    BY <1>1, <2>1 DEF ToSet, IsInjective
<1>8. \A d \in R : e \in dom[d] => d = e
  BY <1>2, TreeFacts
<1>9. \A i, j \in DOMAIN path' : i <= j => path'[j] \in dom[path'[i]]
  BY <1>2, <1>7
<1>10. \A x \in ToSet(path') : \A y \in visited' : y \in dom[x] <=> dom_tree_L'[y] >= dom_tree_L'[x]
  BY <1>1, <1>2, <1>4, <1>7
<1>11. /\ visited' \subseteq R /\ e \in visited' /\ visited' \ ToSet(path') = {}
       /\ ToSet(path') \subseteq visited'
       /\ \A y \in visited' : \A d \in R : y \in dom[d] => d \in visited'
       /\ \A y \in visited' : dom_tree_L'[y] <= order'
  BY <1>1, <1>2, <1>4, <1>7, <1>8
<1>12. NumbersOf(e, R, dom)'
  BY <1>1, <1>5, <1>7, <1>9, <1>10, <1>11 DEF NumbersOf
<1> QED
  BY <1>1, <1>2, <1>4, <1>6, <1>12

LEMMA TreeEntered ==
    ASSUME Placed, NEW e, NEW B, NEW R, NEW dom, Scene(e, B, R, dom), Settled(e, B, R, dom),
           NumbersOf(e, R, dom), NEW c \in Blocks, D!OrderEnter(c)
    PROVE  /\ NumbersOf(e, R, dom)'
           /\ \A x \in Blocks \ B : dom_tree_L'[x] = dom_tree_L[x] /\ dom_tree_R'[x] = dom_tree_R[x]
<1>1. path \in Seq(Blocks) /\ dom_tree_L \in [Blocks -> Nat] /\ dom_tree_R \in [Blocks -> Nat] /\ order \in Nat
  BY DEF Placed, D!TypeOK
<1>2. PICK n \in Nat : n = Len(path) /\ n >= 1 /\ DOMAIN path = 1 .. n
  <2>1. path # <<>>
    BY DEF D!OrderEnter
  <2> QED
    BY <1>1, <2>1, LenProperties, EmptySeq
<1>3. PICK b : b = path[n]
  OBVIOUS
<1>4. /\ c \in dom_tree_succ[b] /\ c \notin visited
      /\ visited' = visited \cup {c} /\ path' = Append(path, c) /\ order' = order + 1
      /\ dom_tree_L' = [dom_tree_L EXCEPT ![c] = order + 1]
      /\ UNCHANGED <<idom, dom_tree_succ, dom_tree_R>>
  BY <1>2, <1>3 DEF D!OrderEnter, D!last
<1>5. /\ visited \subseteq R /\ e \in visited /\ ToSet(path) \subseteq visited /\ IsInjective(path)
      /\ \A i, j \in 1 .. n : i <= j => path[j] \in dom[path[i]]
      /\ \A i \in 1 .. n : path[i] \in ToSet(path)
      /\ \A x \in ToSet(path) : \E i \in 1 .. n : x = path[i]
  BY <1>2 DEF NumbersOf, ToSet
<1>6. b \in ToSet(path) /\ b \in R /\ R \subseteq B /\ B \subseteq Blocks
  <2>1. n \in 1 .. n
    BY <1>2
  <2> QED
    BY <1>3, <1>5, <2>1, TreeFacts
<1>7. c \in R \ {e} /\ idom[c] = b
  BY <1>4, <1>6 DEF NumbersOf
<1>8. c \in dom[b] /\ \A d \in R : c \in dom[d] \ {d} => b \in dom[d]
  BY <1>7 DEF Settled
<1>9. PICK t : t = path'
  OBVIOUS
<1>10. ToSet(t) = ToSet(path) \cup {c} /\ IsInjective(t) /\ t \in Seq(Blocks)
  BY <1>1, <1>4, <1>5, <1>9, AppendSet
<1>11. Len(t) = n + 1 /\ t[n + 1] = c /\ \A i \in 1 .. n : t[i] = path[i]
  BY <1>1, <1>2, <1>4, <1>9, AppendProperties
<1>12. DOMAIN t = 1 .. n + 1
  BY <1>10, <1>11, LenProperties
<1>13. \A x \in ToSet(path) : b \in dom[x] /\ c \in dom[x]
  <2> SUFFICES ASSUME NEW i \in 1 .. n PROVE b \in dom[path[i]] /\ c \in dom[path[i]]
    BY <1>5
  <2>1. b \in dom[path[i]]
    <3>1. n \in 1 .. n /\ i <= n
      BY <1>2
    <3> QED
      BY <1>3, <1>5, <3>1
  <2>2. path[i] \in R
    BY <1>5
  <2> QED
    BY <1>8, <2>1, <2>2, TreeFacts
<1>14. ASSUME NEW i \in 1 .. n + 1, NEW j \in 1 .. n + 1, i <= j PROVE t[j] \in dom[t[i]]
  <2>1. CASE j # n + 1
    <3>1. i \in 1 .. n /\ j \in 1 .. n
      BY <1>2, <1>14, <2>1
    <3> QED
      BY <1>5, <1>11, <1>14, <3>1
  <2>2. CASE j = n + 1 /\ i # n + 1
    <3>1. i \in 1 .. n
      BY <1>2, <2>2
    <3> QED
      BY <1>5, <1>11, <1>13, <2>2, <3>1
  <2>3. CASE j = n + 1 /\ i = n + 1
    BY <1>7, <1>11, <2>3, TreeFacts
  <2> QED
    BY <2>1, <2>2, <2>3
<1>15. ASSUME NEW y \in visited \cup {c}, NEW d \in R, y \in dom[d] PROVE d \in visited \cup {c}
  <2>1. \A z \in visited : z \in dom[d] => d \in visited
    BY DEF NumbersOf
  <2> QED
    BY <1>5, <1>6, <1>8, <1>15, <2>1
<1>16. /\ dom_tree_L'[c] = order + 1 /\ \A x \in Blocks \ {c} : dom_tree_L'[x] = dom_tree_L[x]
       /\ \A x \in visited : dom_tree_L'[x] = dom_tree_L[x] /\ dom_tree_L[x] \in Nat /\ dom_tree_L[x] <= order
  <2>1. \A x \in visited : dom_tree_L[x] <= order /\ x \in Blocks /\ x # c
    BY <1>4, <1>5, <1>6 DEF NumbersOf
  <2> QED
    BY <1>1, <1>4, <2>1
<1>17. ~\E y \in visited : y \in dom[c]
  BY <1>4, <1>7 DEF NumbersOf
<1>18. ASSUME NEW x \in ToSet(t), NEW y \in visited \cup {c}
       PROVE  y \in dom[x] <=> dom_tree_L'[y] >= dom_tree_L'[x]
  <2>1. CASE x # c /\ y # c
    <3>1. x \in ToSet(path) /\ y \in visited
      BY <1>10, <2>1
    <3>2. y \in dom[x] <=> dom_tree_L[y] >= dom_tree_L[x]
      BY <3>1 DEF NumbersOf
    <3> QED
      BY <1>5, <1>16, <3>1, <3>2
  <2>2. CASE x # c /\ y = c
    <3>1. x \in ToSet(path) /\ x \in visited
      BY <1>5, <1>10, <2>2
    <3> QED
      BY <1>1, <1>13, <1>16, <2>2, <3>1
  <2>3. CASE x = c /\ y # c
    <3>1. y \in visited
      BY <2>3
    <3>2. ~(dom_tree_L[y] >= order + 1)
      BY <1>1, <1>16, <3>1
    <3> QED
      BY <1>16, <1>17, <2>3, <3>1, <3>2
  <2>4. CASE x = c /\ y = c
    BY <1>1, <1>7, <1>16, <2>4, TreeFacts
  <2> QED
    BY <2>1, <2>2, <2>3, <2>4
<1>19. (visited \cup {c}) \ ToSet(t) = visited \ ToSet(path)
  BY <1>4, <1>10
<1>20. ASSUME NEW x \in visited \ ToSet(path)
       PROVE  /\ dom[x] \subseteq visited \ ToSet(path) /\ dom_tree_R'[x] <= order + 1
              /\ \A y \in visited \cup {c} : y \in dom[x] <=> Between(x, y)'
  <2>1. /\ dom[x] \subseteq visited \ ToSet(path) /\ dom_tree_R[x] <= order /\ dom_tree_R[x] \in Nat
        /\ \A y \in visited : y \in dom[x] <=> Between(x, y)
    BY <1>1, <1>5, <1>6 DEF NumbersOf
  <2>2. \A y \in visited : Between(x, y)' <=> Between(x, y)
    BY <1>4, <1>16 DEF Between
  <2>3. c \notin dom[x] /\ ~Between(x, c)'
    <3>1. ~(dom_tree_R[x] >= order + 1)
      BY <1>1, <2>1
    <3> QED
      BY <1>4, <1>16, <2>1, <3>1 DEF Between
  <2>4. dom_tree_R'[x] <= order + 1
    BY <1>1, <1>4, <2>1
  <2> QED
    BY <2>1, <2>2, <2>3, <2>4
<1>21. ASSUME NEW y \in visited \cup {c} PROVE dom_tree_L'[y] <= order + 1
  <2>1. dom_tree_L'[y] = order + 1 \/ (dom_tree_L'[y] \in Nat /\ dom_tree_L'[y] <= order)
    BY <1>16
  <2>2. order \in Nat
    BY <1>1
  <2> QED
    BY <2>1, <2>2
<1>22. \A z \in R : dom_tree_succ'[z] = {x \in R \ {e} : idom'[x] = z}
  BY <1>4 DEF NumbersOf
<1>23. /\ visited' \subseteq R /\ e \in visited' /\ ToSet(path') \subseteq visited' /\ IsInjective(path')
       /\ \A i, j \in DOMAIN path' : i <= j => path'[j] \in dom[path'[i]]
  BY <1>4, <1>5, <1>7, <1>9, <1>10, <1>12, <1>14
<1>24. NumbersOf(e, R, dom)'
  BY <1>4, <1>9, <1>15, <1>18, <1>19, <1>20, <1>21, <1>22, <1>23 DEF NumbersOf
<1> QED
  BY <1>4, <1>6, <1>7, <1>16, <1>24

LEMMA TreeLeft ==
    ASSUME Placed, NEW e, NEW B, NEW R, NEW dom, Scene(e, B, R, dom), Settled(e, B, R, dom),
           NumbersOf(e, R, dom), D!OrderLeave
    PROVE  /\ NumbersOf(e, R, dom)'
           /\ \A x \in Blocks \ B : dom_tree_L'[x] = dom_tree_L[x] /\ dom_tree_R'[x] = dom_tree_R[x]
<1>1. path \in Seq(Blocks) /\ dom_tree_L \in [Blocks -> Nat] /\ dom_tree_R \in [Blocks -> Nat] /\ order \in Nat
  BY DEF Placed, D!TypeOK
<1>2. path # <<>>
  BY DEF D!OrderLeave
<1>3. PICK n \in Nat : n = Len(path) /\ n >= 1 /\ DOMAIN path = 1 .. n
  BY <1>1, <1>2, LenProperties, EmptySeq
<1>4. PICK b : b = path[n]
  OBVIOUS
<1>5. /\ dom_tree_succ[b] \subseteq visited /\ path' = SubSeq(path, 1, n - 1)
      /\ dom_tree_R' = [dom_tree_R EXCEPT ![b] = order]
      /\ UNCHANGED <<idom, visited, order, dom_tree_succ, dom_tree_L>>
  BY <1>3, <1>4 DEF D!OrderLeave, D!last, D!number_at_exit
<1>6. /\ visited \subseteq R /\ e \in visited /\ ToSet(path) \subseteq visited /\ IsInjective(path)
      /\ \A i, j \in 1 .. n : i <= j => path[j] \in dom[path[i]]
      /\ \A i \in 1 .. n : path[i] \in ToSet(path)
      /\ \A x \in ToSet(path) : \E i \in 1 .. n : x = path[i]
  BY <1>3 DEF NumbersOf, ToSet
<1>7. b \in ToSet(path) /\ b \in R /\ R \subseteq B /\ B \subseteq Blocks
  <2>1. n \in 1 .. n
    BY <1>3
  <2> QED
    BY <1>4, <1>6, <2>1, TreeFacts
<1>8. PICK t : t = path'
  OBVIOUS
<1>9. /\ Len(t) = n - 1 /\ IsInjective(t) /\ t \in Seq(Blocks)
      /\ (\A i \in 1 .. n - 1 : t[i] = path[i])
      /\ ToSet(t) = ToSet(path) \ {b}
  <2>1. t = SubSeq(path, 1, Len(path) - 1) /\ b = path[Len(path)]
    BY <1>3, <1>4, <1>5, <1>8
  <2>2. /\ t \in Seq(Blocks) /\ Len(t) = Len(path) - 1 /\ IsInjective(t)
        /\ \A i \in 1 .. Len(path) - 1 : t[i] = path[i]
        /\ ToSet(t) = ToSet(path) \ {path[Len(path)]}
    <3>1. path \in Seq(Blocks) /\ path # <<>> /\ IsInjective(path)
      BY <1>1, <1>2, <1>6
    <3>2. Shortened(t, path, Blocks)
      BY <2>1, <3>1, FrontFacts
    <3> QED
      BY <3>2 DEF Shortened
  <2> QED
    BY <1>3, <2>1, <2>2
<1>10. DOMAIN t = 1 .. n - 1
  BY <1>9, LenProperties
<1>11. ASSUME NEW i \in 1 .. n - 1, NEW j \in 1 .. n - 1, i <= j PROVE t[j] \in dom[t[i]]
  <2>1. i \in 1 .. n /\ j \in 1 .. n
    BY <1>3
  <2> QED
    BY <1>6, <1>9, <1>11, <2>1
<1>12. ASSUME NEW c \in R \ {e}, idom[c] = b PROVE dom[c] \subseteq visited \ ToSet(path)
  <2>1. c \in visited /\ c \in dom[b] /\ c # b
    BY <1>5, <1>7, <1>12 DEF NumbersOf, Settled
  <2>2. c \notin ToSet(path)
    <3> SUFFICES ASSUME NEW i \in 1 .. n, c = path[i] PROVE FALSE
      BY <1>6
    <3>1. n \in 1 .. n /\ i <= n
      BY <1>3
    <3>2. b \in dom[c]
      BY <1>4, <1>6, <3>1
    <3> QED
      BY <1>7, <2>1, <3>2, TreeFacts
  <2> QED
    BY <2>1, <2>2 DEF NumbersOf
<1>13. dom[b] \subseteq visited \ ToSet(t)
  <2> SUFFICES ASSUME NEW y \in dom[b] PROVE y \in visited \ ToSet(t)
    OBVIOUS
  <2>1. CASE y = b
    BY <1>6, <1>7, <1>9, <2>1
  <2>2. CASE y # b
    <3>1. PICK c \in R \ {e} : idom[c] = b /\ y \in dom[c]
      BY <1>7, <2>2, ChildAbove
    <3> QED
      BY <1>9, <1>12, <3>1
  <2> QED
    BY <2>1, <2>2
<1>14. visited \ ToSet(t) = (visited \ ToSet(path)) \cup {b}
  BY <1>6, <1>7, <1>9
<1>15. dom_tree_R'[b] = order /\ \A x \in Blocks \ {b} : dom_tree_R'[x] = dom_tree_R[x]
  BY <1>1, <1>5, <1>7
<1>16. ASSUME NEW x \in visited \ ToSet(t)
       PROVE  /\ dom[x] \subseteq visited \ ToSet(t) /\ dom_tree_R'[x] <= order
              /\ \A y \in visited : y \in dom[x] <=> Between(x, y)'
  <2>1. CASE x = b
    <3>1. ASSUME NEW y \in visited PROVE y \in dom[b] <=> Between(b, y)'
      <4>1. /\ y \in dom[b] <=> dom_tree_L[y] >= dom_tree_L[b]
            /\ dom_tree_L[y] <= order /\ dom_tree_L[y] \in Nat /\ dom_tree_L[b] \in Nat
        BY <1>1, <1>6, <1>7 DEF NumbersOf
      <4> QED
        BY <1>1, <1>5, <1>15, <4>1 DEF Between
    <3>2. dom_tree_R'[b] <= order
      BY <1>1, <1>15
    <3> QED
      BY <1>13, <2>1, <3>1, <3>2
  <2>2. CASE x # b
    <3>1. x \in visited \ ToSet(path) /\ x \in Blocks
      BY <1>6, <1>7, <1>14, <2>2
    <3>2. /\ dom[x] \subseteq visited \ ToSet(path) /\ dom_tree_R[x] <= order
          /\ \A y \in visited : y \in dom[x] <=> Between(x, y)
      BY <3>1 DEF NumbersOf
    <3>3. dom_tree_R'[x] = dom_tree_R[x]
      BY <1>15, <2>2, <3>1
    <3> QED
      BY <1>5, <1>14, <3>2, <3>3 DEF Between
  <2> QED
    BY <2>1, <2>2
<1>17. \A x \in ToSet(t) : \A y \in visited : y \in dom[x] <=> dom_tree_L[y] >= dom_tree_L[x]
  BY <1>9 DEF NumbersOf
<1>18. /\ \A z \in R : dom_tree_succ'[z] = {x \in R \ {e} : idom'[x] = z}
       /\ \A y \in visited : \A d \in R : y \in dom[d] => d \in visited
       /\ \A y \in visited : dom_tree_L'[y] <= order'
  BY <1>5 DEF NumbersOf
<1>19. /\ visited' \subseteq R /\ e \in visited' /\ ToSet(path') \subseteq visited' /\ IsInjective(path')
       /\ \A i, j \in DOMAIN path' : i <= j => path'[j] \in dom[path'[i]]
  BY <1>5, <1>6, <1>8, <1>9, <1>10, <1>11
<1>20. NumbersOf(e, R, dom)'
  BY <1>5, <1>8, <1>16, <1>17, <1>18, <1>19 DEF NumbersOf
<1> QED
  BY <1>5, <1>7, <1>15, <1>20

(* All is numbered when the search is back from the entry.                  *)
LEMMA NumbersDecide ==
    ASSUME NEW e, NEW B, NEW R, NEW dom, Scene(e, B, R, dom), NumbersOf(e, R, dom), path = <<>>
    PROVE  \A a, b \in R : Between(a, b) <=> b \in dom[a]
<1>1. ToSet(path) = {}
  BY DEF ToSet
<1>2. R \subseteq visited
  BY <1>1, TreeFacts DEF NumbersOf
<1> QED
  BY <1>1, <1>2 DEF NumbersOf

LEMMA TreesStep ==
    ASSUME Ready, Placed, Searched, Linked, Fixed, Trees, UNCHANGED builder_vars,
           D!NextDominators
    PROVE  Trees'
<1>1. /\ UNCHANGED <<basic_blocks, succ_bbs, pre_bbs>>
      /\ \A f : /\ Entry(f)' = Entry(f) /\ BlocksOf(f)' = BlocksOf(f) /\ Found(f)' = Found(f)
                /\ Doms(f)' = Doms(f)
  BY DEF builder_vars, Entry, Found, BlocksOf, Doms
<1>2. func \in Nat /\ Funcs \subseteq Nat \ {0}
  BY DEF Placed, D!TypeOK, Funcs
<1>3. UNCHANGED <<dom_tree_L, dom_tree_R>> => \A f : OrderFor(f)' <=> OrderFor(f)
  BY <1>1 DEF OrderFor, Between
<1>4. dom_tree_succ' = dom_tree_succ => \A f : ChildlessFor(f)' <=> ChildlessFor(f)
  BY <1>1 DEF ChildlessFor
<1>5. CASE D!RunOnFunc
  <2>1. /\ pc = "idle" /\ pc' = "dfs" /\ func' = func + 1
        /\ UNCHANGED <<dom_tree_succ, dom_tree_L, dom_tree_R>>
    BY <1>5 DEF D!RunOnFunc, D!tree_vars
  <2>2. ASSUME NEW f \in Funcs, f < func' PROVE OrderFor(f)'
    <3>1. f < func \/ f = func
      BY <1>2, <2>1, <2>2
    <3> QED
      BY <1>3, <2>1, <3>1 DEF Trees
  <2>3. ASSUME NEW f \in Funcs, f > func' \/ f = func' PROVE ChildlessFor(f)'
    <3>1. f > func
      BY <1>2, <2>1, <2>3
    <3> QED
      BY <1>4, <2>1, <3>1 DEF Trees
  <2>4. func' # 0
    BY <1>2, <2>1
  <2> QED
    BY <2>1, <2>2, <2>3, <2>4 DEF Trees
<1>6. CASE /\ UNCHANGED <<func, dom_tree_succ, dom_tree_L, dom_tree_R>>
           /\ pc \in Early \cup {"frontier", "runner"}
           /\ pc' \in Early \cup {"frontier", "runner", "crash"}
  BY <1>3, <1>4, <1>6 DEF Trees, Early
<1>7. CASE D!CreateDomTree \/ D!OrderLeave \/ D!FuncDone \/ \E c \in Blocks : D!OrderEnter(c)
  <2>1. /\ D!CreateDomTree => pc = "frontier" /\ pc' = "order"
        /\ D!OrderLeave => pc = "order" /\ pc' = "order" /\ dom_tree_succ' = dom_tree_succ
        /\ D!FuncDone => /\ pc = "order" /\ pc' = "idle" /\ path = <<>>
                         /\ UNCHANGED <<dom_tree_succ, dom_tree_L, dom_tree_R>>
        /\ \A c \in Blocks : D!OrderEnter(c) => pc = "order" /\ pc' = "order" /\ dom_tree_succ' = dom_tree_succ
    BY DEF D!CreateDomTree, D!OrderLeave, D!FuncDone, D!OrderEnter, D!tree_vars
  <2>2. ~D!RunOnFunc /\ ~D!DfsEnter /\ ~D!DfsLeave /\ pc \in {"frontier", "order"} /\ pc' \in {"order", "idle"}
    BY <1>7, <2>1 DEF D!RunOnFunc, D!DfsEnter, D!DfsLeave
  <2>3. PICK f, e, B, R, dom :
          /\ f \in Funcs /\ func = f /\ func' = f
          /\ Seen(f, e, B, R, dom) /\ Seen(f, e, B, R, dom)' /\ Scene(e, B, R, dom)
    BY <2>2, SceneKept DEF Seen
  <2>4. Settled(e, B, R, dom)
    BY <2>2, <2>3, FrontierScene
  <2>5. \A g \in Funcs \ {f} : BlocksOf(g) \subseteq Blocks \ B /\ Found(g) \subseteq BlocksOf(g)
    BY <2>3, GraphFacts, ListFacts, FoundFacts DEF Seen
  <2>6. pc = "order" => NumbersOf(e, R, dom)
    BY <2>3 DEF Trees, Seen
  <2>7. /\ \A x \in Blocks \ B : /\ dom_tree_L'[x] = dom_tree_L[x] /\ dom_tree_R'[x] = dom_tree_R[x]
                                 /\ dom_tree_succ'[x] = dom_tree_succ[x]
        /\ ~D!FuncDone => NumbersOf(e, R, dom)'
    <3>1. CASE D!CreateDomTree
      <4>1. \A b \in B : dom_tree_succ[b] = {}
        BY <2>1, <2>3, <2>5, <3>1 DEF Trees, ChildlessFor, Seen
      <4>2. e = D!entry(func) /\ B = D!Own(func)
        BY <2>3, <2>5, DomIs DEF Seen
      <4> QED
        BY <2>3, <2>4, <3>1, <4>1, <4>2, TreeMade
    <3>2. CASE D!OrderLeave
      BY <2>1, <2>3, <2>4, <2>6, <3>2, TreeLeft
    <3>3. CASE \E c \in Blocks : D!OrderEnter(c)
      BY <2>1, <2>3, <2>4, <2>6, <3>3, TreeEntered
    <3>4. CASE D!FuncDone
      BY <2>1, <3>4
    <3> QED
      BY <1>7, <3>1, <3>2, <3>3, <3>4
  <2>8. ASSUME NEW g \in Funcs \ {f}
        PROVE  (OrderFor(g) => OrderFor(g)') /\ (ChildlessFor(g) => ChildlessFor(g)')
    <3>1. \A x \in BlocksOf(g) : /\ dom_tree_L'[x] = dom_tree_L[x] /\ dom_tree_R'[x] = dom_tree_R[x]
                                 /\ dom_tree_succ'[x] = dom_tree_succ[x]
      BY <2>5, <2>7
    <3>2. OrderFor(g) => OrderFor(g)'
      BY <1>1, <2>5, <3>1 DEF OrderFor, Between
    <3>3. ChildlessFor(g) => ChildlessFor(g)'
      BY <1>1, <3>1 DEF ChildlessFor
    <3> QED
      BY <3>2, <3>3
  <2>9. ASSUME pc' = "idle" PROVE OrderFor(f)'
    <3>1. D!FuncDone
      BY <1>7, <2>1, <2>9
    <3>2. OrderFor(f)
      BY <2>1, <2>3, <2>6, <3>1, NumbersDecide DEF OrderFor, Seen
    <3> QED
      BY <1>3, <2>1, <3>1, <3>2
  <2>10. ASSUME NEW g \in Funcs, g < func' \/ (g = func' /\ pc' = "idle") PROVE OrderFor(g)'
    <3>1. CASE g = f
      <4>1. ~(g < func')
        BY <1>2, <2>3, <3>1
      <4> QED
        BY <2>9, <2>10, <3>1, <4>1
    <3>2. CASE g # f
      <4>1. g < func
        BY <2>3, <2>10, <3>2
      <4>2. OrderFor(g)
        BY <4>1 DEF Trees
      <4> QED
        BY <2>8, <3>2, <4>2
    <3> QED
      BY <3>1, <3>2
  <2>11. ASSUME NEW g \in Funcs, g > func' \/ (g = func' /\ pc' \in Early \cup {"frontier", "runner"})
         PROVE  ChildlessFor(g)'
    <3>1. g > func
      BY <2>2, <2>3, <2>11 DEF Early
    <3>2. g # f
      BY <1>2, <2>3, <3>1
    <3> QED
      BY <2>8, <3>1, <3>2 DEF Trees
  <2>12. pc' = "order" => NumbersOf(Entry(func), Found(func), Doms(func))'
    <3>1. pc' = "order" => NumbersOf(e, R, dom)'
      BY <2>1, <2>7
    <3>2. Entry(func)' = e /\ Found(func)' = R /\ Doms(func)' = dom
      BY <1>1, <2>3, <2>5 DEF Seen, Found, Doms, Entry
    <3> QED
      BY <3>1, <3>2
  <2>13. func' # 0
    BY <1>2, <2>3
  <2> QED
    BY <2>10, <2>11, <2>12, <2>13 DEF Trees
<1>8. CASE D!FrontierBlock \/ D!Runner
  <2>1. /\ UNCHANGED <<func, dom_tree_succ, dom_tree_L, dom_tree_R>> /\ pc \in {"frontier", "runner"}
        /\ pc' \in {"frontier", "runner", "crash"}
    BY <1>8 DEF D!FrontierBlock, D!Runner, D!tree_vars
  <2> QED
    BY <1>6, <2>1
<1>9. CASE /\ UNCHANGED <<func, dom_frontier, dom_tree_succ, dom_tree_L, dom_tree_R>>
           /\ pc \in Early /\ pc' \in Early \cup {"frontier", "crash"}
  BY <1>6, <1>9
<1> QED
  BY <1>5, <1>7, <1>8, <1>9, StepKinds

LEMMA TreesAlways == SpecAnalysis => []Trees
<1>1. InitAnalysis => Trees
  <2> SUFFICES ASSUME InitAnalysis PROVE Trees
    OBVIOUS
  <2>1. func = 0 /\ pc = "idle" /\ dom_tree_succ = [b \in Blocks |-> {}]
    BY DEF InitAnalysis, D!InitDominators
  <2>2. Funcs \subseteq Nat \ {0}
    BY DEF Funcs
  <2>3. \A f \in Funcs : BlocksOf(f) \subseteq Blocks
    <3>1. \A f \in Funcs : basic_blocks[f] = <<>>
      BY DEF InitAnalysis, Init
    <3> QED
      BY <3>1 DEF BlocksOf, ToSet
  <2>4. \A f \in Funcs : ChildlessFor(f)
    BY <2>1, <2>3 DEF ChildlessFor
  <2> QED
    BY <2>1, <2>2, <2>4 DEF Trees
<1>2. Built /\ Built' /\ Placed /\ Searched /\ Linked /\ Fixed /\ Trees /\ [NextAnalysis]_all_vars => Trees'
  <2> SUFFICES ASSUME Built, Built', Placed, Searched, Linked, Fixed, Trees,
                      [NextAnalysis]_all_vars
               PROVE  Trees'
    OBVIOUS
  <2>1. func # 0 => compiled
    BY DEF Placed, Places
  <2>2. CASE dom_vars' = dom_vars /\ (func # 0 => builder_vars' = builder_vars)
    <3>1. UNCHANGED <<pc, func, visited, path, idom, dom_tree_succ, dom_tree_L, dom_tree_R, order>>
      BY <2>2 DEF dom_vars
    <3>2. CASE func = 0
      <4>1. pc = "idle" /\ \A b \in Blocks : dom_tree_succ[b] = {}
        BY <3>2 DEF Trees, Placed, Places
      <4>2. \A f \in Funcs : BlocksOf(f)' \subseteq Blocks
        BY OwnBlocksNext DEF Blocks, Funcs
      <4>3. \A f \in Funcs : ChildlessFor(f)'
        BY <3>1, <4>1, <4>2 DEF ChildlessFor
      <4>4. \A f \in Funcs : ~(f < func) /\ f # func
        BY <3>2 DEF Funcs
      <4> QED
        BY <3>1, <3>2, <4>1, <4>3, <4>4 DEF Trees
    <3>3. CASE func # 0
      <4>1. UNCHANGED <<basic_blocks, succ_bbs, pre_bbs>>
        BY <2>2, <3>3 DEF builder_vars
      <4>2. \A f : /\ Entry(f)' = Entry(f) /\ BlocksOf(f)' = BlocksOf(f) /\ Found(f)' = Found(f)
                   /\ Doms(f)' = Doms(f)
        BY <4>1 DEF Entry, Found, BlocksOf, Doms
      <4>3. \A f : (OrderFor(f)' <=> OrderFor(f)) /\ (ChildlessFor(f)' <=> ChildlessFor(f))
        BY <3>1, <4>1, <4>2 DEF OrderFor, ChildlessFor, Between
      <4>4. PICK e, R, dom : e = Entry(func) /\ R = Found(func) /\ dom = Doms(func)
        OBVIOUS
      <4>5. Entry(func)' = e /\ Found(func)' = R /\ Doms(func)' = dom
        BY <3>1, <4>1, <4>4 DEF Found, Doms, Entry
      <4>6. NumbersOf(e, R, dom) => NumbersOf(e, R, dom)'
        BY <3>1 DEF NumbersOf, Between
      <4> QED
        BY <3>1, <3>3, <4>3, <4>4, <4>5, <4>6 DEF Trees
    <3> QED
      BY <3>2, <3>3
  <2>3. CASE compiled /\ D!NextDominators /\ builder_vars' = builder_vars
    <3>1. Ready
      BY <2>3 DEF Ready, Built
    <3> QED
      BY <2>3, <3>1, TreesStep
  <2> QED
    BY <2>1, <2>2, <2>3, AnalysisStep
<1> QED
  BY BuiltAlways, PlacedAlways, SearchedAlways, LinkedAlways, FixedAlways, <1>1, <1>2, PTL DEF SpecAnalysis

(* The interval numbers of every function analysed so far decide dominance, *)
(* whatever order its tree was visited in.                                  *)
THEOREM NumbersAreDominance == SpecAnalysis => []OrderDecidesDominance
<1>1. Placed /\ Built /\ Trees => OrderDecidesDominance
  <2> SUFFICES ASSUME Placed, Built, Trees,
                      NEW f \in Funcs, f < func \/ (f = func /\ pc = "idle"),
                      NEW a \in DOMAIN Doms(f), NEW b \in DOMAIN Doms(f)
               PROVE  Between(a, b) <=> b \in Doms(f)[a]
    BY DomIs DEF OrderDecidesDominance, D!OrderDecidesDominance, D!OrdersOf, D!is_dominate, Between
  <2>1. Ready
    <3>1. func # 0
      BY DEF Funcs, Placed, D!TypeOK
    <3> QED
      BY <3>1 DEF Placed, Places, Built, Ready
  <2>2. DOMAIN Doms(f) = Found(f)
    BY <2>1, FoundFacts, DomValue DEF Doms, Found
  <2> QED
    BY <2>2 DEF Trees, OrderFor
<1> QED
  BY PlacedAlways, BuiltAlways, TreesAlways, <1>1, PTL
=============================================================================
