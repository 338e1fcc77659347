------------------------------- MODULE LicmProofs -------------------------------
(***************************************************************************)
(* Loop invariant code motion, for every function: edges, branches and phis *)
(* stay in step while preheaders are put in front of the loops; when the    *)
(* pass is over nothing that could be moved is left in a loop; and, if no   *)
(* loop stores what its loads read, the function does what it did before,   *)
(* effect by effect.                                                        *)
(***************************************************************************)
EXTENDS Licm, FlowGraphProofs

-----------------------------------------------------------------------------
(* A function defined by its value at 0 and a step, up to a number.          *)
Repeats(f, v0, n, F, V) ==
    f \in [0 .. n -> V] /\ f[0] = v0 /\ \A k \in 0 .. n - 1 : f[k + 1] = F[<<k, f[k]>>]

LEMMA Steps1 ==
    ASSUME NEW V, NEW v0 \in V, NEW n \in Nat, NEW F, IsStep(F, V)
    PROVE  \E f : Repeats(f, v0, n, F, V)
<1>1. PICK g : Iterates(g, v0, F, V)
  BY Recursion
<1>2. /\ g \in [Nat -> V] /\ g[0] = v0 /\ \A k \in Nat : g[k + 1] = F[<<k, g[k]>>]
  BY <1>1 DEF Iterates
<1> DEFINE f == [k \in 0 .. n |-> g[k]]
<1>3. f \in [0 .. n -> V] /\ f[0] = v0
  BY <1>2
<1>4. \A k \in 0 .. n - 1 : f[k + 1] = F[<<k, f[k]>>]
  BY <1>2
<1> HIDE DEF f
<1> QED
  BY <1>3, <1>4 DEF Repeats

(* The operator the lists are edited with, element by element.               *)
Kept(s, S, w) ==
    /\ w[0] = <<>> /\ without(s, S) = w[Len(s)]
    /\ \A k \in 0 .. Len(s) - 1 :
          w[k + 1] = IF s[k + 1] \in S THEN w[k] ELSE Append(w[k], s[k + 1])

LEMMA WithoutSteps ==
    ASSUME NEW X, NEW s \in Seq(X), NEW S
    PROVE  \E w \in [0 .. Len(s) -> Seq(X)] : Kept(s, S, w)
<1> DEFINE N == Len(s)
           F == [p \in Nat \X Seq(X) |->
                    IF p[1] \in 0 .. N - 1 /\ s[p[1] + 1] \notin S
                    THEN Append(p[2], s[p[1] + 1]) ELSE p[2]]
           E(f, k) == IF k = 0 THEN <<>>
                      ELSE IF s[k] \in S THEN f[k - 1] ELSE Append(f[k - 1], s[k])
           Def(f) == f = [k \in 0 .. N |-> E(f, k)]
           w == CHOOSE f : Def(f)
<1>0. N \in Nat /\ <<>> \in Seq(X) /\ \A k \in 0 .. N - 1 : s[k + 1] \in X
  OBVIOUS
<1>1. F \in [Nat \X Seq(X) -> Seq(X)]
  <2> SUFFICES ASSUME NEW p \in Nat \X Seq(X), p[1] \in 0 .. N - 1
               PROVE  Append(p[2], s[p[1] + 1]) \in Seq(X)
    OBVIOUS
  <2>1. p[2] \in Seq(X) /\ s[p[1] + 1] \in X
    BY <1>0
  <2> QED
    BY <2>1
<1> HIDE DEF N
<1>2. PICK g \in [0 .. N -> Seq(X)] : g[0] = <<>> /\ \A k \in 0 .. N - 1 : g[k + 1] = F[<<k, g[k]>>]
  <2> DEFINE V == Seq(X)
             v0 == <<>>
  <2>1. N \in Nat /\ v0 \in V /\ IsStep(F, V)
    BY <1>0, <1>1 DEF IsStep
  <2> HIDE DEF F, V, v0
  <2>2. PICK f : Repeats(f, v0, N, F, V)
    BY <2>1, Steps1
  <2> QED
    BY <2>2 DEF V, v0, Repeats
<1>3. \A k \in 0 .. N : g[k] = E(g, k)
  <2> SUFFICES ASSUME NEW k \in 0 .. N, k # 0 PROVE g[k] = E(g, k)
    BY <1>2
  <2>1. k - 1 \in 0 .. N - 1 /\ (k - 1) + 1 = k /\ k - 1 \in Nat /\ k - 1 \in 0 .. N
    BY <1>0
  <2>2. g[k] = F[<<k - 1, g[k - 1]>>] /\ g[k - 1] \in Seq(X)
    <3> HIDE DEF F
    <3> QED
      BY <1>2, <2>1
  <2>3. F[<<k - 1, g[k - 1]>>] = IF s[k] \in S THEN g[k - 1] ELSE Append(g[k - 1], s[k])
    BY <2>1, <2>2
  <2> HIDE DEF F
  <2> QED
    BY <2>2, <2>3
<1> HIDE DEF F
<1>4. Def(w)
  <2> HIDE DEF E
  <2>1. g = [k \in 0 .. N |-> g[k]]
    BY <1>2
  <2>2. Def(g)
    BY <1>3, <2>1
  <2> QED
    BY <2>2
<1>5. without(s, S) = w[N]
  BY DEF without, N
<1> HIDE DEF w
<1>6. DOMAIN w = 0 .. N /\ w = [k \in 0 .. N |-> w[k]] /\ \A k \in 0 .. N : w[k] = E(w, k)
  <2> HIDE DEF E
  <2> QED
    BY <1>4
<1>7. w[0] = <<>>
  <2>1. 0 \in 0 .. N
    BY <1>0
  <2> QED
    BY <1>6, <2>1
<1>8. \A k \in 0 .. N - 1 : w[k + 1] = IF s[k + 1] \in S THEN w[k] ELSE Append(w[k], s[k + 1])
  <2> TAKE k \in 0 .. N - 1
  <2>1. k + 1 \in 0 .. N /\ k + 1 # 0 /\ (k + 1) - 1 = k
    BY <1>0
  <2> QED
    BY <1>6, <2>1
<1>9. \A k \in 0 .. N : w[k] \in Seq(X)
  <2> DEFINE T == {k \in Nat : k \in 0 .. N => w[k] \in Seq(X)}
  <2>1. 0 \in T
    BY <1>0, <1>7
  <2>2. ASSUME NEW k \in Nat, k \in T PROVE k + 1 \in T
    <3> SUFFICES ASSUME k + 1 \in 0 .. N PROVE w[k + 1] \in Seq(X)
      OBVIOUS
    <3>1. k \in 0 .. N - 1 /\ k \in 0 .. N
      BY <1>0
    <3>2. w[k] \in Seq(X) /\ s[k + 1] \in X
      BY <1>0, <2>2, <3>1
    <3>3. Append(w[k], s[k + 1]) \in Seq(X)
      BY <3>2
    <3> QED
      BY <1>8, <3>1, <3>2, <3>3
  <2> HIDE DEF T
  <2>3. \A k \in Nat : k \in T
    BY <2>1, <2>2, Induction
  <2> QED
    BY <2>3 DEF T
<1>10. w \in [0 .. N -> Seq(X)]
  BY <1>6, <1>9
<1> HIDE DEF E
<1> QED
  BY <1>5, <1>7, <1>8, <1>10 DEF Kept, N

LEMMA AppendSet ==
    ASSUME NEW X, NEW t \in Seq(X), NEW x \in X
    PROVE  /\ Append(t, x) \in Seq(X) /\ ToSet(Append(t, x)) = ToSet(t) \cup {x}
           /\ x \notin ToSet(t) /\ IsInjective(t) => IsInjective(Append(t, x))
<1>1. /\ Append(t, x) \in Seq(X) /\ DOMAIN Append(t, x) = 1 .. Len(t) + 1 /\ DOMAIN t = 1 .. Len(t)
      /\ Len(t) \in Nat /\ Append(t, x)[Len(t) + 1] = x /\ \A k \in 1 .. Len(t) : Append(t, x)[k] = t[k]
  OBVIOUS
<1> DEFINE u == Append(t, x)
<1> HIDE DEF u
<1>2. ToSet(u) = ToSet(t) \cup {x}
  <2>1. \A k \in 1 .. Len(t) + 1 : k \in 1 .. Len(t) \/ k = Len(t) + 1
    BY <1>1
  <2>2. \A k \in 1 .. Len(t) : k \in 1 .. Len(t) + 1
    BY <1>1
  <2>3. Len(t) + 1 \in 1 .. Len(t) + 1
    BY <1>1
  <2>4. ASSUME NEW y \in ToSet(u) PROVE y \in ToSet(t) \cup {x}
    <3>1. PICK k \in 1 .. Len(t) + 1 : y = u[k]
      BY <1>1 DEF ToSet, u
    <3> QED
      BY <1>1, <2>1, <3>1 DEF ToSet, u
  <2>5. ASSUME NEW y \in ToSet(t) PROVE y \in ToSet(u)
    <3>1. PICK k \in 1 .. Len(t) : y = t[k]
      BY <1>1 DEF ToSet
    <3> QED
      BY <1>1, <2>2, <3>1 DEF ToSet, u
  <2>6. x \in ToSet(u)
    BY <1>1, <2>3 DEF ToSet, u
  <2> QED
    BY <2>4, <2>5, <2>6
<1>3. ASSUME x \notin ToSet(t), IsInjective(t) PROVE IsInjective(u)
  <2> SUFFICES ASSUME NEW j \in 1 .. Len(t) + 1, NEW k \in 1 .. Len(t) + 1, u[j] = u[k] PROVE j = k
    BY <1>1 DEF IsInjective, u
  <2>1. \A i \in 1 .. Len(t) : t[i] # x
    BY <1>1, <1>3 DEF ToSet
  <2>2. (j \in 1 .. Len(t) \/ j = Len(t) + 1) /\ (k \in 1 .. Len(t) \/ k = Len(t) + 1)
    BY <1>1
  <2>3. j \in 1 .. Len(t) /\ k \in 1 .. Len(t) => j = k
    BY <1>1, <1>3 DEF IsInjective, u
  <2> QED
    BY <1>1, <2>1, <2>2, <2>3 DEF u
<1> QED
  BY <1>1, <1>2, <1>3 DEF u

(* What is left are the other elements, each as often as before.             *)
LEMMA WithoutFacts ==
    ASSUME NEW X, NEW s \in Seq(X), NEW S
    PROVE  /\ without(s, S) \in Seq(X) /\ ToSet(without(s, S)) = ToSet(s) \ S
           /\ IsInjective(s) => IsInjective(without(s, S))
<1>1. PICK w \in [0 .. Len(s) -> Seq(X)] : Kept(s, S, w)
  BY WithoutSteps
<1> DEFINE N == Len(s)
           P(k) == /\ ToSet(w[k]) = {s[j] : j \in 1 .. k} \ S
                   /\ IsInjective(s) => IsInjective(w[k])
           T == {k \in Nat : k \in 0 .. N => P(k)}
<1>2. /\ N \in Nat /\ \A k \in 0 .. N - 1 : s[k + 1] \in X /\ k \in 0 .. N
      /\ DOMAIN s = 1 .. N
  OBVIOUS
<1> HIDE DEF N
<1>3. 0 \in T
  <2>1. w[0] = <<>> /\ ToSet(<<>>) = {} /\ IsInjective(<<>>) /\ {s[j] : j \in 1 .. 0} = {}
    BY <1>1 DEF Kept, ToSet, IsInjective
  <2> QED
    BY <2>1
<1>4. ASSUME NEW k \in Nat, k \in T PROVE k + 1 \in T
  <2> SUFFICES ASSUME k + 1 \in 0 .. N PROVE P(k + 1)
    OBVIOUS
  <2>1. k \in 0 .. N - 1 /\ k \in 0 .. N /\ s[k + 1] \in X /\ k + 1 \in DOMAIN s
    BY <1>2
  <2>2. w[k] \in Seq(X) /\ ToSet(w[k]) = {s[j] : j \in 1 .. k} \ S /\ (IsInjective(s) => IsInjective(w[k]))
    BY <1>1, <1>4, <2>1 DEF N
  <2>3. w[k + 1] = IF s[k + 1] \in S THEN w[k] ELSE Append(w[k], s[k + 1])
    BY <1>1, <2>1 DEF Kept, N
  <2>4. {s[j] : j \in 1 .. k + 1} = {s[j] : j \in 1 .. k} \cup {s[k + 1]}
    <3>1. \A j \in 1 .. k + 1 : j \in 1 .. k \/ j = k + 1
      OBVIOUS
    <3>2. \A j \in 1 .. k : j \in 1 .. k + 1
      OBVIOUS
    <3>3. k + 1 \in 1 .. k + 1
      OBVIOUS
    <3> QED
      BY <3>1, <3>2, <3>3
  <2>5. CASE s[k + 1] \in S
    BY <2>2, <2>3, <2>4, <2>5
  <2>6. CASE s[k + 1] \notin S
    <3>1. w[k + 1] = Append(w[k], s[k + 1])
      BY <2>3, <2>6
    <3>2. ToSet(w[k + 1]) = ToSet(w[k]) \cup {s[k + 1]}
      BY <2>1, <2>2, <3>1, AppendSet
    <3>3. ToSet(w[k + 1]) = {s[j] : j \in 1 .. k + 1} \ S
      BY <2>2, <2>4, <2>6, <3>2
    <3>4. IsInjective(s) => IsInjective(w[k + 1])
      <4> SUFFICES ASSUME IsInjective(s) PROVE s[k + 1] \notin ToSet(w[k])
        BY <2>1, <2>2, <3>1, AppendSet
      <4> SUFFICES ASSUME NEW j \in 1 .. k, s[k + 1] = s[j] PROVE FALSE
        BY <2>2
      <4>1. j \in DOMAIN s /\ j # k + 1
        BY <1>2, <2>1
      <4> QED
        BY <2>1, <4>1 DEF IsInjective
    <3> QED
      BY <3>3, <3>4
  <2> QED
    BY <2>5, <2>6
<1> HIDE DEF T
<1>5. N \in T
  BY <1>2, <1>3, <1>4, Induction
<1>6. w[N] \in Seq(X) /\ P(N)
  BY <1>1, <1>2, <1>5 DEF T, N
<1>7. without(s, S) = w[N] /\ ToSet(s) = {s[j] : j \in 1 .. N}
  BY <1>1, <1>2 DEF Kept, N, ToSet
<1> QED
  BY <1>6, <1>7

-----------------------------------------------------------------------------
(* The pairs of a phi.                                                      *)
LEMMA RemoveAtValue ==
    ASSUME NEW X, NEW s \in Seq(X), NEW k \in DOMAIN s
    PROVE  /\ RemoveAt(s, k) \in Seq(X) /\ Len(RemoveAt(s, k)) = Len(s) - 1
           /\ \A j \in 1 .. Len(s) - 1 : RemoveAt(s, k)[j] = IF j < k THEN s[j] ELSE s[j + 1]
<1> DEFINE a == SubSeq(s, 1, k - 1)
           b == SubSeq(s, k + 1, Len(s))
<1>1. /\ a \in Seq(X) /\ Len(a) = k - 1 /\ \A j \in 1 .. k - 1 : a[j] = s[j]
      /\ k \in 1 .. Len(s) /\ Len(s) \in Nat
  OBVIOUS
<1>2. b \in Seq(X) /\ Len(b) = Len(s) - k /\ \A j \in 1 .. Len(s) - k : b[j] = s[j + k]
  OBVIOUS
<1>3. RemoveAt(s, k) = a \o b
  BY DEF RemoveAt
<1> HIDE DEF a, b
<1>4. a \o b \in Seq(X) /\ Len(a \o b) = Len(s) - 1
  BY <1>1, <1>2
<1>5. \A j \in 1 .. Len(s) - 1 : (a \o b)[j] = IF j < k THEN s[j] ELSE s[j + 1]
  <2> TAKE j \in 1 .. Len(s) - 1
  <2>1. (a \o b)[j] = IF j <= Len(a) THEN a[j] ELSE b[j - Len(a)]
    BY <1>1, <1>2
  <2>2. CASE j < k
    BY <1>1, <2>1, <2>2
  <2>3. CASE ~ j < k
    <3>1. j - (k - 1) \in 1 .. Len(s) - k /\ (j - (k - 1)) + k = j + 1
      BY <1>1, <2>3
    <3>2. b[j - (k - 1)] = s[j + 1]
      BY <1>2, <3>1
    <3>3. Len(a) = k - 1 /\ ~ j <= Len(a)
      BY <1>1, <2>3
    <3> QED
      BY <2>1, <2>3, <3>2, <3>3
  <2> QED
    BY <2>2, <2>3
<1> QED
  BY <1>3, <1>4, <1>5

Unique(s) == \A i, j \in DOMAIN s : s[i][2] = s[j][2] => i = j
Seconds(s) == {a[2] : a \in ToSet(s)}

(* The first pair that is not of a latch goes, and one of the preheader p    *)
(* comes instead.                                                           *)
IsPairs(s, V, B) == s \in Seq(V \X B) /\ Unique(s)
Moved(s, k, p)   == Append(RemoveAt(s, k), <<s[k][1], p>>)

LEMMA RetargetFacts ==
    ASSUME NEW V, NEW B, NEW s, IsPairs(s, V, B), NEW k \in DOMAIN s, NEW p \in B, p \notin Seconds(s)
    PROVE  LET t == Moved(s, k, p)
           IN  /\ IsPairs(t, V, B)
               /\ ToSet(t) = (ToSet(s) \ {s[k]}) \cup {<<s[k][1], p>>}
               /\ Seconds(t) = (Seconds(s) \ {s[k][2]}) \cup {p}
<1> DEFINE r == RemoveAt(s, k)
           t == Append(r, <<s[k][1], p>>)
           N == Len(s)
<1> USE DEF IsPairs
<1>0. t = Moved(s, k, p)
  BY DEF Moved
<1>1. /\ N \in Nat /\ DOMAIN s = 1 .. N /\ k \in 1 .. N
      /\ \A j \in 1 .. N : s[j] \in V \X B
  OBVIOUS
<1>2. /\ r \in Seq(V \X B) /\ Len(r) = N - 1 /\ DOMAIN r = 1 .. N - 1
      /\ \A j \in 1 .. N - 1 : r[j] = IF j < k THEN s[j] ELSE s[j + 1]
  <2>1. /\ r \in Seq(V \X B) /\ Len(r) = N - 1
        /\ \A j \in 1 .. N - 1 : r[j] = IF j < k THEN s[j] ELSE s[j + 1]
    BY RemoveAtValue
  <2> HIDE DEF r, N
  <2> QED
    BY <2>1
<1>3. <<s[k][1], p>> \in V \X B
  BY <1>1
<1>4. /\ t \in Seq(V \X B) /\ DOMAIN t = 1 .. N /\ t[N] = <<s[k][1], p>>
      /\ \A j \in 1 .. N - 1 : t[j] = IF j < k THEN s[j] ELSE s[j + 1]
  <2> DEFINE W == V \X B
             x == <<s[k][1], p>>
  <2>1. r \in Seq(W) /\ Len(r) = N - 1 /\ x \in W /\ N \in Nat /\ N # 0
    BY <1>1, <1>2, <1>3
  <2> HIDE DEF r, N, W, x
  <2>2. /\ Append(r, x) \in Seq(W) /\ DOMAIN Append(r, x) = 1 .. N /\ Append(r, x)[N] = x
        /\ \A j \in 1 .. N - 1 : Append(r, x)[j] = r[j]
    BY <2>1
  <2> QED
    BY <1>2, <2>2 DEF W, x
<1> HIDE DEF r, t, N
<1> DEFINE old(j) == IF j < k THEN j ELSE j + 1
<1>5. /\ \A j \in 1 .. N - 1 : old(j) \in 1 .. N /\ old(j) # k /\ t[j] = s[old(j)]
      /\ \A i, j \in 1 .. N - 1 : old(i) = old(j) => i = j
      /\ \A i \in 1 .. N : i # k => \E j \in 1 .. N - 1 : old(j) = i
  <2>1. \A j \in 1 .. N - 1 : old(j) \in 1 .. N /\ old(j) # k /\ t[j] = s[old(j)]
    BY <1>1, <1>4
  <2>2. \A i, j \in 1 .. N - 1 : old(i) = old(j) => i = j
    BY <1>1
  <2>3. ASSUME NEW i \in 1 .. N, i # k PROVE \E j \in 1 .. N - 1 : old(j) = i
    <3>1. CASE i < k
      <4>1. i \in 1 .. N - 1 /\ old(i) = i
        BY <1>1, <3>1
      <4> QED
        BY <4>1
    <3>2. CASE ~ i < k
      <4>1. i - 1 \in 1 .. N - 1 /\ old(i - 1) = i
        BY <1>1, <2>3, <3>2
      <4> QED
        BY <4>1
    <3> QED
      BY <3>1, <3>2
  <2> QED
    BY <2>1, <2>2, <2>3
<1>6. \A i \in 1 .. N : s[i][2] \in Seconds(s) /\ s[i] \in ToSet(s) /\ (s[i][2] = s[k][2] => i = k)
  BY <1>1 DEF Seconds, ToSet, Unique
<1>7. \A j \in 1 .. N : j = N \/ j \in 1 .. N - 1
  BY <1>1
<1>8. N \in 1 .. N /\ \A j \in 1 .. N - 1 : j \in 1 .. N
  BY <1>1
<1> HIDE DEF old
<1>9. ToSet(t) = (ToSet(s) \ {s[k]}) \cup {<<s[k][1], p>>}
  <2>1. ASSUME NEW x \in ToSet(t) PROVE x \in (ToSet(s) \ {s[k]}) \cup {<<s[k][1], p>>}
    <3>1. PICK j \in 1 .. N : x = t[j]
      BY <1>4 DEF ToSet
    <3>2. CASE j = N
      BY <1>4, <3>1, <3>2
    <3>3. CASE j \in 1 .. N - 1
      BY <1>5, <1>6, <3>1, <3>3
    <3> QED
      BY <1>7, <3>2, <3>3
  <2>2. ASSUME NEW x \in ToSet(s), x # s[k] PROVE x \in ToSet(t)
    <3>1. PICK i \in 1 .. N : x = s[i]
      BY <1>1 DEF ToSet
    <3>2. PICK j \in 1 .. N - 1 : old(j) = i
      BY <1>5, <2>2, <3>1
    <3> QED
      BY <1>4, <1>5, <1>8, <3>1, <3>2 DEF ToSet
  <2>3. <<s[k][1], p>> \in ToSet(t)
    BY <1>4, <1>8 DEF ToSet
  <2> QED
    BY <2>1, <2>2, <2>3
<1>10. Unique(t)
  <2> SUFFICES ASSUME NEW i \in 1 .. N, NEW j \in 1 .. N, t[i][2] = t[j][2] PROVE i = j
    BY <1>4 DEF Unique
  <2>1. \A j1 \in 1 .. N - 1 : t[j1][2] # p
    BY <1>5, <1>6
  <2>2. t[N][2] = p
    BY <1>4
  <2>3. CASE i \in 1 .. N - 1 /\ j \in 1 .. N - 1
    <3>1. s[old(i)][2] = s[old(j)][2] /\ old(i) \in 1 .. N /\ old(j) \in 1 .. N
      BY <1>5, <2>3
    <3>2. old(i) = old(j)
      BY <1>1, <3>1 DEF Unique
    <3> QED
      BY <1>5, <2>3, <3>2
  <2> QED
    BY <1>7, <2>1, <2>2, <2>3
<1>11. Seconds(t) = (Seconds(s) \ {s[k][2]}) \cup {p}
  <2>1. \A x \in ToSet(s) : x # s[k] => x[2] # s[k][2]
    BY <1>1, <1>6 DEF ToSet
  <2>2. s[k] \in ToSet(s)
    BY <1>1 DEF ToSet
  <2>3. <<s[k][1], p>>[2] = p
    OBVIOUS
  <2> DEFINE x == <<s[k][1], p>>
             y == s[k]
  <2>4. ToSet(t) = (ToSet(s) \ {y}) \cup {x} /\ x[2] = p
    BY <1>9, <2>3
  <2>5. (\A z \in ToSet(s) : z # y => z[2] # y[2]) /\ y \in ToSet(s)
    BY <2>1, <2>2
  <2> HIDE DEF x, y
  <2>6. Seconds(t) = (Seconds(s) \ {y[2]}) \cup {p}
    BY <2>4, <2>5 DEF Seconds
  <2> QED
    BY <2>6 DEF y
<1> QED
  BY <1>0, <1>4, <1>9, <1>10, <1>11 DEF r, t

(* As many pairs as predecessors.                                           *)
LEMMA SameLength ==
    ASSUME NEW X, NEW Y, NEW s \in Seq(X), NEW t \in Seq(Y), Unique(s), IsInjective(t),
           Seconds(s) = ToSet(t)
    PROVE  Len(s) = Len(t)
<1> DEFINE f == [i \in 1 .. Len(s) |-> s[i][2]]
           g == [i \in 1 .. Len(t) |-> t[i]]
           T == ToSet(t)
<1>1. /\ Len(s) \in Nat /\ Len(t) \in Nat /\ DOMAIN s = 1 .. Len(s) /\ DOMAIN t = 1 .. Len(t)
  OBVIOUS
<1>2. f \in Bijection(1 .. Len(s), T)
  <2>1. T = {s[i][2] : i \in 1 .. Len(s)}
    BY <1>1 DEF Seconds, ToSet
  <2>2. f \in [1 .. Len(s) -> T]
    BY <2>1
  <2>3. \A i, j \in 1 .. Len(s) : f[i] = f[j] => i = j
    BY <1>1 DEF Unique
  <2>4. \A y \in T : \E i \in 1 .. Len(s) : f[i] = y
    BY <2>1
  <2> HIDE DEF f, T
  <2> QED
    BY <2>2, <2>3, <2>4 DEF Bijection, Injection, Surjection, IsInjective
<1>3. g \in Bijection(1 .. Len(t), T)
  <2>1. T = {t[i] : i \in 1 .. Len(t)}
    BY <1>1 DEF ToSet
  <2>2. g \in [1 .. Len(t) -> T]
    BY <2>1
  <2>3. \A i, j \in 1 .. Len(t) : g[i] = g[j] => i = j
    BY <1>1 DEF IsInjective
  <2>4. \A y \in T : \E i \in 1 .. Len(t) : g[i] = y
    BY <2>1
  <2> HIDE DEF g, T
  <2> QED
    BY <2>2, <2>3, <2>4 DEF Bijection, Injection, Surjection, IsInjective
<1> HIDE DEF f, g, T
<1>4. /\ IsFiniteSet(1 .. Len(s)) /\ Cardinality(1 .. Len(s)) = Len(s)
      /\ IsFiniteSet(1 .. Len(t)) /\ Cardinality(1 .. Len(t)) = Len(t)
  <2>1. \A n \in Nat : IsFiniteSet(1 .. n) /\ Cardinality(1 .. n) = n
    <3> TAKE n \in Nat
    <3>1. 1 \in Int /\ n \in Int
      OBVIOUS
    <3>2. IsFiniteSet(1 .. n) /\ Cardinality(1 .. n) = IF 1 > n THEN 0 ELSE n - 1 + 1
      BY <3>1, FS_Interval
    <3> QED
      BY <3>2
  <2> QED
    BY <1>1, <2>1
<1>5. Cardinality(T) = Len(s) /\ Cardinality(T) = Len(t)
  BY <1>2, <1>3, <1>4, FS_Bijection DEF ExistsBijection
<1> QED
  BY <1>5

-----------------------------------------------------------------------------
(* The loops of a function and the block each is entered from.               *)
IsLoopGraph(g) == IsFlowGraph(g, 1) /\ All(g, 1) = DOMAIN g /\ EnteredOnce(g)

Natural(g, h) == NaturalLoop(g, 1, h)
IsEntry(g, h, e) ==
    /\ e \in DOMAIN g /\ g[e] = <<h>> /\ e \notin DominatedBy(g, 1)[h]
    /\ \A b \in DOMAIN g \ {e} : h \in ToSet(g[b]) => b \in DominatedBy(g, 1)[h]
Entry(g, h)    == CHOOSE e \in DOMAIN g : IsEntry(g, h, e)
Nested(g, h)   == {l \in Headers(g) : l \in Natural(g, h)}
Around(g, h)   == {l \in Headers(g) \ {h} : h \in Natural(g, l)}
Parent(g, h)   == IF Around(g, h) = {} THEN NoLoop
                  ELSE CHOOSE l \in Around(g, h) : \A m \in Around(g, h) : l \in Nested(g, m)

LEMMA HeaderFacts ==
    ASSUME NEW g, IsLoopGraph(g), NEW h \in Headers(g)
    PROVE  /\ h \in All(g, 1) /\ h \in DOMAIN g
           /\ h \in Natural(g, h) /\ Natural(g, h) \subseteq DominatedBy(g, 1)[h] /\ Natural(g, h) \subseteq DOMAIN g
           /\ Latches(g, 1, h) \subseteq Natural(g, h)
           /\ \A b \in Natural(g, h) \ {h} : \A p \in DOMAIN g : b \in ToSet(g[p]) => p \in Natural(g, h)
<1>1. h \in All(g, 1)
  BY DomValue DEF Headers, IsLoopGraph
<1>2. /\ h \in Natural(g, h) /\ Natural(g, h) \subseteq DominatedBy(g, 1)[h]
      /\ Latches(g, 1, h) \subseteq Natural(g, h)
      /\ \A b \in Natural(g, h) \ {h} : \A p \in All(g, 1) : b \in ToSet(g[p]) => p \in Natural(g, h)
  BY <1>1, NaturalValue DEF Natural, IsLoopGraph
<1>3. DominatedBy(g, 1)[h] \subseteq DOMAIN g
  BY <1>1, DomValue DEF IsLoopGraph
<1> QED
  BY <1>1, <1>2, <1>3 DEF IsLoopGraph

LEMMA EntryFacts ==
    ASSUME NEW g, IsLoopGraph(g), NEW h \in Headers(g)
    PROVE  LET e == Entry(g, h)
           IN  /\ e \in DOMAIN g /\ g[e] = <<h>> /\ ToSet(g[e]) = {h}
               /\ e \notin DominatedBy(g, 1)[h] /\ e \notin Natural(g, h) /\ e \notin Latches(g, 1, h)
               /\ \A b \in DOMAIN g : h \in ToSet(g[b]) => b = e \/ b \in Latches(g, 1, h)
<1>1. \E e \in DOMAIN g : IsEntry(g, h, e)
  BY DEF IsLoopGraph, EnteredOnce, IsEntry
<1> DEFINE e == Entry(g, h)
<1>2. IsEntry(g, h, e)
  BY <1>1 DEF Entry
<1> HIDE DEF e
<1>3. ToSet(<<h>>) = {h}
  BY DEF ToSet
<1>4. e \notin Natural(g, h)
  BY <1>2, HeaderFacts DEF IsEntry
<1> QED
  BY <1>2, <1>3, <1>4 DEF IsEntry, Latches, e

LEMMA NestedInside ==
    ASSUME NEW g, IsLoopGraph(g), NEW h \in Headers(g), NEW l \in Headers(g), l \in Natural(g, h)
    PROVE  Natural(g, l) \subseteq Natural(g, h)
<1> SUFFICES ASSUME l # h PROVE Natural(g, l) \subseteq Natural(g, h)
  OBVIOUS
<1>1. l \in All(g, 1) /\ h \in All(g, 1) /\ l \in DominatedBy(g, 1)[h] /\ l \in Natural(g, l)
  BY HeaderFacts
<1>2. h \notin DominatedBy(g, 1)[l]
  BY <1>1, DomAntisymmetric DEF IsLoopGraph
<1> QED
  BY <1>1, <1>2, NaturalNested DEF IsLoopGraph, Natural

LEMMA Overlap ==
    ASSUME NEW g, IsLoopGraph(g), NEW h \in Headers(g), NEW l \in Headers(g),
           NEW b \in Natural(g, h), b \in Natural(g, l)
    PROVE  l \in Natural(g, h) \/ h \in Natural(g, l)
<1>1. l \in All(g, 1) /\ h \in All(g, 1) /\ h \in Natural(g, h) /\ l \in Natural(g, l)
  BY HeaderFacts
<1>2. CASE h \notin DominatedBy(g, 1)[l]
  BY <1>1, <1>2, NaturalNested DEF IsLoopGraph, Natural
<1>3. CASE l \notin DominatedBy(g, 1)[h]
  BY <1>1, <1>3, NaturalNested DEF IsLoopGraph, Natural
<1>4. CASE h \in DominatedBy(g, 1)[l] /\ l \in DominatedBy(g, 1)[h]
  BY <1>1, <1>4, DomAntisymmetric DEF IsLoopGraph
<1> QED
  BY <1>2, <1>3, <1>4

(* The loops around a loop lie inside one another, so one of them is the     *)
(* innermost.                                                               *)
LEMMA ParentFacts ==
    ASSUME NEW g, IsLoopGraph(g), NEW h \in Headers(g), NEW a \in Around(g, h)
    PROVE  Parent(g, h) \in Around(g, h) /\ Parent(g, h) \in Nested(g, a)
<1> DEFINE card(l) == Cardinality(DominatedBy(g, 1)[l])
           T == {n \in Nat : \E l \in Around(g, h) : n = card(l)}
<1>1. \A l \in Headers(g) : l \in All(g, 1) /\ card(l) \in Nat
  BY HeaderFacts, DomFinite DEF IsLoopGraph
<1>2. T \in SUBSET Nat /\ T # {}
  BY <1>1 DEF Around
<1> HIDE DEF card
<1>3. PICK n \in T : \A m \in T : n <= m
  <2> HIDE DEF T
  <2> QED
    BY <1>2, LeastNumber
<1>4. PICK l \in Around(g, h) : n = card(l)
  BY <1>3
<1>5. \A m \in Around(g, h) : card(l) <= card(m)
  BY <1>1, <1>3, <1>4 DEF Around
<1>6. ASSUME NEW m \in Around(g, h) PROVE l \in Nested(g, m)
  <2>1. /\ l \in Headers(g) /\ m \in Headers(g) /\ h \in Natural(g, l) /\ h \in Natural(g, m)
        /\ l \in All(g, 1) /\ m \in All(g, 1)
    BY <1>1 DEF Around
  <2>2. h \in DominatedBy(g, 1)[l] /\ h \in DominatedBy(g, 1)[m]
    BY <2>1, HeaderFacts
  <2> SUFFICES ASSUME l # m PROVE l \in Natural(g, m)
    BY <2>1, HeaderFacts DEF Nested
  <2>3. m \notin DominatedBy(g, 1)[l]
    <3> SUFFICES ASSUME m \in DominatedBy(g, 1)[l] PROVE FALSE
      OBVIOUS
    <3>1. card(m) < card(l)
      BY <2>1, DomSmaller DEF IsLoopGraph, card
    <3> QED
      BY <1>1, <1>5, <2>1, <3>1
  <2>4. Natural(g, l) \subseteq Natural(g, m)
    BY <2>1, <2>3, NaturalNested DEF IsLoopGraph, Natural
  <2> QED
    BY <2>1, <2>4, HeaderFacts
<1>7. \E k \in Around(g, h) : \A m \in Around(g, h) : k \in Nested(g, m)
  BY <1>6
<1>8. Parent(g, h) \in Around(g, h) /\ \A m \in Around(g, h) : Parent(g, h) \in Nested(g, m)
  BY <1>7 DEF Parent
<1> QED
  BY <1>8

-----------------------------------------------------------------------------
(* The graph with a preheader P[h] on the entering edge of every loop of R.  *)
Divided(g, n, R, P) ==
    /\ R \subseteq Headers(g) /\ IsFiniteSet(DOMAIN n) /\ 0 \notin DOMAIN n
    /\ DOMAIN g \subseteq DOMAIN n
    /\ \A h \in R : /\ P[h] \in DOMAIN n \ DOMAIN g
                    /\ ToSet(n[Entry(g, h)]) = {P[h]} /\ ToSet(n[P[h]]) = {h}
    /\ \A h, l \in R : P[h] = P[l] => h = l
    /\ \A b \in DOMAIN g : (\A h \in R : b # Entry(g, h)) => ToSet(n[b]) = ToSet(g[b])
    /\ \A b \in DOMAIN n \ DOMAIN g : (\A h \in R : b # P[h]) => ToSet(n[b]) = {}

LEMMA DividedGraph ==
    ASSUME NEW g, IsLoopGraph(g), NEW n, NEW R, NEW P, Divided(g, n, R, P)
    PROVE  /\ IsFlowGraph(n, 1)
           /\ \A b \in DOMAIN n : \/ b \in DOMAIN g /\ (\A h \in R : b # Entry(g, h)) /\ ToSet(n[b]) = ToSet(g[b])
                                  \/ b \in DOMAIN g /\ \E h \in R : b = Entry(g, h) /\ ToSet(n[b]) = {P[h]}
                                  \/ b \notin DOMAIN g /\ \E h \in R : b = P[h] /\ ToSet(n[b]) = {h}
                                  \/ b \notin DOMAIN g /\ ToSet(n[b]) = {}
<1>1. ASSUME NEW b \in DOMAIN n
      PROVE  \/ b \in DOMAIN g /\ (\A h \in R : b # Entry(g, h)) /\ ToSet(n[b]) = ToSet(g[b])
             \/ b \in DOMAIN g /\ \E h \in R : b = Entry(g, h) /\ ToSet(n[b]) = {P[h]}
             \/ b \notin DOMAIN g /\ \E h \in R : b = P[h] /\ ToSet(n[b]) = {h}
             \/ b \notin DOMAIN g /\ ToSet(n[b]) = {}
  BY DEF Divided
<1>2. \A h \in R : h \in DOMAIN g
  BY HeaderFacts DEF Divided
<1>3. \A b \in DOMAIN g : ToSet(g[b]) \subseteq DOMAIN g
  BY DEF IsLoopGraph, IsFlowGraph, IsGraph
<1>4. ASSUME NEW b \in DOMAIN n PROVE ToSet(n[b]) \subseteq DOMAIN n
  BY <1>1, <1>2, <1>3 DEF Divided
<1>5. 1 \in DOMAIN n /\ 0 \notin DOMAIN n /\ IsFiniteSet(DOMAIN n)
  BY DEF Divided, IsLoopGraph, IsFlowGraph
<1> QED
  BY <1>1, <1>4, <1>5 DEF IsFlowGraph, IsGraph

(* What can be reached without passing a block of the function stays so.     *)
LEMMA DividedReach ==
    ASSUME NEW g, IsLoopGraph(g), NEW n, NEW R, NEW P, Divided(g, n, R, P),
           NEW a, a \in DOMAIN g \/ a = 0
    PROVE  Reach(n, 1, a) = Reach(g, 1, a) \cup {P[h] : h \in {h \in R : Entry(g, h) \in Reach(g, 1, a)}}
<1> DEFINE old == Reach(g, 1, a)
           new == Reach(n, 1, a)
           C == old \cup {P[h] : h \in {h \in R : Entry(g, h) \in old}}
<1>1. /\ IsFlowGraph(n, 1) /\ IsFlowGraph(g, 1) /\ IsGraph(g) /\ IsGraph(n)
      /\ 1 \in DOMAIN g /\ 1 \in DOMAIN n
  BY DividedGraph DEF IsLoopGraph, IsFlowGraph
<1>2. /\ 1 = a \/ 1 \in old
      /\ \A x \in old : \A y \in ToSet(g[x]) : y = a \/ y \in old
      /\ old \subseteq DOMAIN g \ {a}
  BY <1>1, ReachIn, ReachClosed DEF Closed
<1>3. /\ 1 = a \/ 1 \in new
      /\ \A x \in new : \A y \in ToSet(n[x]) : y = a \/ y \in new
      /\ new \subseteq DOMAIN n \ {a}
  BY <1>1, ReachIn, ReachClosed DEF Closed
<1> HIDE DEF old, new
<1>4. \A h \in R : /\ Entry(g, h) \in DOMAIN g /\ ToSet(g[Entry(g, h)]) = {h} /\ ToSet(n[Entry(g, h)]) = {P[h]}
                   /\ P[h] \notin DOMAIN g /\ P[h] # a /\ P[h] \in DOMAIN n /\ ToSet(n[P[h]]) = {h}
                   /\ h \in DOMAIN g
  BY EntryFacts, HeaderFacts DEF Divided
<1>5. \A h, l \in R : (P[h] = P[l] \/ Entry(g, h) = Entry(g, l)) => h = l
  <2>1. \A h, l \in R : P[h] = P[l] => h = l
    BY DEF Divided
  <2>2. ASSUME NEW h \in R, NEW l \in R, Entry(g, h) = Entry(g, l) PROVE h = l
    <3>1. ToSet(g[Entry(g, h)]) = {h} /\ ToSet(g[Entry(g, l)]) = {l}
      BY <1>4
    <3> QED
      BY <2>2, <3>1
  <2> QED
    BY <2>1, <2>2
<1>6. \A b \in DOMAIN g : (\A h \in R : b # Entry(g, h)) => ToSet(n[b]) = ToSet(g[b])
  BY DEF Divided
<1>7. ASSUME NEW x \in C, NEW y \in ToSet(n[x]) PROVE y = a \/ y \in C
  <2>1. CASE x \in old /\ \A h \in R : x # Entry(g, h)
    BY <1>2, <1>6, <1>7, <2>1
  <2>2. CASE x \in old /\ \E h \in R : x = Entry(g, h)
    BY <1>4, <1>7, <2>2
  <2>3. CASE x \notin old
    <3>1. PICK h \in R : Entry(g, h) \in old /\ x = P[h]
      BY <1>7, <2>3
    <3>2. y = h /\ h \in ToSet(g[Entry(g, h)])
      BY <1>4, <1>7, <3>1
    <3> QED
      BY <1>2, <3>1, <3>2
  <2> QED
    BY <2>1, <2>2, <2>3
<1>8. new \subseteq C
  <2>1. Closed(n, a, C) /\ (1 = a \/ 1 \in C)
    BY <1>2, <1>7 DEF Closed
  <2> HIDE DEF C
  <2> QED
    BY <1>1, <2>1, ReachLeast DEF new
<1>9. ASSUME NEW h \in R, Entry(g, h) \in new PROVE P[h] \in new /\ (h = a \/ h \in new)
  BY <1>3, <1>4, <1>9
<1>10. old \subseteq new
  <2>1. ASSUME NEW x \in new \cap DOMAIN g, NEW y \in ToSet(g[x]) PROVE y = a \/ y \in new \cap DOMAIN g
    <3>1. y \in DOMAIN g
      BY <1>1 DEF IsGraph
    <3>2. CASE \A h \in R : x # Entry(g, h)
      BY <1>3, <1>6, <2>1, <3>1, <3>2
    <3>3. CASE \E h \in R : x = Entry(g, h)
      BY <1>4, <1>9, <2>1, <3>1, <3>3
    <3> QED
      BY <3>2, <3>3
  <2>2. Closed(g, a, new \cap DOMAIN g) /\ (1 = a \/ 1 \in new \cap DOMAIN g)
    BY <1>1, <1>3, <2>1 DEF Closed
  <2>3. old \subseteq new \cap DOMAIN g
    BY <1>1, <2>2, ReachLeast DEF old
  <2> QED
    BY <2>3
<1>11. C \subseteq new
  BY <1>9, <1>10
<1> QED
  BY <1>8, <1>11 DEF old, new

LEMMA DividedDom ==
    ASSUME NEW g, IsLoopGraph(g), NEW n, NEW R, NEW P, Divided(g, n, R, P), NEW a \in DOMAIN g
    PROVE  /\ All(n, 1) = DOMAIN g \cup {P[h] : h \in R}
           /\ DominatedBy(n, 1)[a] = DominatedBy(g, 1)[a]
                 \cup {P[h] : h \in {h \in R : Entry(g, h) \in DominatedBy(g, 1)[a]}}
<1>1. IsFlowGraph(n, 1) /\ IsFlowGraph(g, 1) /\ All(g, 1) = DOMAIN g
  BY DividedGraph DEF IsLoopGraph
<1>2. \A h \in R : Entry(g, h) \in DOMAIN g /\ P[h] \notin DOMAIN g
  BY EntryFacts DEF Divided
<1>3. All(n, 1) = DOMAIN g \cup {P[h] : h \in R}
  <2>1. Reach(n, 1, 0) = Reach(g, 1, 0) \cup {P[h] : h \in {h \in R : Entry(g, h) \in Reach(g, 1, 0)}}
    BY DividedReach
  <2> QED
    BY <1>1, <1>2, <2>1 DEF All
<1>4. Reach(n, 1, a) = Reach(g, 1, a) \cup {P[h] : h \in {h \in R : Entry(g, h) \in Reach(g, 1, a)}}
  BY DividedReach
<1>5. DominatedBy(n, 1)[a] = All(n, 1) \ Reach(n, 1, a) /\ DominatedBy(g, 1)[a] = DOMAIN g \ Reach(g, 1, a)
  BY <1>1, <1>3, DomValue
<1>6. Reach(g, 1, a) \subseteq DOMAIN g
  BY <1>1, ReachIn DEF IsFlowGraph
<1>7. \A h, l \in R : P[h] = P[l] => h = l
  BY DEF Divided
<1> DEFINE old == Reach(g, 1, a)
           new == Reach(n, 1, a)
<1> HIDE DEF old, new
<1>8. All(n, 1) \ new = (DOMAIN g \ old) \cup {P[h] : h \in {h \in R : Entry(g, h) \in DOMAIN g \ old}}
  <2>1. new = old \cup {P[h] : h \in {h \in R : Entry(g, h) \in old}} /\ old \subseteq DOMAIN g
    BY <1>4, <1>6 DEF old, new
  <2> QED
    BY <1>2, <1>3, <1>7, <2>1
<1> QED
  BY <1>3, <1>5, <1>8 DEF old, new

(* A loop of the new graph has the preheaders of the loops inside it, and    *)
(* not its own.                                                             *)
LEMMA DividedLoop ==
    ASSUME NEW g, IsLoopGraph(g), NEW n, NEW R, NEW P, Divided(g, n, R, P), NEW h \in Headers(g)
    PROVE  Natural(n, h) = Natural(g, h) \cup {P[l] : l \in {l \in R : l \in Natural(g, h) \ {h}}}
<1> DEFINE old == Natural(g, h)
           new == Natural(n, h)
           C == old \cup {P[l] : l \in {l \in R : l \in old \ {h}}}
<1>1. /\ IsFlowGraph(n, 1) /\ IsFlowGraph(g, 1) /\ All(g, 1) = DOMAIN g /\ h \in DOMAIN g
      /\ All(n, 1) = DOMAIN g \cup {P[l] : l \in R} /\ h \in All(n, 1)
  BY DividedGraph, DividedDom, HeaderFacts DEF IsLoopGraph
<1>2. \A l \in R : /\ l \in Headers(g) /\ Entry(g, l) \in DOMAIN g /\ ToSet(g[Entry(g, l)]) = {l}
                   /\ ToSet(n[Entry(g, l)]) = {P[l]}
                   /\ P[l] \notin DOMAIN g /\ P[l] \in DOMAIN n /\ ToSet(n[P[l]]) = {l} /\ l \in DOMAIN g
  BY EntryFacts, HeaderFacts DEF Divided
<1>3. \A k, l \in R : (P[k] = P[l] \/ Entry(g, k) = Entry(g, l)) => k = l
  <2>1. \A k, l \in R : P[k] = P[l] => k = l
    BY DEF Divided
  <2>2. ASSUME NEW k \in R, NEW l \in R, Entry(g, k) = Entry(g, l) PROVE k = l
    <3>1. ToSet(g[Entry(g, k)]) = {k} /\ ToSet(g[Entry(g, l)]) = {l}
      BY <1>2
    <3> QED
      BY <2>2, <3>1
  <2> QED
    BY <2>1, <2>2
<1>4. \A b \in DOMAIN g : (\A l \in R : b # Entry(g, l)) => ToSet(n[b]) = ToSet(g[b])
  BY DEF Divided
<1>5. /\ h \in old /\ old \subseteq DominatedBy(g, 1)[h] /\ old \subseteq DOMAIN g /\ Latches(g, 1, h) \subseteq old
      /\ \A b \in old \ {h} : \A p \in DOMAIN g : b \in ToSet(g[p]) => p \in old
  BY HeaderFacts
<1>6. /\ h \in new /\ Latches(n, 1, h) \subseteq new
      /\ \A b \in new \ {h} : \A p \in All(n, 1) : b \in ToSet(n[p]) => p \in new
  BY <1>1, NaturalValue DEF Natural
<1>7. Latches(n, 1, h) = Latches(g, 1, h)
  <2> DEFINE D == DominatedBy(g, 1)[h]
             M == DominatedBy(n, 1)[h]
  <2>1. M = D \cup {P[l] : l \in {l \in R : Entry(g, l) \in D}} /\ D \subseteq DOMAIN g
    BY <1>1, DividedDom, DomValue
  <2>2. Entry(g, h) \notin D /\ \A b \in D : b # Entry(g, h)
    BY EntryFacts
  <2>3. Latches(g, 1, h) = {p \in D : h \in ToSet(g[p])} /\ Latches(n, 1, h) = {p \in M : h \in ToSet(n[p])}
    BY DEF Latches
  <2> HIDE DEF D, M
  <2>4. ASSUME NEW p \in M, h \in ToSet(n[p]) PROVE p \in D /\ h \in ToSet(g[p])
    <3>1. CASE p \in D /\ \A l \in R : p # Entry(g, l)
      BY <1>4, <2>1, <2>4, <3>1
    <3>2. CASE p \in D /\ \E l \in R : p = Entry(g, l)
      BY <1>1, <1>2, <2>1, <2>4, <3>2
    <3>3. CASE p \notin D
      <4>1. PICK l \in R : Entry(g, l) \in D /\ p = P[l]
        BY <2>1, <2>4, <3>3
      <4>2. l = h
        BY <1>2, <2>4, <4>1
      <4> QED
        BY <2>2, <4>1, <4>2
    <3> QED
      BY <3>1, <3>2, <3>3
  <2>5. ASSUME NEW p \in D, h \in ToSet(g[p]) PROVE p \in M /\ h \in ToSet(n[p])
    <3>1. \A l \in R : p # Entry(g, l)
      BY <1>2, <2>2, <2>5
    <3> QED
      BY <1>4, <2>1, <2>5, <3>1
  <2> QED
    BY <2>3, <2>4, <2>5
<1> HIDE DEF old, new
<1>8. ASSUME NEW b \in C \ {h}, NEW p \in All(n, 1), b \in ToSet(n[p]) PROVE p \in C
  <2>1. CASE p \in DOMAIN g /\ \A l \in R : p # Entry(g, l)
    <3>1. b \in ToSet(g[p]) /\ b \in DOMAIN g
      BY <1>1, <1>4, <1>8, <2>1 DEF IsFlowGraph, IsGraph
    <3>2. b \in old
      BY <1>2, <1>8, <3>1
    <3> QED
      BY <1>5, <1>8, <2>1, <3>1, <3>2
  <2>2. CASE p \in DOMAIN g /\ \E l \in R : p = Entry(g, l)
    <3>1. PICK l \in R : p = Entry(g, l)
      BY <2>2
    <3>2. b = P[l]
      BY <1>2, <1>8, <3>1
    <3>3. l \in old \ {h}
      BY <1>2, <1>3, <1>5, <1>8, <3>2
    <3>4. l \in ToSet(g[p])
      BY <1>2, <3>1
    <3> QED
      BY <1>5, <2>2, <3>3, <3>4
  <2>3. CASE p \notin DOMAIN g
    <3>1. PICK l \in R : p = P[l]
      BY <1>1, <1>8, <2>3
    <3>2. b = l
      BY <1>2, <1>8, <3>1
    <3>3. l \in old \ {h}
      BY <1>2, <1>8, <3>2
    <3> QED
      BY <3>1, <3>3
  <2> QED
    BY <2>1, <2>2, <2>3
<1>9. new \subseteq C
  <2>1. h \in C /\ Latches(n, 1, h) \subseteq C
    BY <1>5, <1>7
  <2> HIDE DEF C
  <2> QED
    BY <1>1, <1>8, <2>1, NaturalLeast DEF new, Natural
<1>10. ASSUME NEW l \in R, l \in new, l # h PROVE P[l] \in new /\ Entry(g, l) \in new
  <2>1. P[l] \in All(n, 1) /\ l \in ToSet(n[P[l]]) /\ Entry(g, l) \in All(n, 1) /\ P[l] \in ToSet(n[Entry(g, l)]) /\ P[l] # h
    BY <1>1, <1>2
  <2> QED
    BY <1>6, <1>10, <2>1
<1>11. old \subseteq new
  <2>1. ASSUME NEW b \in new \ {h}, NEW p \in All(g, 1), b \in ToSet(g[p]) PROVE p \in new
    <3>1. CASE \A l \in R : p # Entry(g, l)
      BY <1>1, <1>4, <1>6, <2>1, <3>1
    <3>2. CASE \E l \in R : p = Entry(g, l)
      BY <1>2, <1>10, <2>1, <3>2
    <3> QED
      BY <3>1, <3>2
  <2>2. h \in new /\ Latches(g, 1, h) \subseteq new
    BY <1>6, <1>7
  <2>3. h \in All(g, 1)
    BY <1>1
  <2> QED
    BY <1>1, <2>1, <2>2, <2>3, NaturalLeast DEF old, Natural
<1>12. C \subseteq new
  BY <1>10, <1>11
<1> QED
  BY <1>9, <1>12 DEF old, new

-----------------------------------------------------------------------------
LEMMA ProgramFacts ==
    ASSUME NEW p \in Programs
    PROVE  /\ IsLoopGraph(p.graph) /\ p.graph \in Seq(Seq(1 .. Len(p.graph))) /\ DOMAIN p.graph = 1 .. Len(p.graph)
           /\ Len(p.graph) \in Nat /\ Len(p.graph) >= 1
           /\ DOMAIN p.code = 1 .. Len(p.graph) /\ DOMAIN p.term = 1 .. Len(p.graph)
           /\ p.code \in Seq(Seq(DOMAIN p.inst))
           /\ Headers(p.graph) \subseteq 1 .. Len(p.graph)
           /\ \A b \in DOMAIN p.graph : p.graph[b] = targets(p.term[b])
           /\ Instructions(p) /\ Branches(p) /\ Laid(p) /\ SingleAssignment(p)
<1>1. Laid(p) /\ Instructions(p) /\ Branches(p) /\ EnteredOnce(p.graph) /\ SingleAssignment(p)
  BY LicmAssumption DEF IsFunction
<1> DEFINE g == p.graph
           n == Len(g)
<1>2. /\ g \in Seq(Seq(1 .. n)) /\ 1 .. n = Reach(g, 1, 0) /\ g # <<>>
      /\ p.code \in Seq(Seq(DOMAIN p.inst)) /\ Len(p.code) = n
  BY <1>1 DEF Laid
<1>3. n \in Nat /\ DOMAIN g = 1 .. n /\ n >= 1
  BY <1>2
<1>4. DOMAIN p.code = 1 .. n /\ DOMAIN p.term = 1 .. n
  BY <1>1, <1>2, <1>3 DEF Branches
<1>5. \A b \in 1 .. n : g[b] = targets(p.term[b])
  BY <1>1, <1>3 DEF Branches
<1> HIDE DEF g, n
<1>6. IsGraph(g)
  <2>1. IsFiniteSet(1 .. n)
    <3>1. 1 \in Int /\ n \in Int
      BY <1>3
    <3> QED
      BY <3>1, FS_Interval
  <2>2. \A b \in 1 .. n : ToSet(g[b]) \subseteq 1 .. n
    <3> SUFFICES ASSUME NEW b \in 1 .. n, NEW k \in DOMAIN g[b] PROVE g[b][k] \in 1 .. n
      BY DEF ToSet
    <3>1. g[b] \in Seq(1 .. n)
      BY <1>2, <1>3
    <3> DEFINE V == 1 .. n
    <3>2. g[b] \in Seq(V)
      BY <3>1
    <3> HIDE DEF V
    <3>3. g[b][k] \in V
      BY <3>2
    <3> QED
      BY <3>3 DEF V
  <2> QED
    BY <1>3, <2>1, <2>2 DEF IsGraph
<1>8. 1 \in 1 .. n /\ 0 \notin 1 .. n
  BY <1>3
<1>9. IsFlowGraph(g, 1) /\ All(g, 1) = DOMAIN g
  BY <1>2, <1>3, <1>6, <1>8 DEF IsFlowGraph, All
<1>10. IsLoopGraph(g)
  BY <1>1, <1>9 DEF IsLoopGraph, g
<1>11. Headers(g) \subseteq 1 .. n
  BY <1>3, <1>10, HeaderFacts
<1> QED
  BY <1>1, <1>2, <1>3, <1>4, <1>5, <1>10, <1>11 DEF g, n

-----------------------------------------------------------------------------
(* The function before the pass, and what has become of it.                  *)
Graph     == original.graph
Places    == 1 .. Len(Graph)
Now       == 1 .. Len(succ_bbs)
Added     == Count + 1 .. Len(succ_bbs)
Working   == phase \in {"mark", "rewire", "move"}
Moving(h) == phase = "move" /\ h = loop
Rewired   == {h \in Loops : preheader[h] # NoBlock /\ succ_bbs[preheader[h]] # <<>>}
Body(h)   == UNION {blocks[l] : l \in inner(h)}
Within(h) == UNION {ToSet(code[b]) : b \in Body(h)}
Op(i)     == inst[i].op
Args(i)   == ToSet(inst[i].args)

Types ==
    /\ original \in Programs
    /\ succ_bbs \in Seq(Seq(Nat)) /\ pre_bbs \in Seq(Seq(Nat)) /\ code \in Seq(Seq(DOMAIN original.inst))
    /\ term \in Seq([op : {"br", "ret", "none"}, args : Seq(Nat)])
    /\ Len(pre_bbs) = Len(succ_bbs) /\ Len(code) = Len(succ_bbs) /\ Len(term) = Len(succ_bbs)
    /\ Len(succ_bbs) >= Count

Tables ==
    /\ Loops = Headers(Graph) /\ DOMAIN preheader = Loops
    /\ \A h \in Loops : preheader[h] = NoBlock \/ preheader[h] \in Added
    /\ \A h, l \in Loops : preheader[h] = preheader[l] /\ preheader[h] # NoBlock => h = l
    /\ \A b \in Added : \E h \in Loops : preheader[h] = b
    /\ is_loop_done \subseteq Loops
    /\ \A h \in Loops \ is_loop_done : preheader[h] = NoBlock
    /\ phase \in {"traverse", "mark", "rewire", "move", "execute", "returned"}
    /\ Working => loop \in is_loop_done
    /\ phase = "mark" => preheader[loop] = NoBlock
    /\ phase = "rewire" => preheader[loop] # NoBlock /\ loop \notin Rewired
    /\ phase = "move" => loop \in Rewired /\ succ_bbs[preheader[loop]] = <<loop>>

BlocksAre ==
    \A h \in Loops :
        blocks[h] = Natural(Graph, h) \cup {preheader[l] : l \in {l \in Rewired : ~Moving(l) /\ Parent(Graph, l) = h}}

SuccsAre ==
    /\ \A h \in Rewired : succ_bbs[Entry(Graph, h)] = <<preheader[h]>> /\ ToSet(succ_bbs[preheader[h]]) = {h}
    /\ \A b \in Places : (\A h \in Rewired : b # Entry(Graph, h)) => succ_bbs[b] = Graph[b]

TermsAre ==
    /\ \A h \in Rewired :
          /\ term[Entry(Graph, h)].op = "br" /\ term[Entry(Graph, h)].args = <<preheader[h]>>
          /\ ~Moving(h) => term[preheader[h]].op = "br" /\ term[preheader[h]].args = <<h>>
    /\ \A b \in Places : (\A h \in Rewired : b # Entry(Graph, h)) => term[b] = original.term[b]
    /\ \A b \in Added : succ_bbs[b] = <<>> => term[b].op = "none"

PredsAre ==
    \A b \in Now :
        /\ IsInjective(pre_bbs[b])
        /\ ToSet(pre_bbs[b]) = {a \in Now :
               b \in ToSet(succ_bbs[a]) /\ ~(phase = "move" /\ b = loop /\ a = preheader[loop])}

PhisAre ==
    \A b \in Now : \A i \in ToSet(code[b]) : Op(i) = "phi" =>
        /\ inst[i].args \in Seq(({Zero} \cup DOMAIN original.inst) \X Nat) /\ Unique(inst[i].args)
        /\ Seconds(inst[i].args) = {a \in Now : b \in ToSet(succ_bbs[a])}

CodeIs ==
    /\ DOMAIN inst = DOMAIN original.inst
    /\ \A i \in DOMAIN inst : inst[i] = [original.inst[i] EXCEPT !.args = inst[i].args]
    /\ \A i \in DOMAIN inst : Op(i) # "phi" => inst[i] = original.inst[i]
    /\ \A b \in Now : IsInjective(code[b])
    /\ \A b, c \in Now : ToSet(code[b]) \cap ToSet(code[c]) # {} => b = c
    /\ \A b \in Added : succ_bbs[b] = <<>> => code[b] = <<>>

Found ==
    /\ loop_invariant \in Seq(DOMAIN inst) /\ IsInjective(loop_invariant)
    /\ ~Working => loop_invariant = <<>>
    /\ Working => ToSet(loop_invariant) \subseteq Within(loop)
    /\ phase = "move" => code[preheader[loop]] = <<>>
    /\ \A i \in ToSet(loop_invariant) : Op(i) \notin {"store", "phi", "impure"}

Linked == Types /\ Tables /\ BlocksAre /\ SuccsAre /\ TermsAre /\ PredsAre /\ PhisAre /\ CodeIs /\ Found

Settled(h) ==
    \/ \E i \in Within(h) : Op(i) = "impure"
    \/ \A i \in Within(h) : Op(i) \in {"store", "phi"} \/ Args(i) \cap Within(h) # {}

Marks ==
    /\ \A h \in is_loop_done : inner(h) \subseteq is_loop_done
    /\ Working => \A l \in inner(loop) \ {loop} : ToSet(loop_invariant) \cap Within(l) = {}
    /\ loop_invariant # <<>> => \A i \in Within(loop) : Op(i) # "impure"
    /\ phase \in {"rewire", "move"} =>
          /\ loop_invariant # <<>>
          /\ \A i \in Within(loop) \ ToSet(loop_invariant) :
                Op(i) \in {"store", "phi"} \/ ~(Args(i) \cap Within(loop) \subseteq ToSet(loop_invariant))
    /\ \A h \in is_loop_done : (Working /\ h = loop) \/ Settled(h)

-----------------------------------------------------------------------------
(* The instructions that have moved keep their order and are outside of the  *)
(* loop they have left; phis say of the new edges what they said of the old  *)
(* ones.                                                                     *)
Hoisted        == UNION {ToSet(code[b]) : b \in Added}
Ordered(s)     == \A j, k \in DOMAIN s : s[j] \in Args(s[k]) => j < k
Source(b, c)   == IF b \in Rewired /\ c = Entry(Graph, b) THEN preheader[b] ELSE c

CodeWas  == \A b \in Places : code[b] = without(original.code[b], Hoisted)
InOrder  == \A b \in Added : Ordered(code[b])
FoundInOrder ==
    \A k \in DOMAIN loop_invariant :
        Args(loop_invariant[k]) \cap Within(loop) \subseteq {loop_invariant[j] : j \in 1 .. k - 1}
HasLeft(h, i) ==
    /\ Op(i) \notin {"store", "phi", "impure"}
    /\ Args(i) \cap Within(h) = {}
    /\ \E b \in Natural(Graph, h) : i \in ToSet(original.code[b])
Harmless(h) == \A b \in Natural(Graph, h) : \A j \in ToSet(original.code[b]) : original.inst[j].op # "impure"
Left     == \A h \in Loops : preheader[h] # NoBlock =>
               \A i \in ToSet(code[preheader[h]]) : HasLeft(h, i) /\ Harmless(h)
PhisWere ==
    \A b \in Places : \A i \in ToSet(code[b]) : Op(i) = "phi" =>
        ToSet(inst[i].args) = {<<a[1], Source(b, a[2])>> : a \in ToSet(original.inst[i].args)}
Untouched == phase \notin {"execute", "returned"} => before = Machine(original.inst) /\ after = before

Hoists == CodeWas /\ InOrder /\ FoundInOrder /\ Left /\ PhisWere /\ Untouched

(* What an instruction gives in a state of the machine.                      *)
Arguments(r, m) == [k \in DOMAIN r.args |-> value(m.env, r.args[k])]
Result(r, m) ==
    CASE r.op = "load"  -> m.mem[r.cell]
      [] r.op \in {"plain", "pure"} -> total(Arguments(r, m)) % Modulus
IsMachine(m, D) ==
    /\ m = [at |-> m.at, from |-> m.from, env |-> m.env, mem |-> m.mem, given |-> m.given]
    /\ m.env = [i \in D |-> m.env[i]] /\ m.mem = [c \in Cells |-> m.mem[c]]

(* The two machines: where they are, that they have computed the same up to  *)
(* here, and that an instruction that has left a loop would give again what  *)
(* it gave before the loop.                                                  *)
Entering(x, h) == h \in Rewired /\ x.at = h /\ x.from = Entry(Graph, h)
Steady(m, h) == \A i \in ToSet(code[preheader[h]]) : m.env[i] = Result(inst[i], m)
Beside(x, y) ==
    \/ y.at = x.at /\ y.from = x.from /\ \A h \in Loops : ~Entering(x, h)
    \/ y.at = x.at /\ \E h \in Loops : Entering(x, h) /\ y.from = preheader[h]
    \/ y.from = x.from /\ \E h \in Loops : Entering(x, h) /\ y.at = preheader[h]
OnTheWay(x, y) ==
    /\ x.at \in Places
    /\ \/ x.from = NoBlock /\ x.at = 1 /\ y = x
       \/ x.from \in Places /\ x.at \in ToSet(Graph[x.from])
Mute                == {i \in DOMAIN inst : Op(i) \in {"store", "impure"}}
SameValues(x, y, S) == \A i \in S : x.env[i] = y.env[i]
Above(b)            == UNION {ToSet(original.code[a]) : a \in {a \in Places : b \in DominatedBy(Graph, 1)[a]}}
Along(x, y) ==
    /\ IsMachine(x, DOMAIN inst) /\ IsMachine(y, DOMAIN inst)
    /\ x.mem = y.mem /\ x.given = y.given
    /\ OnTheWay(x, y) /\ Beside(x, y)
    /\ SameValues(x, y, Mute \cup Above(x.from))
    /\ \A h \in Rewired : x.at \in Natural(Graph, h) /\ y.at # preheader[h] => Steady(y, h)
Simulates == phase = "execute" => Along(before, after)
Returned == phase = "returned" => before.mem = after.mem /\ before.given = after.given /\ before.at = after.at

-----------------------------------------------------------------------------
LEMMA Shape ==
    ASSUME Types
    PROVE  /\ IsLoopGraph(Graph) /\ DOMAIN Graph = Places /\ Count \in Nat /\ Count >= 1 /\ Len(Graph) = Count
           /\ Len(succ_bbs) \in Nat /\ Places \subseteq Now /\ Added = Now \ Places /\ NoBlock \notin Now
           /\ DOMAIN succ_bbs = Now /\ DOMAIN pre_bbs = Now /\ DOMAIN code = Now /\ DOMAIN term = Now
           /\ \A b \in Now : /\ succ_bbs[b] \in Seq(Nat) /\ pre_bbs[b] \in Seq(Nat) /\ code[b] \in Seq(DOMAIN original.inst)
                             /\ term[b] \in [op : {"br", "ret", "none"}, args : Seq(Nat)]
           /\ Headers(Graph) \subseteq Places
           /\ \A b \in Places : Graph[b] = targets(original.term[b])
           /\ Instructions(original) /\ Branches(original) /\ Laid(original) /\ SingleAssignment(original)
<1>1. original \in Programs
  BY DEF Types
<1>2. /\ IsLoopGraph(Graph) /\ DOMAIN Graph = Places /\ Count \in Nat /\ Count >= 1 /\ Len(Graph) = Count
      /\ Headers(Graph) \subseteq Places
      /\ \A b \in Places : Graph[b] = targets(original.term[b])
      /\ Instructions(original) /\ Branches(original) /\ Laid(original) /\ SingleAssignment(original)
  BY <1>1, ProgramFacts DEF Graph, Places, Count
<1>3. Len(succ_bbs) \in Nat /\ Len(succ_bbs) >= Count
  BY DEF Types
<1>4. DOMAIN succ_bbs = Now /\ DOMAIN pre_bbs = Now /\ DOMAIN code = Now /\ DOMAIN term = Now
  BY DEF Types, Now
<1>5. \A b \in Now : succ_bbs[b] \in Seq(Nat) /\ pre_bbs[b] \in Seq(Nat) /\ code[b] \in Seq(DOMAIN original.inst)
  <2> DEFINE V == Seq(Nat)
             W == Seq(DOMAIN original.inst)
  <2>1. succ_bbs \in Seq(V) /\ pre_bbs \in Seq(V) /\ code \in Seq(W)
    BY DEF Types
  <2> HIDE DEF V, W
  <2>2. \A b \in Now : succ_bbs[b] \in V /\ pre_bbs[b] \in V /\ code[b] \in W
    BY <1>4, <2>1
  <2> QED
    BY <2>2 DEF V, W
<1>6. \A b \in Now : term[b] \in [op : {"br", "ret", "none"}, args : Seq(Nat)]
  <2> DEFINE V == [op : {"br", "ret", "none"}, args : Seq(Nat)]
  <2>1. term \in Seq(V)
    BY DEF Types
  <2> HIDE DEF V
  <2>2. \A b \in Now : term[b] \in V
    BY <1>4, <2>1
  <2> QED
    BY <2>2 DEF V
<1>7. Places \subseteq Now /\ Added = Now \ Places /\ NoBlock \notin Now
  BY <1>2, <1>3 DEF Places, Now, Added, NoBlock
<1> QED
  BY <1>2, <1>3, <1>4, <1>5, <1>6, <1>7

(* The steps that leave the function alone.                                  *)
LEMMA Unmoved ==
    ASSUME Linked, UNCHANGED <<original, ir_vars, blocks, preheader>>,
           (phase # "move" /\ phase' # "move") \/ (phase' = phase /\ loop' = loop)
    PROVE  /\ Types' /\ BlocksAre' /\ SuccsAre' /\ TermsAre' /\ PredsAre' /\ PhisAre' /\ CodeIs'
           /\ Loops' = Loops /\ Rewired' = Rewired /\ Added' = Added /\ Graph' = Graph
           /\ \A h \in Loops : Within(h)' = Within(h) /\ inner(h)' = inner(h)
<1>1. /\ original' = original /\ code' = code /\ inst' = inst /\ term' = term /\ succ_bbs' = succ_bbs
      /\ pre_bbs' = pre_bbs /\ blocks' = blocks /\ preheader' = preheader
  BY DEF ir_vars
<1>2. /\ Graph' = Graph /\ Places' = Places /\ Now' = Now /\ Added' = Added /\ Loops' = Loops /\ Count' = Count
      /\ Rewired' = Rewired
  BY <1>1 DEF Graph, Places, Now, Added, Loops, Rewired, Count
<1>3. \A h : Moving(h)' = Moving(h)
  BY DEF Moving
<1>4. Types'
  BY <1>1, <1>2 DEF Linked, Types
<1>5. BlocksAre'
  BY <1>1, <1>2, <1>3 DEF Linked, BlocksAre
<1>6. SuccsAre'
  BY <1>1, <1>2 DEF Linked, SuccsAre
<1>7. TermsAre'
  BY <1>1, <1>2, <1>3 DEF Linked, TermsAre
<1>8. PredsAre'
  BY <1>1, <1>2 DEF Linked, PredsAre
<1>9. PhisAre'
  BY <1>1, <1>2 DEF Linked, PhisAre, Op
<1>10. CodeIs'
  BY <1>1, <1>2 DEF Linked, CodeIs, Op
<1>11. \A h \in Loops : Within(h)' = Within(h) /\ inner(h)' = inner(h)
  BY <1>1, <1>2 DEF Within, Body, inner
<1> QED
  BY <1>2, <1>4, <1>5, <1>6, <1>7, <1>8, <1>9, <1>10, <1>11

-----------------------------------------------------------------------------
(* The blocks of a loop and of the loops inside it.                          *)
LEMMA Mutual ==
    ASSUME NEW g, IsLoopGraph(g), NEW h \in Headers(g), NEW l \in Headers(g), h \in Natural(g, l), l \in Natural(g, h)
    PROVE  h = l
<1>1. h \in All(g, 1) /\ l \in All(g, 1) /\ h \in DominatedBy(g, 1)[l] /\ l \in DominatedBy(g, 1)[h]
  BY HeaderFacts
<1> QED
  BY <1>1, DomAntisymmetric DEF IsLoopGraph

HaveBlocks(g, R, P, B) ==
    /\ R \subseteq Headers(g)
    /\ \A l \in Headers(g) : B[l] = Natural(g, l) \cup {P[k] : k \in {k \in R : Parent(g, k) = l}}
    /\ \A l \in R : P[l] \notin DOMAIN g

LEMMA BodyOf ==
    ASSUME NEW g, IsLoopGraph(g), NEW R, NEW P, NEW B, HaveBlocks(g, R, P, B), NEW h \in Headers(g)
    PROVE  /\ {l \in Headers(g) : l \in B[h]} = Nested(g, h)
           /\ UNION {B[l] : l \in Nested(g, h)} = Natural(g, h) \cup {P[l] : l \in {l \in R : l \in Natural(g, h) \ {h}}}
<1> USE DEF HaveBlocks
<1>1. \A l \in Headers(g) : l \in DOMAIN g /\ l \in Natural(g, l) /\ l # NoLoop
  <2>1. 0 \notin DOMAIN g
    BY DEF IsLoopGraph, IsFlowGraph
  <2> QED
    BY <2>1, HeaderFacts DEF NoLoop
<1>2. {l \in Headers(g) : l \in B[h]} = Nested(g, h)
  <2>1. \A l \in Headers(g) : l \in B[h] <=> l \in Natural(g, h)
    BY <1>1
  <2> QED
    BY <2>1 DEF Nested
<1> DEFINE C == Natural(g, h) \cup {P[l] : l \in {l \in R : l \in Natural(g, h) \ {h}}}
<1>3. ASSUME NEW l \in Nested(g, h) PROVE B[l] \subseteq C
  <2>1. l \in Headers(g) /\ l \in Natural(g, h) /\ Natural(g, l) \subseteq Natural(g, h)
    BY NestedInside DEF Nested
  <2>2. ASSUME NEW k \in R, Parent(g, k) = l PROVE k \in Natural(g, h) \ {h}
    <3>1. l \in Headers(g) \ {k} /\ k \in Natural(g, l)
      <4>1. Around(g, k) # {}
        BY <1>1, <2>1, <2>2 DEF Parent
      <4> QED
        BY <2>2, <4>1, ParentFacts DEF Around
    <3>2. k # h
      BY <2>1, <3>1, Mutual
    <3> QED
      BY <2>1, <3>1, <3>2
  <2> QED
    BY <2>1, <2>2
<1>4. ASSUME NEW k \in R, k \in Natural(g, h) \ {h} PROVE \E l \in Nested(g, h) : P[k] \in B[l]
  <2>1. h \in Around(g, k)
    BY <1>4 DEF Around
  <2>2. Parent(g, k) \in Nested(g, h)
    BY <2>1, ParentFacts
  <2> QED
    BY <2>2 DEF Nested
<1>5. h \in Nested(g, h) /\ Natural(g, h) \subseteq B[h]
  BY <1>1 DEF Nested
<1>6. UNION {B[l] : l \in Nested(g, h)} = C
  <2>1. UNION {B[l] : l \in Nested(g, h)} \subseteq C
    BY <1>3
  <2>2. C \subseteq UNION {B[l] : l \in Nested(g, h)}
    BY <1>4, <1>5
  <2> QED
    BY <2>1, <2>2
<1> QED
  BY <1>2, <1>6

LEMMA BodyIs ==
    ASSUME Types, Tables, BlocksAre, NEW h \in Loops
    PROVE  /\ inner(h) = Nested(Graph, h) /\ h \in inner(h)
           /\ Body(h) = Natural(Graph, h) \cup {preheader[l] : l \in {l \in Rewired : ~Moving(l) /\ l \in Natural(Graph, h) \ {h}}}
           /\ blocks[h] \cap Places = Natural(Graph, h) /\ blocks[h] \subseteq Now
           /\ Natural(Graph, h) \subseteq Places
           /\ h \in Places
           /\ Body(h) \subseteq Now
<1> DEFINE R == {l \in Rewired : ~Moving(l)}
<1>1. /\ IsLoopGraph(Graph) /\ DOMAIN Graph = Places /\ Places \subseteq Now /\ Added = Now \ Places /\ Loops = Headers(Graph)
      /\ NoBlock \notin Now
  BY Shape DEF Tables
<1>2. R \subseteq Headers(Graph) /\ \A l \in R : preheader[l] \notin DOMAIN Graph /\ preheader[l] \in Now
  BY <1>1 DEF Rewired, Tables
<1>3. \A l \in Headers(Graph) : blocks[l] = Natural(Graph, l) \cup {preheader[k] : k \in {k \in R : Parent(Graph, k) = l}}
  BY <1>1 DEF BlocksAre
<1> HIDE DEF R
<1>4. /\ {l \in Headers(Graph) : l \in blocks[h]} = Nested(Graph, h)
      /\ UNION {blocks[l] : l \in Nested(Graph, h)} = Natural(Graph, h) \cup {preheader[l] : l \in {l \in R : l \in Natural(Graph, h) \ {h}}}
  <2>1. HaveBlocks(Graph, R, preheader, blocks)
    BY <1>2, <1>3 DEF HaveBlocks
  <2> QED
    BY <1>1, <2>1, BodyOf
<1>5. inner(h) = Nested(Graph, h)
  BY <1>1, <1>4 DEF inner
<1>6. Natural(Graph, h) \subseteq Places /\ h \in Natural(Graph, h)
  BY <1>1, HeaderFacts
<1>7. blocks[h] \cap Places = Natural(Graph, h) /\ blocks[h] \subseteq Now
  <2>1. blocks[h] = Natural(Graph, h) \cup {preheader[k] : k \in {k \in R : Parent(Graph, k) = h}}
    BY <1>1, <1>3
  <2> QED
    BY <1>1, <1>2, <1>6, <2>1
<1>8. Body(h) = Natural(Graph, h) \cup {preheader[l] : l \in {l \in R : l \in Natural(Graph, h) \ {h}}}
  BY <1>4, <1>5 DEF Body
<1>9. Body(h) \subseteq Now
  BY <1>1, <1>2, <1>6, <1>8
<1>10. h \in inner(h)
  BY <1>1, <1>5, <1>6 DEF Nested
<1> QED
  BY <1>5, <1>6, <1>7, <1>8, <1>9, <1>10 DEF R

LEMMA WithinIn ==
    ASSUME Types, Tables, BlocksAre, CodeIs, NEW h \in Loops
    PROVE  Within(h) \subseteq DOMAIN inst
<1>1. Body(h) \subseteq Now /\ \A b \in Now : code[b] \in Seq(DOMAIN original.inst)
  BY BodyIs, Shape
<1>2. \A b \in Now : ToSet(code[b]) \subseteq DOMAIN inst
  BY <1>1 DEF ToSet, CodeIs
<1> QED
  BY <1>1, <1>2 DEF Within

-----------------------------------------------------------------------------
LEMMA LinkedTraverse ==
    ASSUME Linked, NEW h \in Loops, TraverseLoop(h)
    PROVE  Linked'
<1>1. /\ phase = "traverse" /\ phase' = "mark" /\ loop' = h /\ h \notin is_loop_done
      /\ is_loop_done' = is_loop_done \cup {h} /\ loop_invariant' = loop_invariant
      /\ UNCHANGED <<original, ir_vars, blocks, preheader>>
  BY DEF TraverseLoop
<1>2. /\ Types' /\ BlocksAre' /\ SuccsAre' /\ TermsAre' /\ PredsAre' /\ PhisAre' /\ CodeIs'
      /\ Loops' = Loops /\ Rewired' = Rewired /\ Added' = Added /\ Graph' = Graph
  BY <1>1, Unmoved
<1>3. loop_invariant = <<>>
  BY <1>1 DEF Linked, Found, Working
<1>4. Tables'
  BY <1>1, <1>2 DEF Linked, Tables, Working
<1>5. Found'
  <2>1. /\ loop_invariant' = <<>> /\ ToSet(<<>>) = {} /\ <<>> \in Seq(DOMAIN inst') /\ IsInjective(<<>>)
    BY <1>1, <1>3 DEF ToSet, IsInjective
  <2> QED
    BY <1>1, <2>1 DEF Found
<1> QED
  BY <1>2, <1>4, <1>5 DEF Linked

LEMMA LinkedMark ==
    ASSUME Linked, NEW i, Mark(i)
    PROVE  Linked'
<1>1. /\ phase = "mark" /\ phase' = "mark" /\ loop' = loop /\ is_loop_done' = is_loop_done
      /\ loop_invariant' = Append(loop_invariant, i) /\ i \notin ToSet(loop_invariant) /\ i \in Within(loop)
      /\ Op(i) \notin {"store", "phi", "impure"}
      /\ UNCHANGED <<original, ir_vars, blocks, preheader>>
  BY DEF Mark, invariant, contains_impure_call, loop_instructions, Within, Body, Op
<1>2. /\ Types' /\ BlocksAre' /\ SuccsAre' /\ TermsAre' /\ PredsAre' /\ PhisAre' /\ CodeIs'
      /\ Loops' = Loops /\ Rewired' = Rewired /\ Added' = Added /\ Graph' = Graph
      /\ \A h \in Loops : Within(h)' = Within(h)
  BY <1>1, Unmoved
<1>3. Tables'
  BY <1>1, <1>2 DEF Linked, Tables, Working
<1>4. loop \in Loops
  BY <1>1 DEF Linked, Tables, Working
<1>5. i \in DOMAIN inst
  BY <1>1, <1>4, WithinIn DEF Linked
<1>6. Found'
  <2>1. /\ loop_invariant \in Seq(DOMAIN inst) /\ IsInjective(loop_invariant)
        /\ ToSet(loop_invariant) \subseteq Within(loop)
        /\ \A j \in ToSet(loop_invariant) : Op(j) \notin {"store", "phi", "impure"}
    BY <1>1 DEF Linked, Found, Working
  <2> DEFINE s == loop_invariant'
  <2>2. s \in Seq(DOMAIN inst) /\ ToSet(s) = ToSet(loop_invariant) \cup {i} /\ IsInjective(s)
    BY <1>1, <1>5, <2>1, AppendSet
  <2>3. inst' = inst /\ \A j : Op(j)' = Op(j)
    BY <1>1 DEF ir_vars, Op
  <2>4. loop \in Loops /\ Within(loop)' = Within(loop)
    BY <1>1, <1>2 DEF Linked, Tables, Working
  <2>5. ToSet(s) \subseteq Within(loop) /\ \A j \in ToSet(s) : Op(j) \notin {"store", "phi", "impure"}
    BY <1>1, <2>1, <2>2
  <2> QED
    BY <1>1, <2>2, <2>3, <2>4, <2>5 DEF Found, Working
<1> QED
  BY <1>2, <1>3, <1>6 DEF Linked

-----------------------------------------------------------------------------
LEMMA AppendAt ==
    ASSUME NEW S, NEW s \in Seq(S), NEW e \in S, NEW n, n = Len(s)
    PROVE  /\ Append(s, e) \in Seq(S) /\ Len(Append(s, e)) = n + 1
           /\ \A b \in 1 .. n : Append(s, e)[b] = s[b]
           /\ Append(s, e)[n + 1] = e
  OBVIOUS

LEMMA LinkedMarked ==
    ASSUME Linked, Marked
    PROVE  /\ Linked' /\ Loops' = Loops /\ Rewired' = Rewired
           /\ \A l \in Loops : Within(l)' = Within(l) /\ inner(l)' = inner(l)
<1> DEFINE h == loop
           n == Len(succ_bbs)
<1>1. /\ phase = "mark" /\ phase' = (IF loop_invariant = <<>> THEN "traverse" ELSE "rewire")
      /\ h \in Loops /\ h \in is_loop_done /\ preheader[h] = NoBlock
  BY DEF Marked, Linked, Tables, Working
<1>2. /\ preheader' = [preheader EXCEPT ![h] = n + 1]
      /\ code' = Append(code, <<>>) /\ term' = Append(term, [op |-> "none", args |-> <<>>])
      /\ succ_bbs' = Append(succ_bbs, <<>>) /\ pre_bbs' = Append(pre_bbs, <<>>)
      /\ UNCHANGED <<original, inst, blocks, is_loop_done, loop, loop_invariant, before, after>>
  BY <1>1 DEF Marked
<1>3. /\ IsLoopGraph(Graph) /\ DOMAIN Graph = Places /\ n \in Nat /\ Count \in Nat /\ n >= Count
      /\ Places \subseteq Now /\ Added = Now \ Places /\ NoBlock \notin Now
      /\ DOMAIN succ_bbs = Now /\ Loops = Headers(Graph) /\ DOMAIN preheader = Loops
      /\ Len(code) = n /\ Len(pre_bbs) = n /\ Len(term) = n
  BY Shape DEF Linked, Tables, Types
<1>4. /\ succ_bbs' \in Seq(Seq(Nat)) /\ Len(succ_bbs') = n + 1
      /\ (\A b \in 1 .. n : succ_bbs'[b] = succ_bbs[b]) /\ succ_bbs'[n + 1] = <<>>
      /\ pre_bbs' \in Seq(Seq(Nat)) /\ Len(pre_bbs') = n + 1
      /\ (\A b \in 1 .. n : pre_bbs'[b] = pre_bbs[b]) /\ pre_bbs'[n + 1] = <<>>
  <2> DEFINE V == Seq(Nat)
  <2>1. succ_bbs \in Seq(V) /\ pre_bbs \in Seq(V)
    BY DEF Linked, Types
  <2>2. <<>> \in V
    OBVIOUS
  <2> HIDE DEF V, n
  <2> QED
    BY <1>2, <1>3, <2>1, <2>2, AppendAt DEF V, n
<1>5. /\ code' \in Seq(Seq(DOMAIN original.inst)) /\ Len(code') = n + 1
      /\ (\A b \in 1 .. n : code'[b] = code[b]) /\ code'[n + 1] = <<>>
  <2> DEFINE V == Seq(DOMAIN original.inst)
  <2>1. code \in Seq(V)
    BY DEF Linked, Types
  <2>2. <<>> \in V
    OBVIOUS
  <2> HIDE DEF V, n
  <2> QED
    BY <1>2, <1>3, <2>1, <2>2, AppendAt DEF V
<1>6. /\ term' \in Seq([op : {"br", "ret", "none"}, args : Seq(Nat)]) /\ Len(term') = n + 1
      /\ (\A b \in 1 .. n : term'[b] = term[b]) /\ term'[n + 1].op = "none"
  <2> DEFINE V == [op : {"br", "ret", "none"}, args : Seq(Nat)]
             e == [op |-> "none", args |-> <<>>]
  <2>1. term \in Seq(V)
    BY DEF Linked, Types
  <2>2. e \in V /\ e.op = "none"
    OBVIOUS
  <2>3. term' = Append(term, e)
    BY <1>2
  <2> HIDE DEF V, n, e
  <2>4. term' \in Seq(V) /\ Len(term') = n + 1 /\ (\A b \in 1 .. n : term'[b] = term[b]) /\ term'[n + 1] = e
    BY <1>3, <2>1, <2>2, <2>3, AppendAt
  <2> QED
    BY <2>2, <2>4 DEF V
<1>7. /\ Graph' = Graph /\ Places' = Places /\ Count' = Count /\ Loops' = Loops
      /\ Now' = 1 .. n + 1 /\ Added' = Count + 1 .. n + 1 /\ Now = 1 .. n /\ Added = Count + 1 .. n /\ DOMAIN succ_bbs' = 1 .. n + 1
  BY <1>2, <1>3, <1>4 DEF Graph, Places, Count, Loops, Now, Added
<1> HIDE DEF n, h
<1>8. Now' = Now \cup {n + 1} /\ Added' = Added \cup {n + 1} /\ n + 1 \notin Now /\ n + 1 \notin Added /\ n + 1 # NoBlock /\ n + 1 \in Added' /\ n + 1 \in Now'
  BY <1>3, <1>7 DEF NoBlock
<1>9. /\ preheader'[h] = n + 1 /\ (\A l \in Loops \ {h} : preheader'[l] = preheader[l]) /\ DOMAIN preheader' = Loops
  BY <1>1, <1>2, <1>3
<1>10. \A l \in Loops : preheader[l] = NoBlock \/ (preheader[l] \in Added /\ preheader[l] \in 1 .. n)
  <2>1. \A l \in Loops : preheader[l] = NoBlock \/ preheader[l] \in Added
    BY DEF Linked, Tables
  <2>2. Added \subseteq 1 .. n
    BY <1>3, <1>7
  <2> QED
    BY <2>1, <2>2
<1>11. Rewired' = Rewired
  <2>1. \A l \in Loops \ {h} : l \in Rewired' <=> l \in Rewired
    BY <1>4, <1>7, <1>9, <1>10 DEF Rewired
  <2>2. h \notin Rewired /\ h \notin Rewired'
    BY <1>1, <1>4, <1>9 DEF Rewired, h
  <2> QED
    BY <1>7, <2>1, <2>2 DEF Rewired
<1>12. \A l \in Rewired : l # h /\ l \in Loops /\ preheader'[l] = preheader[l] /\ preheader[l] \in 1 .. n /\ preheader[l] # n + 1
  BY <1>1, <1>3, <1>8, <1>9, <1>10 DEF Rewired, h
<1>13. \A l \in Loops : ~Moving(l) /\ ~Moving(l)'
  BY <1>1 DEF Moving
<1>14. Types'
  BY <1>2, <1>3, <1>4, <1>5, <1>6, <1>7 DEF Linked, Types
<1>15. BlocksAre'
  <2> SUFFICES ASSUME NEW l \in Loops
               PROVE  blocks[l] = Natural(Graph, l) \cup {preheader'[k] : k \in {k \in Rewired : Parent(Graph, k) = l}}
    BY <1>2, <1>7, <1>11, <1>12, <1>13 DEF BlocksAre
  <2>1. blocks[l] = Natural(Graph, l) \cup {preheader[k] : k \in {k \in Rewired : Parent(Graph, k) = l}}
    BY <1>12, <1>13 DEF Linked, BlocksAre
  <2> QED
    BY <1>12, <2>1
<1>16. SuccsAre'
  <2>1. \A l \in Rewired : Entry(Graph, l) \in Places
    BY <1>3, EntryFacts DEF Rewired
  <2>2. Places \subseteq 1 .. n
    BY <1>3, <1>7
  <2> QED
    BY <1>4, <1>7, <1>11, <1>12, <2>1, <2>2 DEF Linked, SuccsAre
<1>17. TermsAre'
  <2>1. \A l \in Rewired : Entry(Graph, l) \in Places
    BY <1>3, EntryFacts DEF Rewired
  <2>2. Places \subseteq 1 .. n
    BY <1>3, <1>7
  <2>3. \A l \in Rewired : /\ term'[Entry(Graph, l)].op = "br" /\ term'[Entry(Graph, l)].args = <<preheader'[l]>>
                           /\ term'[preheader'[l]].op = "br" /\ term'[preheader'[l]].args = <<l>>
    <3> TAKE l \in Rewired
    <3>1. /\ term[Entry(Graph, l)].op = "br" /\ term[Entry(Graph, l)].args = <<preheader[l]>>
          /\ term[preheader[l]].op = "br" /\ term[preheader[l]].args = <<l>>
      BY <1>12, <1>13 DEF Linked, TermsAre
    <3>2. term'[Entry(Graph, l)] = term[Entry(Graph, l)] /\ term'[preheader[l]] = term[preheader[l]] /\ preheader'[l] = preheader[l]
      BY <1>6, <1>12, <2>1, <2>2
    <3> QED
      BY <3>1, <3>2
  <2>4. \A b \in Places : (\A l \in Rewired : b # Entry(Graph, l)) => term'[b] = original.term[b]
    BY <1>6, <2>2 DEF Linked, TermsAre
  <2>5. \A b \in Added' : succ_bbs'[b] = <<>> => term'[b].op = "none"
    BY <1>3, <1>4, <1>6, <1>7, <1>8 DEF Linked, TermsAre
  <2> QED
    BY <1>2, <1>7, <1>11, <2>3, <2>4, <2>5 DEF TermsAre
<1>18. \A b \in Now : {a \in Now' : b \in ToSet(succ_bbs'[a])} = {a \in Now : b \in ToSet(succ_bbs[a])}
  <2>1. ToSet(succ_bbs'[n + 1]) = {}
    BY <1>4 DEF ToSet
  <2> QED
    BY <1>4, <1>7, <1>8, <2>1
<1>19. {a \in Now' : n + 1 \in ToSet(succ_bbs'[a])} = {}
  <2>1. ToSet(succ_bbs'[n + 1]) = {}
    BY <1>4 DEF ToSet
  <2>2. ASSUME NEW a \in Now, n + 1 \in ToSet(succ_bbs[a]) PROVE FALSE
    <3>1. CASE \E l \in Rewired : a = Entry(Graph, l) \/ a = preheader[l]
      <4>1. PICK l \in Rewired : a = Entry(Graph, l) \/ a = preheader[l]
        BY <3>1
      <4>2. ToSet(succ_bbs[a]) \subseteq {preheader[l], l}
        BY <4>1 DEF Linked, SuccsAre, ToSet
      <4>3. l \in Now
        BY <1>3, <1>12, HeaderFacts
      <4> QED
        BY <1>8, <1>12, <2>2, <4>2, <4>3
    <3>2. CASE a \in Places /\ \A l \in Rewired : a # Entry(Graph, l)
      <4>1. succ_bbs[a] = Graph[a]
        BY <3>2 DEF Linked, SuccsAre
      <4>2. ToSet(Graph[a]) \subseteq Places
        BY <1>3, <3>2 DEF IsLoopGraph, IsFlowGraph, IsGraph
      <4> QED
        BY <1>3, <1>8, <2>2, <4>1, <4>2
    <3>3. CASE a \notin Places /\ \A l \in Rewired : a # preheader[l]
      <4>1. PICK l \in Loops : preheader[l] = a
        BY <1>3, <3>3 DEF Linked, Tables
      <4>2. succ_bbs[a] = <<>>
        BY <1>3, <3>3, <4>1 DEF Rewired
      <4> QED
        BY <2>2, <4>2 DEF ToSet
    <3> QED
      BY <3>1, <3>2, <3>3
  <2> QED
    BY <1>4, <1>7, <1>8, <2>1, <2>2
<1>20. PredsAre'
  <2>1. \A b \in Now : IsInjective(pre_bbs[b]) /\ ToSet(pre_bbs[b]) = {a \in Now : b \in ToSet(succ_bbs[a])}
    BY <1>1 DEF Linked, PredsAre
  <2>2. IsInjective(<<>>) /\ ToSet(<<>>) = {}
    BY DEF ToSet, IsInjective
  <2>3. \A b \in Now' : IsInjective(pre_bbs'[b]) /\ ToSet(pre_bbs'[b]) = {a \in Now' : b \in ToSet(succ_bbs'[a])}
    <3>1. \A b \in Now : pre_bbs'[b] = pre_bbs[b]
      BY <1>4, <1>7
    <3>2. \A b \in Now : IsInjective(pre_bbs'[b]) /\ ToSet(pre_bbs'[b]) = {a \in Now' : b \in ToSet(succ_bbs'[a])}
      BY <1>18, <2>1, <3>1
    <3>3. IsInjective(pre_bbs'[n + 1]) /\ ToSet(pre_bbs'[n + 1]) = {a \in Now' : n + 1 \in ToSet(succ_bbs'[a])}
      BY <1>4, <1>19, <2>2
    <3> QED
      BY <1>8, <3>2, <3>3
  <2>4. phase' # "move"
    BY <1>1
  <2> QED
    BY <2>3, <2>4 DEF PredsAre
<1>21. PhisAre'
  <2>1. \A i : Op(i)' = Op(i)
    BY <1>2 DEF Op
  <2>2. ASSUME NEW b \in Now', NEW i \in ToSet(code'[b]), Op(i) = "phi"
        PROVE  /\ inst[i].args \in Seq(({Zero} \cup DOMAIN original.inst) \X Nat) /\ Unique(inst[i].args)
               /\ Seconds(inst[i].args) = {a \in Now' : b \in ToSet(succ_bbs'[a])}
    <3>1. b \in Now
      BY <1>5, <1>8, <2>2 DEF ToSet
    <3>2. i \in ToSet(code[b])
      BY <1>5, <1>7, <2>2, <3>1
    <3>3. /\ inst[i].args \in Seq(({Zero} \cup DOMAIN original.inst) \X Nat) /\ Unique(inst[i].args)
          /\ Seconds(inst[i].args) = {a \in Now : b \in ToSet(succ_bbs[a])}
      BY <2>2, <3>1, <3>2 DEF Linked, PhisAre
    <3> QED
      BY <1>18, <3>1, <3>3
  <2> QED
    BY <1>2, <2>1, <2>2 DEF PhisAre
<1>22. CodeIs'
  <2>1. \A i : Op(i)' = Op(i)
    BY <1>2 DEF Op
  <2>2. \A b \in Now : code'[b] = code[b] /\ succ_bbs'[b] = succ_bbs[b]
    BY <1>4, <1>5, <1>7
  <2>3. ToSet(code'[n + 1]) = {} /\ IsInjective(code'[n + 1])
    BY <1>5 DEF ToSet, IsInjective
  <2>4. /\ \A b \in Now : IsInjective(code[b])
        /\ \A b, c \in Now : ToSet(code[b]) \cap ToSet(code[c]) # {} => b = c
        /\ \A b \in Added : succ_bbs[b] = <<>> => code[b] = <<>>
        /\ Added \subseteq Now
    BY <1>3 DEF Linked, CodeIs
  <2>5. \A b \in Now' : IsInjective(code'[b])
    BY <1>8, <2>2, <2>3, <2>4
  <2>6. \A b, c \in Now' : ToSet(code'[b]) \cap ToSet(code'[c]) # {} => b = c
    BY <1>8, <2>2, <2>3, <2>4
  <2>7. \A b \in Added' : succ_bbs'[b] = <<>> => code'[b] = <<>>
    BY <1>5, <1>8, <2>2, <2>4
  <2>8. /\ DOMAIN inst = DOMAIN original.inst
        /\ \A i \in DOMAIN inst : inst[i] = [original.inst[i] EXCEPT !.args = inst[i].args]
        /\ \A i \in DOMAIN inst : Op(i) # "phi" => inst[i] = original.inst[i]
    BY DEF Linked, CodeIs
  <2> QED
    BY <1>2, <2>1, <2>5, <2>6, <2>7, <2>8 DEF CodeIs
<1>23. \A l \in Loops : Within(l)' = Within(l) /\ inner(l)' = inner(l)
  <2> TAKE l \in Loops
  <2>1. inner(l)' = inner(l) /\ Body(l)' = Body(l)
    BY <1>2, <1>7 DEF inner, Body
  <2>2. Body(l) \subseteq Now /\ \A b \in Now : code'[b] = code[b]
    BY <1>5, <1>7, BodyIs DEF Linked
  <2> QED
    BY <2>1, <2>2 DEF Within
<1>24. Found'
  <2>1. \A i : Op(i)' = Op(i)
    BY <1>2 DEF Op
  <2>2. loop_invariant = <<>> => phase' = "traverse"
    BY <1>1
  <2>3. /\ loop_invariant \in Seq(DOMAIN inst) /\ IsInjective(loop_invariant)
        /\ ToSet(loop_invariant) \subseteq Within(loop)
        /\ \A i \in ToSet(loop_invariant) : Op(i) \notin {"store", "phi", "impure"}
    BY <1>1 DEF Linked, Found, Working
  <2>4. Within(loop)' = Within(loop)
    BY <1>1, <1>2, <1>23 DEF h
  <2>5. phase' \in {"traverse", "rewire"} /\ (phase' = "traverse" => loop_invariant = <<>>)
    BY <1>1
  <2> QED
    BY <1>2, <2>1, <2>3, <2>4, <2>5 DEF Found, Working
<1>25. Tables'
  <2>1. /\ \A l \in Loops : preheader'[l] = NoBlock \/ preheader'[l] \in Added'
        /\ \A l, m \in Loops : preheader'[l] = preheader'[m] /\ preheader'[l] # NoBlock => l = m
    <3>1. \A l \in Loops \ {h} : preheader'[l] = NoBlock \/ preheader'[l] \in Added
      BY <1>9, <1>10
    <3>2. \A l, m \in Loops \ {h} : preheader'[l] = preheader'[m] /\ preheader'[l] # NoBlock => l = m
      BY <1>9 DEF Linked, Tables
    <3> QED
      BY <1>8, <1>9, <3>1, <3>2
  <2>2. \A b \in Added' : \E l \in Loops : preheader'[l] = b
    <3>1. ASSUME NEW b \in Added PROVE \E l \in Loops : preheader'[l] = b
      <4>1. PICK l \in Loops : preheader[l] = b
        BY DEF Linked, Tables
      <4>2. l # h
        BY <1>1, <1>3, <4>1 DEF h
      <4> QED
        BY <1>9, <4>1, <4>2
    <3> QED
      BY <1>1, <1>8, <1>9, <3>1 DEF h
  <2>3. is_loop_done \subseteq Loops /\ \A l \in Loops \ is_loop_done : preheader'[l] = NoBlock
    BY <1>1, <1>9 DEF Linked, Tables, h
  <2>4. phase' \in {"traverse", "rewire"} /\ loop' \in is_loop_done
    BY <1>1, <1>2 DEF h
  <2>5. preheader'[loop'] # NoBlock /\ loop' \notin Rewired
    BY <1>1, <1>2, <1>8, <1>9 DEF Rewired, h
  <2> QED
    BY <1>2, <1>3, <1>7, <1>9, <1>11, <2>1, <2>2, <2>3, <2>4, <2>5 DEF Tables, Working
<1> QED
  BY <1>7, <1>11, <1>14, <1>15, <1>16, <1>17, <1>20, <1>21, <1>22, <1>23, <1>24, <1>25 DEF Linked

-----------------------------------------------------------------------------
(* Who leads to the header of a loop that has no preheader in use.           *)
LEMMA LeadsToHeader ==
    ASSUME Linked, NEW h \in Loops, h \notin Rewired
    PROVE  /\ {a \in Now : h \in ToSet(succ_bbs[a])} = {Entry(Graph, h)} \cup Latches(Graph, 1, h)
           /\ Entry(Graph, h) \in Places /\ Entry(Graph, h) \notin Latches(Graph, 1, h)
           /\ \A l \in Rewired : Entry(Graph, h) # Entry(Graph, l)
           /\ succ_bbs[Entry(Graph, h)] = <<h>>
           /\ Latches(Graph, 1, h) \subseteq Places
<1> DEFINE e == Entry(Graph, h)
<1>1. /\ IsLoopGraph(Graph) /\ DOMAIN Graph = Places /\ Places \subseteq Now /\ Added = Now \ Places
      /\ Loops = Headers(Graph) /\ NoBlock \notin Now /\ h \in Places
      /\ Headers(Graph) \subseteq Places
  BY Shape DEF Linked, Tables
<1>2. /\ e \in Places /\ Graph[e] = <<h>> /\ ToSet(Graph[e]) = {h} /\ e \notin Latches(Graph, 1, h)
      /\ \A b \in Places : h \in ToSet(Graph[b]) => b = e \/ b \in Latches(Graph, 1, h)
  BY <1>1, EntryFacts
<1>3. \A l \in Rewired : /\ l # h /\ l \in Headers(Graph)
                         /\ Entry(Graph, l) \in Places /\ ToSet(Graph[Entry(Graph, l)]) = {l}
  BY <1>1, EntryFacts DEF Rewired
<1>4. \A l \in Rewired : e # Entry(Graph, l)
  BY <1>2, <1>3
<1> HIDE DEF e
<1>5. succ_bbs[e] = <<h>>
  BY <1>2, <1>4 DEF Linked, SuccsAre
<1>6. Latches(Graph, 1, h) \subseteq Places /\ \A b \in Latches(Graph, 1, h) : h \in ToSet(Graph[b])
  <2>1. Latches(Graph, 1, h) \subseteq DominatedBy(Graph, 1)[h] /\ \A b \in Latches(Graph, 1, h) : h \in ToSet(Graph[b])
    BY DEF Latches
  <2>2. Latches(Graph, 1, h) \subseteq Natural(Graph, h) /\ Natural(Graph, h) \subseteq Places
    BY <1>1, HeaderFacts
  <2> QED
    BY <2>1, <2>2
<1>7. ASSUME NEW a \in Now, h \in ToSet(succ_bbs[a]) PROVE a = e \/ a \in Latches(Graph, 1, h)
  <2>1. CASE \E l \in Rewired : a = Entry(Graph, l) \/ a = preheader[l]
    <3>1. PICK l \in Rewired : a = Entry(Graph, l) \/ a = preheader[l]
      BY <2>1
    <3>2. ToSet(succ_bbs[a]) = {preheader[l]} \/ ToSet(succ_bbs[a]) = {l}
      BY <3>1 DEF Linked, SuccsAre, ToSet
    <3>3. preheader[l] \in Added
      BY <1>3 DEF Rewired, Linked, Tables
    <3> QED
      BY <1>1, <1>3, <1>7, <3>2, <3>3
  <2>2. CASE a \in Places /\ \A l \in Rewired : a # Entry(Graph, l)
    <3>1. succ_bbs[a] = Graph[a]
      BY <2>2 DEF Linked, SuccsAre
    <3> QED
      BY <1>2, <1>7, <2>2, <3>1
  <2>3. CASE a \notin Places /\ \A l \in Rewired : a # preheader[l]
    <3>1. PICK l \in Loops : preheader[l] = a
      BY <1>1, <2>3 DEF Linked, Tables
    <3>2. succ_bbs[a] = <<>>
      BY <1>1, <2>3, <3>1 DEF Rewired
    <3> QED
      BY <1>7, <3>2 DEF ToSet
  <2> QED
    BY <2>1, <2>2, <2>3
<1>8. ASSUME NEW a \in Latches(Graph, 1, h) PROVE a \in Now /\ h \in ToSet(succ_bbs[a])
  <2>1. \A l \in Rewired : a # Entry(Graph, l)
    BY <1>3, <1>6
  <2>2. succ_bbs[a] = Graph[a]
    BY <1>6, <2>1 DEF Linked, SuccsAre
  <2> QED
    BY <1>1, <1>6, <2>2
<1>9. e \in Now /\ h \in ToSet(succ_bbs[e])
  <2>1. h \in ToSet(<<h>>)
    BY DEF ToSet
  <2> QED
    BY <1>1, <1>2, <1>5, <2>1
<1>10. {a \in Now : h \in ToSet(succ_bbs[a])} = {e} \cup Latches(Graph, 1, h)
  BY <1>7, <1>8, <1>9
<1> QED
  BY <1>2, <1>4, <1>5, <1>6, <1>10 DEF e

LEMMA LatchesAre ==
    ASSUME Linked, NEW h \in Loops
    PROVE  latches(h) = Latches(Graph, 1, h)
<1>1. /\ IsLoopGraph(Graph) /\ DOMAIN Graph = Places /\ Loops = Headers(Graph)
  BY Shape DEF Linked, Tables
<1>2. blocks[h] \cap Places = Natural(Graph, h)
  BY BodyIs DEF Linked
<1>3. latches(h) = {p \in Natural(Graph, h) : h \in ToSet(Graph[p])}
  BY <1>1, <1>2 DEF latches, Graph
<1>4. Latches(Graph, 1, h) = {p \in DominatedBy(Graph, 1)[h] : h \in ToSet(Graph[p])}
  BY DEF Latches
<1>5. Latches(Graph, 1, h) \subseteq Natural(Graph, h) /\ Natural(Graph, h) \subseteq DominatedBy(Graph, 1)[h]
  BY <1>1, HeaderFacts
<1> QED
  BY <1>3, <1>4, <1>5

IsList(f, n, V) == f = [k \in 1 .. n |-> f[k]] /\ \A k \in 1 .. n : f[k] \in V

LEMMA ListFacts ==
    ASSUME NEW V, NEW n \in Nat, NEW f, IsList(f, n, V)
    PROVE  f \in Seq(V) /\ Len(f) = n
<1>1. f \in [1 .. n -> V]
  BY DEF IsList
<1> QED
  BY <1>1

-----------------------------------------------------------------------------
(* The pairs of a phi of the header, of which one is not of a latch.         *)
LEMMA RetargetedIs ==
    ASSUME Linked, phase = "rewire", NEW i \in ToSet(code[loop]), Op(i) = "phi"
    PROVE  LET p == preheader[loop]
               e == Entry(Graph, loop)
           IN  \E k \in DOMAIN inst[i].args :
                  /\ inst[i].args[k][2] = e
                  /\ retargeted(i) = Append(RemoveAt(inst[i].args, k), <<inst[i].args[k][1], p>>)
<1> DEFINE pairs == inst[i].args
           e == Entry(Graph, loop)
<1>1. loop \in Loops /\ loop \notin Rewired
  BY DEF Linked, Tables, Working
<1>2. loop \in Now
  BY <1>1, BodyIs, Shape DEF Linked
<1>3. Unique(pairs) /\ Seconds(pairs) = {e} \cup Latches(Graph, 1, loop) /\ e \notin Latches(Graph, 1, loop)
  <2>1. Unique(pairs) /\ Seconds(pairs) = {a \in Now : loop \in ToSet(succ_bbs[a])}
    BY <1>2 DEF Linked, PhisAre
  <2> QED
    BY <1>1, <2>1, LeadsToHeader
<1>4. latches(loop) = Latches(Graph, 1, loop)
  BY <1>1, LatchesAre
<1> HIDE DEF e
<1>5. \A j \in DOMAIN pairs : pairs[j][2] \in latches(loop) \/ pairs[j][2] = e
  <2>1. \A j \in DOMAIN pairs : pairs[j] \in ToSet(pairs)
    BY DEF ToSet
  <2>2. \A j \in DOMAIN pairs : pairs[j][2] \in Seconds(pairs)
    BY <2>1 DEF Seconds
  <2> QED
    BY <1>3, <1>4, <2>2
<1>6. PICK k \in DOMAIN pairs : pairs[k][2] = e
  BY <1>3 DEF Seconds, ToSet
<1> DEFINE outer == {j \in DOMAIN pairs : pairs[j][2] \notin latches(loop)}
<1>7. outer = {k}
  BY <1>3, <1>4, <1>5, <1>6 DEF Unique
<1>8. Min({k}) = k
  <2>1. k \in Nat
    <3>1. pairs \in Seq(({Zero} \cup DOMAIN original.inst) \X Nat)
      BY <1>2 DEF Linked, PhisAre
    <3> QED
      BY <1>6, <3>1
  <2> QED
    BY <2>1 DEF Min
<1>9. retargeted(i) = Append(RemoveAt(pairs, k), <<pairs[k][1], preheader[loop]>>)
  BY <1>7, <1>8 DEF retargeted
<1> QED
  BY <1>6, <1>9 DEF e

LEMMA ToSetOne ==
    ASSUME NEW S, NEW t \in Seq(S), ToSet(t) = {}
    PROVE  t = <<>>
<1>1. ~ 1 \in DOMAIN t
  BY DEF ToSet
<1> QED
  BY <1>1

LEMMA RewireIs ==
    ASSUME Linked, Rewire
    PROVE  LET p == preheader[loop]
               e == Entry(Graph, loop)
           IN  /\ loop \in Loops /\ loop \notin Rewired /\ p \in Added /\ e \in Places /\ loop \in Places
               /\ Len(succ_bbs') = Len(succ_bbs) /\ Len(pre_bbs') = Len(pre_bbs) /\ Len(term') = Len(term)
               /\ succ_bbs' \in Seq(Seq(Nat)) /\ pre_bbs' \in Seq(Seq(Nat))
               /\ term' \in Seq([op : {"br", "ret", "none"}, args : Seq(Nat)])
               /\ succ_bbs'[p] = <<loop>> /\ succ_bbs'[e] = <<p>>
               /\ \A b \in Now \ {p, e} : succ_bbs'[b] = succ_bbs[b]
               /\ term'[e].op = "br" /\ term'[e].args = <<p>>
               /\ \A b \in Now \ {e} : term'[b] = term[b]
               /\ ToSet(pre_bbs'[p]) = {e} /\ IsInjective(pre_bbs'[p])
               /\ ToSet(pre_bbs'[loop]) = Latches(Graph, 1, loop) /\ IsInjective(pre_bbs'[loop])
               /\ \A b \in Now \ {p, loop} : pre_bbs'[b] = pre_bbs[b]
<1> DEFINE p == preheader[loop]
           e == Entry(Graph, loop)
           lat == Latches(Graph, 1, loop)
           outer == without(pre_bbs[loop], latches(loop))
           back  == without(pre_bbs[loop], ToSet(outer))
<1>1. phase = "rewire" /\ loop \in Loops /\ loop \notin Rewired /\ p \in Added
  BY DEF Rewire, Linked, Tables, Working
<1>2. /\ IsLoopGraph(Graph) /\ DOMAIN Graph = Places /\ Places \subseteq Now /\ Added = Now \ Places
      /\ Now \subseteq Nat /\ DOMAIN succ_bbs = Now /\ DOMAIN pre_bbs = Now /\ DOMAIN term = Now
      /\ Len(succ_bbs) \in Nat /\ Now = 1 .. Len(succ_bbs)
  BY Shape DEF Linked, Now
<1>3. loop \in Places
  BY <1>1, BodyIs DEF Linked
<1>4. /\ {a \in Now : loop \in ToSet(succ_bbs[a])} = {e} \cup lat
      /\ e \in Places /\ e \notin lat /\ (\A l \in Rewired : e # Entry(Graph, l)) /\ succ_bbs[e] = <<loop>>
  BY <1>1, LeadsToHeader
<1>5. ToSet(pre_bbs[loop]) = {e} \cup lat /\ IsInjective(pre_bbs[loop]) /\ pre_bbs[loop] \in Seq(Nat)
  <2>1. loop \in Now
    BY <1>2, <1>3
  <2>2. IsInjective(pre_bbs[loop]) /\ ToSet(pre_bbs[loop]) = {a \in Now : loop \in ToSet(succ_bbs[a])}
    BY <1>1, <2>1 DEF Linked, PredsAre
  <2>3. pre_bbs[loop] \in Seq(Nat)
    BY <2>1, Shape DEF Linked
  <2> QED
    BY <1>4, <2>2, <2>3
<1>6. latches(loop) = lat
  BY <1>1, LatchesAre
<1> HIDE DEF e, lat
<1>7. outer \in Seq(Nat) /\ ToSet(outer) = {e} /\ IsInjective(outer)
  BY <1>4, <1>5, <1>6, WithoutFacts
<1>8. back \in Seq(Nat) /\ ToSet(back) = lat /\ IsInjective(back)
  <2> HIDE DEF outer
  <2>1. back \in Seq(Nat) /\ ToSet(back) = ToSet(pre_bbs[loop]) \ ToSet(outer) /\ IsInjective(back)
    BY <1>5, WithoutFacts
  <2> HIDE DEF back
  <2> QED
    BY <1>4, <1>5, <1>7, <2>1
<1>9. without(<<loop>>, {loop}) = <<>>
  <2> DEFINE t == <<loop>>
             D == {loop}
  <2>1. t \in Seq(Nat) /\ ToSet(t) = D
    BY <1>2, <1>3 DEF ToSet
  <2> HIDE DEF t, D
  <2>2. without(t, D) \in Seq(Nat) /\ ToSet(without(t, D)) = {}
    <3>1. without(t, D) \in Seq(Nat) /\ ToSet(without(t, D)) = ToSet(t) \ D
      BY <2>1, WithoutFacts
    <3> QED
      BY <2>1, <3>1
  <2> QED
    BY <2>2, ToSetOne DEF t, D
<1>10. /\ succ_bbs' = [b \in DOMAIN succ_bbs |->
               CASE b = p            -> <<loop>>
                 [] b \in ToSet(outer) -> Append(without(succ_bbs[b], {loop}), p)
                 [] OTHER            -> succ_bbs[b]]
       /\ pre_bbs' = [pre_bbs EXCEPT ![p] = outer,
               ![loop] = without(pre_bbs[loop], ToSet(outer))]
       /\ term' = [b \in DOMAIN term |->
               IF b \in ToSet(outer) /\ term[b].op = "br"
               THEN [term[b] EXCEPT !.args[1] = p] ELSE term[b]]
  BY DEF Rewire
<1> HIDE DEF p
<1>11. p \in Now /\ p # e /\ p # loop /\ e \in Now /\ loop \in Now /\ p \in Nat /\ loop \in Nat
  BY <1>1, <1>2, <1>3, <1>4 DEF p
<1>12. /\ DOMAIN succ_bbs' = Now /\ succ_bbs'[p] = <<loop>> /\ succ_bbs'[e] = <<p>>
       /\ \A b \in Now \ {p, e} : succ_bbs'[b] = succ_bbs[b]
  <2>1. Append(without(succ_bbs[e], {loop}), p) = <<p>>
    BY <1>4, <1>9
  <2> HIDE DEF outer
  <2> QED
    BY <1>2, <1>7, <1>10, <1>11, <2>1
<1>13. /\ DOMAIN pre_bbs' = Now /\ pre_bbs'[p] = outer /\ pre_bbs'[loop] = back
       /\ \A b \in Now \ {p, loop} : pre_bbs'[b] = pre_bbs[b]
  <2> HIDE DEF outer
  <2> QED
    BY <1>2, <1>10, <1>11
<1>14. term[e].op = "br" /\ term[e].args = <<loop>> /\ term[e] \in [op : {"br", "ret", "none"}, args : Seq(Nat)]
  <2>1. term[e] = original.term[e]
    BY <1>4 DEF Linked, TermsAre
  <2>2. targets(term[e]) = <<loop>>
    <3>1. Graph[e] = <<loop>>
      BY <1>4 DEF Linked, SuccsAre
    <3> QED
      BY <1>4, <2>1, <3>1, Shape DEF Linked
  <2>3. Len(term[e].args) \in {1, 3}
    <3>1. Branches(original) /\ DOMAIN Graph = Places
      BY Shape DEF Linked
    <3>2. Len(original.term[e].args) \in {1, 3}
      BY <1>4, <3>1 DEF Branches, Graph
    <3> QED
      BY <2>1, <3>2
  <2>4. term[e] \in [op : {"br", "ret", "none"}, args : Seq(Nat)]
    BY <1>11, Shape DEF Linked
  <2>5. term[e].args \in Seq(Nat)
    BY <2>4
  <2>6. term[e].op = "br"
    BY <2>2 DEF targets
  <2>7. CASE Len(term[e].args) = 3
    <3>1. Tail(term[e].args) = <<loop>>
      BY <2>2, <2>6, <2>7 DEF targets
    <3> DEFINE t == term[e].args
    <3>2. t \in Seq(Nat) /\ Len(t) = 3 /\ Tail(t) = <<loop>>
      BY <2>5, <2>7, <3>1
    <3> HIDE DEF t
    <3>3. Len(Tail(t)) = 2
      BY <3>2
    <3> DEFINE u == <<loop>>
    <3>4. Len(u) = 1
      OBVIOUS
    <3>5. Tail(t) = u
      BY <3>2
    <3> HIDE DEF u
    <3> QED
      BY <3>3, <3>4, <3>5
  <2>8. CASE Len(term[e].args) = 1
    BY <2>2, <2>4, <2>6, <2>8 DEF targets
  <2> QED
    BY <2>3, <2>7, <2>8
<1>15. /\ DOMAIN term' = Now /\ term'[e] = [term[e] EXCEPT !.args[1] = p]
       /\ \A b \in Now \ {e} : term'[b] = term[b]
  <2> HIDE DEF outer
  <2> QED
    BY <1>2, <1>7, <1>10, <1>11, <1>14
<1>16. term'[e].op = "br" /\ term'[e].args = <<p>> /\ term'[e] \in [op : {"br", "ret", "none"}, args : Seq(Nat)]
  <2>1. term'[e] = [term[e] EXCEPT !.args = [term[e].args EXCEPT ![1] = p]]
    BY <1>15
  <2>2. [term[e].args EXCEPT ![1] = p] = <<p>> /\ <<p>> \in Seq(Nat)
    BY <1>11, <1>14
  <2> QED
    BY <1>14, <2>1, <2>2
<1>17. /\ succ_bbs' \in Seq(Seq(Nat)) /\ Len(succ_bbs') = Len(succ_bbs)
       /\ pre_bbs' \in Seq(Seq(Nat)) /\ Len(pre_bbs') = Len(pre_bbs)
  <2>1. \A b \in Now : succ_bbs'[b] \in Seq(Nat) /\ pre_bbs'[b] \in Seq(Nat)
    <3>1. \A b \in Now : succ_bbs[b] \in Seq(Nat) /\ pre_bbs[b] \in Seq(Nat)
      BY Shape DEF Linked
    <3>2. <<loop>> \in Seq(Nat) /\ <<p>> \in Seq(Nat)
      BY <1>11
    <3> HIDE DEF outer, back
    <3> QED
      BY <1>7, <1>8, <1>12, <1>13, <3>1, <3>2
  <2> DEFINE V == Seq(Nat)
  <2>2. \A b \in Now : succ_bbs'[b] \in V /\ pre_bbs'[b] \in V
    BY <2>1
  <2>3. succ_bbs' = [b \in Now |-> succ_bbs'[b]] /\ pre_bbs' = [b \in Now |-> pre_bbs'[b]]
    <3> HIDE DEF outer, V
    <3>1. succ_bbs' = [b \in Now |-> succ_bbs'[b]]
      BY <1>2, <1>10
    <3>2. pre_bbs' = [b \in Now |-> pre_bbs'[b]]
      BY <1>2, <1>10
    <3> QED
      BY <3>1, <3>2
  <2>4. Len(pre_bbs) = Len(succ_bbs)
    BY DEF Linked, Types
  <2> HIDE DEF V
  <2> DEFINE n == Len(succ_bbs)
             s == succ_bbs'
             t == pre_bbs'
  <2>a. n \in Nat /\ IsList(s, n, V)
    BY <1>2, <2>2, <2>3 DEF IsList
  <2>b. n \in Nat /\ IsList(t, n, V)
    BY <1>2, <2>2, <2>3 DEF IsList
  <2> HIDE DEF n, s, t
  <2>c. s \in Seq(V) /\ Len(s) = n
    BY <2>a, ListFacts
  <2>d. t \in Seq(V) /\ Len(t) = n
    BY <2>b, ListFacts
  <2>5. succ_bbs' \in Seq(V) /\ Len(succ_bbs') = Len(succ_bbs) /\ pre_bbs' \in Seq(V) /\ Len(pre_bbs') = Len(succ_bbs)
    BY <2>c, <2>d DEF s, t, n
  <2> QED
    BY <2>4, <2>5 DEF V
<1>18. term' \in Seq([op : {"br", "ret", "none"}, args : Seq(Nat)]) /\ Len(term') = Len(term)
  <2> DEFINE V == [op : {"br", "ret", "none"}, args : Seq(Nat)]
  <2>1. \A b \in Now : term[b] \in V
    BY Shape DEF Linked
  <2>2. term'[e] \in V
    BY <1>16
  <2>3. term' = [b \in Now |-> term'[b]]
    <3> HIDE DEF outer, V
    <3> QED
      BY <1>2, <1>10
  <2>4. Len(term) = Len(succ_bbs)
    BY DEF Linked, Types
  <2> HIDE DEF V
  <2>5. \A b \in Now : term'[b] \in V
    BY <1>15, <2>1, <2>2
  <2> DEFINE n == Len(succ_bbs)
             s == term'
  <2>a. n \in Nat /\ IsList(s, n, V)
    BY <1>2, <2>3, <2>5 DEF IsList
  <2> HIDE DEF n, s
  <2>c. s \in Seq(V) /\ Len(s) = n
    BY <2>a, ListFacts
  <2>6. term' \in Seq(V) /\ Len(term') = Len(succ_bbs)
    BY <2>c DEF s, n
  <2> QED
    BY <2>4, <2>6 DEF V
<1> HIDE DEF outer, back
<1>19. ToSet(pre_bbs'[p]) = {e} /\ IsInjective(pre_bbs'[p]) /\ ToSet(pre_bbs'[loop]) = lat /\ IsInjective(pre_bbs'[loop])
  BY <1>7, <1>8, <1>13
<1> QED
  BY <1>1, <1>3, <1>4, <1>12, <1>13, <1>15, <1>16, <1>17, <1>18, <1>19 DEF p, e, lat

-----------------------------------------------------------------------------
LEMMA RewiredPreds ==
    ASSUME Linked, Rewire
    PROVE  LET p == preheader[loop]
               e == Entry(Graph, loop)
           IN  /\ {a \in Now : p \in ToSet(succ_bbs'[a])} = {e}
               /\ {a \in Now : loop \in ToSet(succ_bbs'[a])} = {p} \cup Latches(Graph, 1, loop)
               /\ \A b \in Now \ {p, loop} :
                     {a \in Now : b \in ToSet(succ_bbs'[a])} = {a \in Now : b \in ToSet(succ_bbs[a])}
<1> DEFINE p == preheader[loop]
           e == Entry(Graph, loop)
           lat == Latches(Graph, 1, loop)
<1>1. /\ loop \in Loops /\ loop \notin Rewired /\ p \in Added /\ e \in Places /\ loop \in Places
      /\ succ_bbs'[p] = <<loop>> /\ succ_bbs'[e] = <<p>>
      /\ \A b \in Now \ {p, e} : succ_bbs'[b] = succ_bbs[b]
  BY RewireIs
<1>2. /\ IsLoopGraph(Graph) /\ DOMAIN Graph = Places /\ Places \subseteq Now /\ Added = Now \ Places
      /\ NoBlock \notin Now /\ Headers(Graph) \subseteq Places /\ Loops = Headers(Graph)
  BY Shape DEF Linked, Tables
<1>3. succ_bbs[p] = <<>>
  BY <1>1, <1>2 DEF Rewired
<1>4. /\ {a \in Now : loop \in ToSet(succ_bbs[a])} = {e} \cup lat
      /\ e \notin lat /\ succ_bbs[e] = <<loop>> /\ lat \subseteq Places
  BY <1>1, LeadsToHeader
<1>5. ASSUME NEW a \in Now, p \in ToSet(succ_bbs[a]) PROVE FALSE
  <2>1. CASE \E l \in Rewired : a = Entry(Graph, l) \/ a = preheader[l]
    <3>1. PICK l \in Rewired : a = Entry(Graph, l) \/ a = preheader[l]
      BY <2>1
    <3>2. p = preheader[l] \/ p = l
      BY <1>5, <3>1 DEF Linked, SuccsAre, ToSet
    <3>3. l \in Loops /\ preheader[l] # NoBlock /\ l # loop
      BY <1>1 DEF Rewired
    <3>4. p # preheader[l]
      BY <1>1, <3>3 DEF Linked, Tables
    <3>5. p # l
      BY <1>1, <1>2, <3>3
    <3> QED
      BY <3>2, <3>4, <3>5
  <2>2. CASE a \in Places /\ \A l \in Rewired : a # Entry(Graph, l)
    <3>1. succ_bbs[a] = Graph[a]
      BY <2>2 DEF Linked, SuccsAre
    <3>2. ToSet(Graph[a]) \subseteq Places
      BY <1>2, <2>2 DEF IsLoopGraph, IsFlowGraph, IsGraph
    <3> QED
      BY <1>1, <1>2, <1>5, <3>1, <3>2
  <2>3. CASE a \notin Places /\ \A l \in Rewired : a # preheader[l]
    <3>1. PICK l \in Loops : preheader[l] = a
      BY <1>2, <2>3 DEF Linked, Tables
    <3>2. succ_bbs[a] = <<>>
      BY <1>2, <2>3, <3>1 DEF Rewired
    <3> QED
      BY <1>5, <3>2 DEF ToSet
  <2> QED
    BY <2>1, <2>2, <2>3
<1> HIDE DEF p, e, lat
<1>6. /\ ToSet(succ_bbs'[p]) = {loop} /\ ToSet(succ_bbs'[e]) = {p} /\ ToSet(succ_bbs[p]) = {} /\ ToSet(succ_bbs[e]) = {loop}
      /\ p # e /\ p # loop /\ p \in Now /\ e \in Now /\ p \notin lat
  BY <1>1, <1>2, <1>3, <1>4 DEF ToSet
<1>7. {a \in Now : p \in ToSet(succ_bbs'[a])} = {e}
  BY <1>1, <1>5, <1>6
<1>8. {a \in Now : loop \in ToSet(succ_bbs'[a])} = {p} \cup lat
  <2>1. \A a \in Now : loop \in ToSet(succ_bbs[a]) <=> a = e \/ a \in lat
    BY <1>4
  <2>2. \A a \in Now : loop \in ToSet(succ_bbs'[a]) <=> a = p \/ a \in lat
    BY <1>1, <1>4, <1>6, <2>1
  <2> QED
    BY <1>2, <1>4, <1>6, <2>2
<1>9. \A b \in Now \ {p, loop} : {a \in Now : b \in ToSet(succ_bbs'[a])} = {a \in Now : b \in ToSet(succ_bbs[a])}
  BY <1>1, <1>6
<1> QED
  BY <1>7, <1>8, <1>9 DEF p, e, lat

LEMMA RewireInst ==
    ASSUME Linked, Rewire
    PROVE  /\ DOMAIN inst' = DOMAIN inst
           /\ \A i \in DOMAIN inst : /\ inst'[i] = [inst[i] EXCEPT !.args = inst'[i].args]
                                     /\ Op(i)' = Op(i)
           /\ \A i \in DOMAIN inst : Op(i) # "phi" \/ i \notin ToSet(code[loop]) => inst'[i] = inst[i]
           /\ \A i \in ToSet(code[loop]) : Op(i) = "phi" => inst'[i].args = retargeted(i)
<1>1. inst' = [i \in DOMAIN inst |->
               IF i \in ToSet(code[loop]) /\ inst[i].op = "phi"
               THEN [inst[i] EXCEPT !.args = retargeted(i)] ELSE inst[i]]
  BY DEF Rewire
<1>2. loop \in Now /\ ToSet(code[loop]) \subseteq DOMAIN inst
  <2>1. loop \in Loops
    BY DEF Rewire, Linked, Tables, Working
  <2>2. loop \in Now
    BY <2>1, BodyIs, Shape DEF Linked
  <2>3. code[loop] \in Seq(DOMAIN original.inst)
    BY <2>2, Shape DEF Linked
  <2> QED
    BY <2>2, <2>3 DEF Linked, CodeIs, ToSet
<1>3. \A i \in DOMAIN inst : inst[i] = [original.inst[i] EXCEPT !.args = inst[i].args] /\ original.inst[i] \in [op : {"phi", "load", "store", "plain", "pure", "impure"}, args : {original.inst[i].args}, cell : Cells]
  <2>1. \A i \in DOMAIN inst : inst[i] = [original.inst[i] EXCEPT !.args = inst[i].args]
    BY DEF Linked, CodeIs
  <2>2. DOMAIN inst = DOMAIN original.inst /\ Instructions(original)
    BY Shape DEF Linked, CodeIs
  <2> QED
    BY <2>1, <2>2 DEF Instructions, ToSet
<1>4. ASSUME NEW i \in DOMAIN inst
      PROVE  /\ inst'[i] = [inst[i] EXCEPT !.args = inst'[i].args]
             /\ inst'[i].op = inst[i].op
             /\ i \in ToSet(code[loop]) /\ inst[i].op = "phi" => inst'[i].args = retargeted(i)
  <2>1. inst[i] = [op |-> original.inst[i].op, args |-> inst[i].args, cell |-> original.inst[i].cell]
    BY <1>3
  <2> DEFINE new == retargeted(i)
  <2>2. CASE i \in ToSet(code[loop]) /\ inst[i].op = "phi"
    <3>1. inst'[i] = [inst[i] EXCEPT !.args = new]
      BY <1>1, <2>2
    <3> HIDE DEF new
    <3>2. inst'[i] = [op |-> original.inst[i].op, args |-> new, cell |-> original.inst[i].cell]
      BY <2>1, <3>1
    <3>3. inst'[i].args = new
      BY <3>2
    <3> QED
      BY <2>1, <3>1, <3>2, <3>3 DEF new
  <2>3. CASE ~(i \in ToSet(code[loop]) /\ inst[i].op = "phi")
    <3>1. inst'[i] = inst[i]
      BY <1>1, <2>3
    <3> QED
      BY <2>1, <2>3, <3>1
  <2> QED
    BY <2>2, <2>3
<1> QED
  BY <1>1, <1>2, <1>4 DEF Op

-----------------------------------------------------------------------------
LEMMA LinkedRewire ==
    ASSUME Linked, Rewire
    PROVE  /\ Linked' /\ Loops' = Loops /\ Rewired' = Rewired \cup {loop} /\ phase' = "move"
           /\ \A l \in Loops : Within(l)' = Within(l) /\ inner(l)' = inner(l)
<1> DEFINE p == preheader[loop]
           e == Entry(Graph, loop)
           lat == Latches(Graph, 1, loop)
<1>1. /\ phase = "rewire" /\ phase' = "move"
      /\ UNCHANGED <<original, code, blocks, preheader, is_loop_done, loop, loop_invariant, before, after>>
  BY DEF Rewire, loop_vars
<1>2. /\ loop \in Loops /\ loop \notin Rewired /\ p \in Added /\ e \in Places /\ loop \in Places
      /\ Len(succ_bbs') = Len(succ_bbs) /\ Len(pre_bbs') = Len(pre_bbs) /\ Len(term') = Len(term)
      /\ succ_bbs' \in Seq(Seq(Nat)) /\ pre_bbs' \in Seq(Seq(Nat))
      /\ term' \in Seq([op : {"br", "ret", "none"}, args : Seq(Nat)])
      /\ succ_bbs'[p] = <<loop>> /\ succ_bbs'[e] = <<p>>
      /\ \A b \in Now \ {p, e} : succ_bbs'[b] = succ_bbs[b]
      /\ term'[e].op = "br" /\ term'[e].args = <<p>>
      /\ \A b \in Now \ {e} : term'[b] = term[b]
      /\ ToSet(pre_bbs'[p]) = {e} /\ IsInjective(pre_bbs'[p])
      /\ ToSet(pre_bbs'[loop]) = lat /\ IsInjective(pre_bbs'[loop])
      /\ \A b \in Now \ {p, loop} : pre_bbs'[b] = pre_bbs[b]
  BY RewireIs
<1>3. /\ IsLoopGraph(Graph) /\ DOMAIN Graph = Places /\ Places \subseteq Now /\ Added = Now \ Places
      /\ NoBlock \notin Now /\ Headers(Graph) \subseteq Places /\ Loops = Headers(Graph)
      /\ Now \subseteq Nat
  BY Shape DEF Linked, Tables, Now
<1>4. /\ Graph' = Graph /\ Places' = Places /\ Count' = Count /\ Loops' = Loops /\ Now' = Now /\ Added' = Added
  BY <1>1, <1>2 DEF Graph, Places, Count, Loops, Now, Added
<1>5. \A l \in Loops \ {loop} : preheader[l] # p /\ preheader[l] # e
  <2> TAKE l \in Loops \ {loop}
  <2>1. preheader[l] # p
    BY <1>2, <1>3 DEF Linked, Tables
  <2>2. preheader[l] = NoBlock \/ preheader[l] \in Added
    BY DEF Linked, Tables
  <2> QED
    BY <1>2, <1>3, <2>1, <2>2
<1>6. \A l \in Rewired : /\ l \in Loops \ {loop} /\ preheader[l] \in Now /\ Entry(Graph, l) \in Places
                         /\ Entry(Graph, l) # e /\ Entry(Graph, l) # p
                         /\ preheader[l] # p /\ preheader[l] # e
  <2>1. \A l \in Rewired : l \in Loops \ {loop} /\ Entry(Graph, l) \in Places
    BY <1>2, <1>3, EntryFacts DEF Rewired
  <2>2. \A l \in Rewired : Entry(Graph, l) # e
    BY <1>2, LeadsToHeader
  <2>3. \A l \in Rewired : preheader[l] \in Now
    BY <1>3 DEF Rewired, Linked, Tables
  <2> HIDE DEF p, e
  <2> QED
    BY <1>2, <1>3, <1>5, <2>1, <2>2, <2>3
<1> HIDE DEF p, e, lat
<1>7. Rewired' = Rewired \cup {loop}
  <2>1. \A l \in Loops \ {loop} : l \in Rewired' <=> l \in Rewired
    <3> TAKE l \in Loops \ {loop}
    <3>1. preheader[l] = NoBlock \/ preheader[l] \in Now
      BY <1>3 DEF Linked, Tables
    <3>2. preheader[l] \in Now => succ_bbs'[preheader[l]] = succ_bbs[preheader[l]]
      BY <1>2, <1>5
    <3> QED
      BY <1>1, <1>4, <3>1, <3>2 DEF Rewired
  <2>2. loop \in Rewired'
    <3>1. p # NoBlock /\ succ_bbs'[p] # <<>>
      BY <1>2, <1>3
    <3> QED
      BY <1>1, <1>2, <1>4, <3>1 DEF Rewired, p
  <2> QED
    BY <1>2, <1>4, <2>1, <2>2 DEF Rewired
<1>8. \A l \in Loops : ~Moving(l) /\ (Moving(l)' <=> l = loop)
  BY <1>1 DEF Moving
<1>9. Types'
  <2>1. code' \in Seq(Seq(DOMAIN original'.inst)) /\ original' \in Programs
    BY <1>1 DEF Linked, Types
  <2> QED
    BY <1>1, <1>2, <1>4, <2>1 DEF Linked, Types
<1>10. BlocksAre'
  <2> SUFFICES ASSUME NEW l \in Loops
               PROVE  blocks[l] = Natural(Graph, l) \cup {preheader[k] : k \in {k \in Rewired' : k # loop /\ Parent(Graph, k) = l}}
    <3>1. \A m : {k \in Rewired' : ~Moving(k)' /\ Parent(Graph, k) = m} = {k \in Rewired' : k # loop /\ Parent(Graph, k) = m}
      BY <1>2, <1>6, <1>7, <1>8
    <3> QED
      BY <1>1, <1>4, <3>1 DEF BlocksAre
  <2>1. blocks[l] = Natural(Graph, l) \cup {preheader[k] : k \in {k \in Rewired : ~Moving(k) /\ Parent(Graph, k) = l}}
    BY DEF Linked, BlocksAre
  <2>2. {k \in Rewired : ~Moving(k) /\ Parent(Graph, k) = l} = {k \in Rewired' : k # loop /\ Parent(Graph, k) = l}
    BY <1>2, <1>6, <1>7, <1>8
  <2> QED
    BY <2>1, <2>2
<1>11. SuccsAre'
  <2>1. \A l \in Rewired : succ_bbs'[Entry(Graph, l)] = <<preheader[l]>> /\ ToSet(succ_bbs'[preheader[l]]) = {l}
    <3> TAKE l \in Rewired
    <3>1. succ_bbs[Entry(Graph, l)] = <<preheader[l]>> /\ ToSet(succ_bbs[preheader[l]]) = {l}
      BY DEF Linked, SuccsAre
    <3>2. succ_bbs'[Entry(Graph, l)] = succ_bbs[Entry(Graph, l)] /\ succ_bbs'[preheader[l]] = succ_bbs[preheader[l]]
      BY <1>2, <1>3, <1>6
    <3> QED
      BY <3>1, <3>2
  <2>2. succ_bbs'[e] = <<p>> /\ ToSet(succ_bbs'[p]) = {loop}
    BY <1>2 DEF ToSet
  <2>3. \A b \in Places : b # e /\ (\A l \in Rewired : b # Entry(Graph, l)) => succ_bbs'[b] = Graph[b]
    BY <1>2, <1>3 DEF Linked, SuccsAre
  <2> QED
    BY <1>1, <1>4, <1>7, <2>1, <2>2, <2>3 DEF SuccsAre, p, e
<1>13. /\ {a \in Now : p \in ToSet(succ_bbs'[a])} = {e}
       /\ {a \in Now : loop \in ToSet(succ_bbs'[a])} = {p} \cup lat
       /\ \A b \in Now \ {p, loop} : {a \in Now : b \in ToSet(succ_bbs'[a])} = {a \in Now : b \in ToSet(succ_bbs[a])}
  BY RewiredPreds DEF p, e, lat
<1>14. p \notin lat /\ p # loop /\ p # e /\ p \in Now /\ loop \in Now /\ lat \subseteq Places /\ succ_bbs'[p] # <<>>
  <2>1. lat \subseteq Places
    BY <1>2, LeadsToHeader DEF lat
  <2>2. succ_bbs'[p] # <<>>
    BY <1>2
  <2> QED
    BY <1>2, <1>3, <2>1, <2>2
<1>12. TermsAre'
  <2>1. \A l \in Rewired : /\ term'[Entry(Graph, l)].op = "br" /\ term'[Entry(Graph, l)].args = <<preheader[l]>>
                           /\ term'[preheader[l]].op = "br" /\ term'[preheader[l]].args = <<l>>
    <3> TAKE l \in Rewired
    <3>1. /\ term[Entry(Graph, l)].op = "br" /\ term[Entry(Graph, l)].args = <<preheader[l]>>
          /\ term[preheader[l]].op = "br" /\ term[preheader[l]].args = <<l>>
      BY <1>6, <1>8 DEF Linked, TermsAre
    <3>2. term'[Entry(Graph, l)] = term[Entry(Graph, l)] /\ term'[preheader[l]] = term[preheader[l]]
      BY <1>2, <1>3, <1>6
    <3> QED
      BY <3>1, <3>2
  <2>2. \A b \in Places : b # e /\ (\A l \in Rewired : b # Entry(Graph, l)) => term'[b] = original.term[b]
    BY <1>2, <1>3 DEF Linked, TermsAre
  <2>3. \A b \in Added : succ_bbs'[b] = <<>> => term'[b].op = "none"
    <3> TAKE b \in Added
    <3>1. b # e /\ b \in Now
      BY <1>2, <1>3
    <3>2. CASE b = p
      BY <1>14, <3>2
    <3>3. CASE b # p
      BY <1>2, <3>1, <3>3 DEF Linked, TermsAre
    <3> QED
      BY <3>2, <3>3
  <2>4. \A l \in Rewired' : term'[Entry(Graph, l)].op = "br" /\ term'[Entry(Graph, l)].args = <<preheader[l]>>
    BY <1>2, <1>7, <2>1 DEF p, e
  <2>5. \A l \in Rewired' : ~Moving(l)' => term'[preheader[l]].op = "br" /\ term'[preheader[l]].args = <<l>>
    BY <1>2, <1>7, <1>8, <2>1
  <2>6. \A b \in Places : (\A l \in Rewired' : b # Entry(Graph, l)) => term'[b] = original.term[b]
    BY <1>7, <2>2 DEF e
  <2> QED
    BY <1>1, <1>4, <2>3, <2>4, <2>5, <2>6 DEF TermsAre
<1>15. PredsAre'
  <2>1. \A b \in Now : IsInjective(pre_bbs'[b])
    BY <1>2 DEF Linked, PredsAre
  <2>2. \A b \in Now \ {loop} : ToSet(pre_bbs'[b]) = {a \in Now : b \in ToSet(succ_bbs'[a])}
    <3> TAKE b \in Now \ {loop}
    <3>1. CASE b = p
      BY <1>2, <1>13, <3>1
    <3>2. CASE b # p
      <4>1. ToSet(pre_bbs[b]) = {a \in Now : b \in ToSet(succ_bbs[a])}
        BY <1>1 DEF Linked, PredsAre
      <4> QED
        BY <1>2, <1>13, <3>2, <4>1
    <3> QED
      BY <3>1, <3>2
  <2>3. ToSet(pre_bbs'[loop]) = {a \in Now : loop \in ToSet(succ_bbs'[a]) /\ a # p}
    BY <1>2, <1>13, <1>14
  <2>4. \A b \in Now : ToSet(pre_bbs'[b]) = {a \in Now : b \in ToSet(succ_bbs'[a]) /\ ~(b = loop /\ a = p)}
    <3> TAKE b \in Now
    <3>1. CASE b = loop
      BY <2>3, <3>1
    <3>2. CASE b # loop
      BY <2>2, <3>2
    <3> QED
      BY <3>1, <3>2
  <2> QED
    BY <1>1, <1>4, <2>1, <2>4 DEF PredsAre, p
<1>16. /\ DOMAIN inst' = DOMAIN inst
       /\ \A i \in DOMAIN inst : inst'[i] = [inst[i] EXCEPT !.args = inst'[i].args] /\ Op(i)' = Op(i)
       /\ \A i \in DOMAIN inst : Op(i) # "phi" \/ i \notin ToSet(code[loop]) => inst'[i] = inst[i]
       /\ \A i \in ToSet(code[loop]) : Op(i) = "phi" => inst'[i].args = retargeted(i)
  BY RewireInst
<1>17. \A b \in Now : ToSet(code[b]) \subseteq DOMAIN inst
  BY Shape DEF Linked, CodeIs, ToSet
<1>18. PhisAre'
  <2> DEFINE V == {Zero} \cup DOMAIN original.inst
             X == V \X Nat
  <2> SUFFICES ASSUME NEW b \in Now, NEW i \in ToSet(code[b]), Op(i) = "phi"
               PROVE  /\ inst'[i].args \in Seq(X) /\ Unique(inst'[i].args)
                      /\ Seconds(inst'[i].args) = {a \in Now : b \in ToSet(succ_bbs'[a])}
    BY <1>1, <1>4, <1>16, <1>17 DEF PhisAre
  <2>1. /\ inst[i].args \in Seq(X) /\ Unique(inst[i].args)
        /\ Seconds(inst[i].args) = {a \in Now : b \in ToSet(succ_bbs[a])}
    BY DEF Linked, PhisAre
  <2> HIDE DEF X
  <2>2. CASE b # loop
    <3>1. i \notin ToSet(code[loop])
      <4>1. \A c \in Now : ToSet(code[b]) \cap ToSet(code[c]) # {} => b = c
        BY DEF Linked, CodeIs
      <4> QED
        BY <1>14, <2>2, <4>1
    <3>2. inst'[i] = inst[i]
      BY <1>16, <1>17, <3>1
    <3>3. b # p
      <4>1. succ_bbs[p] = <<>>
        BY <1>2, <1>3 DEF Rewired, p
      <4>2. code[p] = <<>>
        BY <1>2, <4>1 DEF Linked, CodeIs
      <4> QED
        BY <4>2 DEF ToSet
    <3> QED
      BY <1>13, <2>1, <2>2, <3>2, <3>3
  <2>3. CASE b = loop
    <3>1. PICK k \in DOMAIN inst[i].args : /\ inst[i].args[k][2] = e
                  /\ retargeted(i) = Append(RemoveAt(inst[i].args, k), <<inst[i].args[k][1], p>>)
      BY <1>1, <2>3, RetargetedIs DEF p, e
    <3>2. Seconds(inst[i].args) = {e} \cup lat /\ e \notin lat
      BY <1>2, <2>1, <2>3, LeadsToHeader DEF e, lat
    <3>3. p \in Nat /\ p \notin Seconds(inst[i].args)
      BY <1>3, <1>14, <3>2
    <3> DEFINE s == inst[i].args
               t == Moved(s, k, p)
    <3>4. IsPairs(s, V, Nat) /\ k \in DOMAIN s /\ p \notin Seconds(s) /\ s[k][2] = e
      BY <2>1, <3>1, <3>3 DEF X, IsPairs
    <3>6. inst'[i].args = t
      BY <1>16, <2>3, <3>1 DEF Moved
    <3> HIDE DEF s, V
    <3>5. IsPairs(t, V, Nat) /\ Seconds(t) = (Seconds(s) \ {s[k][2]}) \cup {p}
      BY <3>3, <3>4, RetargetFacts
    <3>7. Seconds(t) = {p} \cup lat
      BY <3>2, <3>4, <3>5 DEF s
    <3> HIDE DEF t
    <3> QED
      BY <1>13, <2>3, <3>5, <3>6, <3>7 DEF X, IsPairs
  <2> QED
    BY <2>2, <2>3
<1>19. CodeIs'
  <2>1. /\ DOMAIN inst = DOMAIN original.inst
        /\ \A i \in DOMAIN inst : inst[i] = [original.inst[i] EXCEPT !.args = inst[i].args]
        /\ \A i \in DOMAIN inst : Op(i) # "phi" => inst[i] = original.inst[i]
        /\ \A b \in Now : IsInjective(code[b])
        /\ \A b, c \in Now : ToSet(code[b]) \cap ToSet(code[c]) # {} => b = c
        /\ \A b \in Added : succ_bbs[b] = <<>> => code[b] = <<>>
    BY DEF Linked, CodeIs
  <2>2. \A i \in DOMAIN inst : inst'[i] = [original.inst[i] EXCEPT !.args = inst'[i].args]
    <3> TAKE i \in DOMAIN inst
    <3> DEFINE a == inst'[i].args
               c == inst[i].args
    <3>1. inst'[i] = [inst[i] EXCEPT !.args = a] /\ inst[i] = [original.inst[i] EXCEPT !.args = c]
      BY <1>16, <2>1
    <3> HIDE DEF a, c
    <3>2. inst'[i] = [original.inst[i] EXCEPT !.args = a]
      BY <3>1
    <3> QED
      BY <3>2 DEF a
  <2>3. \A i \in DOMAIN inst : Op(i) # "phi" => inst'[i] = original.inst[i]
    BY <1>16, <2>1
  <2>4. \A b \in Added : succ_bbs'[b] = <<>> => code[b] = <<>>
    <3> TAKE b \in Added
    <3>1. b # e /\ b \in Now
      BY <1>2, <1>3
    <3>2. CASE b = p
      BY <1>14, <3>2
    <3>3. CASE b # p
      BY <1>2, <2>1, <3>1, <3>3
    <3> QED
      BY <3>2, <3>3
  <2> QED
    BY <1>1, <1>4, <1>16, <2>1, <2>2, <2>3, <2>4 DEF CodeIs
<1>20. \A l \in Loops : Within(l)' = Within(l) /\ inner(l)' = inner(l)
  BY <1>1, <1>4 DEF Within, Body, inner
<1>21. Found'
  <2>1. /\ loop_invariant \in Seq(DOMAIN inst) /\ IsInjective(loop_invariant)
        /\ ToSet(loop_invariant) \subseteq Within(loop)
        /\ \A i \in ToSet(loop_invariant) : Op(i) \notin {"store", "phi", "impure"}
    BY <1>1 DEF Linked, Found, Working
  <2>2. code[p] = <<>>
    <3>1. succ_bbs[p] = <<>>
      BY <1>2, <1>3 DEF Rewired, p
    <3> QED
      BY <1>2, <3>1 DEF Linked, CodeIs
  <2>3. ToSet(loop_invariant) \subseteq DOMAIN inst
    BY <2>1 DEF ToSet
  <2>4. \A i \in ToSet(loop_invariant) : Op(i)' = Op(i)
    BY <1>16, <2>3
  <2>5. Within(loop)' = Within(loop)
    BY <1>1, <1>2, <1>20
  <2> QED
    BY <1>1, <1>16, <2>1, <2>2, <2>4, <2>5 DEF Found, Working, p
<1>22. Tables'
  <2>1. loop \in Rewired' /\ succ_bbs'[preheader[loop]] = <<loop>>
    BY <1>2, <1>7 DEF p
  <2>2. loop \in is_loop_done
    BY <1>1 DEF Linked, Tables, Working
  <2> QED
    BY <1>1, <1>4, <2>1, <2>2 DEF Linked, Tables, Working
<1> QED
  BY <1>1, <1>4, <1>7, <1>9, <1>10, <1>11, <1>12, <1>15, <1>18, <1>19, <1>20, <1>21, <1>22 DEF Linked

-----------------------------------------------------------------------------
LEMMA ParentIs ==
    ASSUME Linked, NEW h \in Loops
    PROVE  parent(h) = Parent(Graph, h)
<1>1. Loops = Headers(Graph)
  BY DEF Linked, Tables
<1>2. \A l \in Loops : inner(l) = Nested(Graph, l)
  BY BodyIs DEF Linked
<1>3. {l \in Loops \ {h} : h \in inner(l)} = Around(Graph, h)
  BY <1>1, <1>2 DEF Around, Nested
<1>4. Around(Graph, h) \subseteq Loops
  BY <1>1 DEF Around
<1> DEFINE A == Around(Graph, h)
           c1 == CHOOSE l \in A : \A m \in A : l \in inner(m)
           c2 == CHOOSE l \in A : \A m \in A : l \in Nested(Graph, m)
<1>5. c1 = c2
  <2> HIDE DEF A
  <2>1. \A l \in A : (\A m \in A : l \in inner(m)) <=> (\A m \in A : l \in Nested(Graph, m))
    BY <1>2, <1>4 DEF A
  <2> QED
    BY <2>1
<1>6. parent(h) = IF A = {} THEN NoLoop ELSE c1
  <2> DEFINE B == {l \in Loops \ {h} : h \in inner(l)}
             P(X) == IF X = {} THEN NoLoop ELSE CHOOSE l \in X : \A m \in X : l \in inner(m)
  <2>1. parent(h) = P(B)
    BY DEF parent
  <2>2. B = A
    BY <1>3
  <2> HIDE DEF A, B
  <2>3. parent(h) = P(A)
    BY <2>1, <2>2
  <2> QED
    BY <2>3
<1> HIDE DEF c1
<1> QED
  BY <1>5, <1>6 DEF Parent

LEMMA MoveIs ==
    ASSUME Linked, Move
    PROVE  LET p == preheader[loop]
               S == ToSet(loop_invariant)
           IN  /\ phase = "move" /\ phase' = "traverse" /\ loop_invariant' = <<>>
               /\ UNCHANGED <<original, inst, preheader, is_loop_done, loop, before, after>>
               /\ loop \in Rewired /\ loop \in Loops /\ p \in Added /\ p \in Now /\ loop \in Places /\ p # loop
               /\ Len(code') = Len(code) /\ Len(term') = Len(term) /\ Len(succ_bbs') = Len(succ_bbs) /\ Len(pre_bbs') = Len(pre_bbs)
               /\ code' \in Seq(Seq(DOMAIN original.inst)) /\ succ_bbs' \in Seq(Seq(Nat)) /\ pre_bbs' \in Seq(Seq(Nat))
               /\ term' \in Seq([op : {"br", "ret", "none"}, args : Seq(Nat)])
               /\ code'[p] = loop_invariant
               /\ \A b \in Now \ {p} : /\ code'[b] = without(code[b], S) /\ ToSet(code'[b]) = ToSet(code[b]) \ S
                                       /\ IsInjective(code'[b])
               /\ term'[p] = [op |-> "br", args |-> <<loop>>] /\ (\A b \in Now \ {p} : term'[b] = term[b])
               /\ succ_bbs[p] = <<loop>>
               /\ ToSet(succ_bbs'[p]) = {loop} /\ succ_bbs'[p] \in Seq(Nat) /\ (\A b \in Now \ {p} : succ_bbs'[b] = succ_bbs[b])
               /\ pre_bbs'[loop] = Append(pre_bbs[loop], p) /\ (\A b \in Now \ {loop} : pre_bbs'[b] = pre_bbs[b])
               /\ DOMAIN blocks' = Loops
               /\ \A l \in Loops : blocks'[l] = blocks[l] \cup (IF Parent(Graph, loop) = l THEN {p} ELSE {})
<1> DEFINE p == preheader[loop]
           S == ToSet(loop_invariant)
           n == Len(succ_bbs)
<1>1. /\ phase = "move" /\ phase' = "traverse" /\ loop_invariant' = <<>>
      /\ UNCHANGED <<original, inst, preheader, is_loop_done, loop, before, after>>
      /\ code' = [b \in DOMAIN code |->
               IF b = p THEN code[p] \o loop_invariant
               ELSE without(code[b], ToSet(loop_invariant))]
      /\ term' = [term EXCEPT ![p] = [op |-> "br", args |-> <<loop>>]]
      /\ succ_bbs' = [succ_bbs EXCEPT ![p] = Append(@, loop)]
      /\ pre_bbs' = [pre_bbs EXCEPT ![loop] = Append(@, p)]
      /\ blocks' = parent_blocks
  BY DEF Move
<1>2. loop \in Rewired /\ loop \in Loops /\ succ_bbs[p] = <<loop>> /\ code[p] = <<>>
  BY <1>1 DEF Linked, Tables, Found, Working
<1>3. /\ IsLoopGraph(Graph) /\ DOMAIN Graph = Places /\ Places \subseteq Now /\ Added = Now \ Places
      /\ NoBlock \notin Now /\ Headers(Graph) \subseteq Places /\ Loops = Headers(Graph)
      /\ DOMAIN succ_bbs = Now /\ DOMAIN pre_bbs = Now /\ DOMAIN code = Now /\ DOMAIN term = Now
      /\ n \in Nat /\ Now = 1 .. n /\ Now \subseteq Nat
      /\ Len(code) = n /\ Len(term) = n /\ Len(pre_bbs) = n
  <2>1. /\ IsLoopGraph(Graph) /\ DOMAIN Graph = Places /\ Places \subseteq Now /\ Added = Now \ Places
        /\ NoBlock \notin Now /\ Headers(Graph) \subseteq Places
        /\ DOMAIN succ_bbs = Now /\ DOMAIN pre_bbs = Now /\ DOMAIN code = Now /\ DOMAIN term = Now
        /\ n \in Nat
    BY Shape DEF Linked
  <2>2. Now = 1 .. n /\ Now \subseteq Nat
    BY DEF Now
  <2>3. Len(code) = n /\ Len(term) = n /\ Len(pre_bbs) = n
    BY DEF Linked, Types
  <2>4. Loops = Headers(Graph)
    BY DEF Linked, Tables
  <2> QED
    BY <2>1, <2>2, <2>3, <2>4
<1>4. \A b \in Now : /\ succ_bbs[b] \in Seq(Nat) /\ pre_bbs[b] \in Seq(Nat) /\ code[b] \in Seq(DOMAIN original.inst)
                     /\ term[b] \in [op : {"br", "ret", "none"}, args : Seq(Nat)]
  BY Shape DEF Linked
<1>5. p \in Added /\ p \in Now /\ loop \in Places /\ loop \in Now /\ p # loop /\ loop \in Nat /\ p \in Nat
  <2>1. p \in Added
    BY <1>2, <1>3 DEF Rewired, Linked, Tables
  <2> QED
    BY <1>2, <1>3, <2>1
<1> HIDE DEF p, n
<1>6. loop_invariant \in Seq(DOMAIN original.inst)
  BY DEF Linked, Found, CodeIs
<1>7. <<>> \o loop_invariant = loop_invariant
  BY <1>6
<1>8. DOMAIN code' = Now /\ code'[p] = loop_invariant /\ \A b \in Now \ {p} : code'[b] = without(code[b], S)
  <2> HIDE DEF S
  <2> QED
    BY <1>1, <1>2, <1>3, <1>5, <1>7 DEF S
<1>9. \A b \in Now \ {p} : /\ ToSet(code'[b]) = ToSet(code[b]) \ S /\ IsInjective(code'[b])
                           /\ code'[b] \in Seq(DOMAIN original.inst)
  <2> TAKE b \in Now \ {p}
  <2>1. IsInjective(code[b])
    BY DEF Linked, CodeIs
  <2> DEFINE V == DOMAIN original.inst
             s == code[b]
  <2>2. s \in Seq(V) /\ IsInjective(s) /\ code'[b] = without(s, S)
    BY <1>4, <1>8, <2>1
  <2> HIDE DEF V, s, S
  <2>3. without(s, S) \in Seq(V) /\ ToSet(without(s, S)) = ToSet(s) \ S /\ IsInjective(without(s, S))
    BY <2>2, WithoutFacts
  <2> QED
    BY <2>2, <2>3 DEF V, s
<1> HIDE DEF S
<1>10. term'[p] = [op |-> "br", args |-> <<loop>>] /\ (\A b \in Now \ {p} : term'[b] = term[b]) /\ DOMAIN term' = Now
  BY <1>1, <1>3, <1>5
<1>11. ToSet(succ_bbs'[p]) = {loop} /\ succ_bbs'[p] \in Seq(Nat) /\ (\A b \in Now \ {p} : succ_bbs'[b] = succ_bbs[b]) /\ DOMAIN succ_bbs' = Now
  <2> DEFINE x == <<loop>>
             y == Append(x, loop)
  <2>1. ToSet(y) = {loop} /\ y \in Seq(Nat)
    <3>1. x \in Seq(Nat) /\ ToSet(x) = {loop}
      BY <1>5 DEF ToSet
    <3> HIDE DEF x
    <3>2. Append(x, loop) \in Seq(Nat) /\ ToSet(Append(x, loop)) = ToSet(x) \cup {loop}
      BY <1>5, <3>1, AppendSet
    <3> QED
      BY <3>1, <3>2
  <2>2. succ_bbs' = [succ_bbs EXCEPT ![p] = Append(@, loop)] /\ succ_bbs[p] = x
    BY <1>1, <1>2
  <2> HIDE DEF x
  <2>3. succ_bbs' = [succ_bbs EXCEPT ![p] = y]
    BY <2>2
  <2> HIDE DEF y
  <2>4. succ_bbs'[p] = y /\ (\A b \in Now \ {p} : succ_bbs'[b] = succ_bbs[b]) /\ DOMAIN succ_bbs' = Now
    BY <1>3, <1>5, <2>3
  <2> QED
    BY <2>1, <2>4
<1>12. pre_bbs'[loop] = Append(pre_bbs[loop], p) /\ (\A b \in Now \ {loop} : pre_bbs'[b] = pre_bbs[b]) /\ DOMAIN pre_bbs' = Now
  BY <1>1, <1>3, <1>5
<1>13. code' \in Seq(Seq(DOMAIN original.inst)) /\ Len(code') = n
  <2> DEFINE V == Seq(DOMAIN original.inst)
  <2>1. \A b \in Now : code'[b] \in V
    BY <1>6, <1>8, <1>9
  <2> HIDE DEF V
  <2> DEFINE s == code'
  <2>2. s = [b \in 1 .. n |-> s[b]]
    BY <1>1, <1>3
  <2>3. IsList(s, n, V)
    BY <1>3, <2>1, <2>2 DEF IsList
  <2> HIDE DEF s
  <2>4. s \in Seq(V) /\ Len(s) = n
    BY <1>3, <2>3, ListFacts
  <2> QED
    BY <2>4 DEF V, s
<1>14. succ_bbs' \in Seq(Seq(Nat)) /\ Len(succ_bbs') = n /\ pre_bbs' \in Seq(Seq(Nat)) /\ Len(pre_bbs') = n
  <2> DEFINE V == Seq(Nat)
             s == succ_bbs'
             t == pre_bbs'
  <2>1. \A b \in Now : s[b] \in V
    BY <1>4, <1>11
  <2>2. \A b \in Now : t[b] \in V
    <3>1. Append(pre_bbs[loop], p) \in V
      BY <1>4, <1>5
    <3> HIDE DEF V
    <3> QED
      BY <1>4, <1>12, <3>1 DEF V
  <2> HIDE DEF V
  <2>3. s = [b \in 1 .. n |-> s[b]]
    BY <1>1, <1>3
  <2>4. t = [b \in 1 .. n |-> t[b]]
    BY <1>1, <1>3
  <2>5. IsList(s, n, V) /\ IsList(t, n, V)
    BY <1>3, <2>1, <2>2, <2>3, <2>4 DEF IsList
  <2> HIDE DEF s, t
  <2>6. s \in Seq(V) /\ Len(s) = n
    BY <1>3, <2>5, ListFacts
  <2>7. t \in Seq(V) /\ Len(t) = n
    BY <1>3, <2>5, ListFacts
  <2> QED
    BY <2>6, <2>7 DEF V, s, t
<1>15. term' \in Seq([op : {"br", "ret", "none"}, args : Seq(Nat)]) /\ Len(term') = n
  <2> DEFINE V == [op : {"br", "ret", "none"}, args : Seq(Nat)]
             s == term'
  <2>1. [op |-> "br", args |-> <<loop>>] \in V
    BY <1>5
  <2>2. \A b \in Now : s[b] \in V
    BY <1>4, <1>10, <2>1
  <2> HIDE DEF V
  <2>3. s = [b \in 1 .. n |-> s[b]]
    BY <1>1, <1>3
  <2>4. IsList(s, n, V)
    BY <1>3, <2>2, <2>3 DEF IsList
  <2> HIDE DEF s
  <2>5. s \in Seq(V) /\ Len(s) = n
    BY <1>3, <2>4, ListFacts
  <2> QED
    BY <2>5 DEF V, s
<1>16. DOMAIN blocks' = Loops /\ \A l \in Loops : blocks'[l] = blocks[l] \cup (IF Parent(Graph, loop) = l THEN {p} ELSE {})
  <2> DEFINE q == Parent(Graph, loop)
  <2>1. parent(loop) = q
    BY <1>2, ParentIs
  <2>2. NoLoop \notin Loops
    BY <1>3 DEF NoLoop, NoBlock
  <2> HIDE DEF q
  <2>3. blocks' = IF q = NoLoop THEN blocks ELSE [blocks EXCEPT ![q] = @ \cup {p}]
    BY <1>1, <2>1 DEF parent_blocks, p
  <2>4. CASE q = NoLoop
    BY <2>2, <2>3, <2>4 DEF Loops, q
  <2>5. CASE q # NoLoop
    BY <2>3, <2>5 DEF Loops, q
  <2> QED
    BY <2>4, <2>5
<1> QED
  BY <1>1, <1>2, <1>3, <1>5, <1>8, <1>9, <1>10, <1>11, <1>12, <1>13, <1>14, <1>15, <1>16 DEF p, n, S

-----------------------------------------------------------------------------
LEMMA LinkedMove ==
    ASSUME Linked, Move
    PROVE  /\ Linked' /\ Loops' = Loops /\ Rewired' = Rewired /\ Graph' = Graph /\ Now' = Now
           /\ \A a \in Now : ToSet(succ_bbs'[a]) = ToSet(succ_bbs[a])
<1> DEFINE p == preheader[loop]
           S == ToSet(loop_invariant)
<1>1. /\ phase = "move" /\ phase' = "traverse" /\ loop_invariant' = <<>>
      /\ UNCHANGED <<original, inst, preheader, is_loop_done, loop, before, after>>
      /\ loop \in Rewired /\ loop \in Loops /\ p \in Added /\ p \in Now /\ loop \in Places /\ p # loop
      /\ Len(code') = Len(code) /\ Len(term') = Len(term) /\ Len(succ_bbs') = Len(succ_bbs) /\ Len(pre_bbs') = Len(pre_bbs)
      /\ code' \in Seq(Seq(DOMAIN original.inst)) /\ succ_bbs' \in Seq(Seq(Nat)) /\ pre_bbs' \in Seq(Seq(Nat))
      /\ term' \in Seq([op : {"br", "ret", "none"}, args : Seq(Nat)])
  BY MoveIs
<1>2. /\ code'[p] = loop_invariant
      /\ \A b \in Now \ {p} : ToSet(code'[b]) = ToSet(code[b]) \ S /\ IsInjective(code'[b])
  BY MoveIs
<1>3. /\ term'[p] = [op |-> "br", args |-> <<loop>>] /\ (\A b \in Now \ {p} : term'[b] = term[b])
      /\ succ_bbs[p] = <<loop>>
      /\ ToSet(succ_bbs'[p]) = {loop} /\ (\A b \in Now \ {p} : succ_bbs'[b] = succ_bbs[b])
      /\ pre_bbs'[loop] = Append(pre_bbs[loop], p) /\ (\A b \in Now \ {loop} : pre_bbs'[b] = pre_bbs[b])
  BY MoveIs
<1>4. /\ DOMAIN blocks' = Loops
      /\ \A l \in Loops : blocks'[l] = blocks[l] \cup (IF Parent(Graph, loop) = l THEN {p} ELSE {})
  BY MoveIs
<1>5. /\ IsLoopGraph(Graph) /\ DOMAIN Graph = Places /\ Places \subseteq Now /\ Added = Now \ Places
      /\ NoBlock \notin Now /\ Loops = Headers(Graph)
      /\ \A b \in Now : pre_bbs[b] \in Seq(Nat)
  BY Shape DEF Linked, Tables
<1>6. Now \subseteq Nat
  BY DEF Now
<1>7. /\ Graph' = Graph /\ Places' = Places /\ Count' = Count /\ Loops' = Loops /\ Now' = Now /\ Added' = Added
  BY <1>1, <1>4 DEF Graph, Places, Count, Loops, Now, Added
<1> HIDE DEF p, S
<1>8. \A a \in Now : ToSet(succ_bbs'[a]) = ToSet(succ_bbs[a]) /\ (succ_bbs'[a] = <<>> <=> succ_bbs[a] = <<>>)
  <2> TAKE a \in Now
  <2>1. CASE a = p
    <3>1. ToSet(succ_bbs[p]) = {loop} /\ ToSet(<<>>) = {}
      BY <1>3 DEF ToSet
    <3>2. succ_bbs'[p] # <<>> /\ succ_bbs[p] # <<>> /\ ToSet(succ_bbs'[p]) = ToSet(succ_bbs[p])
      BY <1>3, <3>1
    <3> QED
      BY <2>1, <3>2
  <2>2. CASE a # p
    BY <1>3, <2>2
  <2> QED
    BY <2>1, <2>2
<1>9. Rewired' = Rewired
  <2>1. \A l \in Loops : preheader[l] = NoBlock \/ preheader[l] \in Now
    BY <1>5 DEF Linked, Tables
  <2> QED
    BY <1>1, <1>7, <1>8, <2>1 DEF Rewired
<1>10. \A l \in Rewired : l \in Loops /\ preheader[l] \in Added /\ Entry(Graph, l) \in Places
  BY <1>5, EntryFacts DEF Rewired, Linked, Tables
<1>11. \A l \in Rewired : l # loop => preheader[l] # p
  BY <1>1, <1>10 DEF Linked, Tables, Rewired, p
<1>12. \A l : ~Moving(l)' /\ (Moving(l) <=> l = loop)
  BY <1>1 DEF Moving
<1>13. Types'
  BY <1>1, <1>7 DEF Linked, Types
<1>14. BlocksAre'
  <2>1. \A l \in Loops : blocks'[l] = Natural(Graph, l) \cup {preheader[k] : k \in {k \in Rewired : Parent(Graph, k) = l}}
    <3> TAKE l \in Loops
    <3>1. blocks[l] = Natural(Graph, l) \cup {preheader[k] : k \in {k \in Rewired : k # loop /\ Parent(Graph, k) = l}}
      BY <1>12 DEF Linked, BlocksAre
    <3>2. blocks'[l] = blocks[l] \cup (IF Parent(Graph, loop) = l THEN {p} ELSE {})
      BY <1>4
    <3>3. p = preheader[loop] /\ loop \in Rewired
      BY <1>1 DEF p
    <3>4. CASE Parent(Graph, loop) = l
      BY <3>1, <3>2, <3>3, <3>4
    <3>5. CASE Parent(Graph, loop) # l
      BY <3>1, <3>2, <3>5
    <3> QED
      BY <3>4, <3>5
  <2> QED
    BY <1>1, <1>7, <1>9, <1>12, <2>1 DEF BlocksAre
<1>15. SuccsAre'
  <2>1. \A l \in Rewired : succ_bbs'[Entry(Graph, l)] = <<preheader[l]>> /\ ToSet(succ_bbs'[preheader[l]]) = {l}
    <3> TAKE l \in Rewired
    <3>1. succ_bbs[Entry(Graph, l)] = <<preheader[l]>> /\ ToSet(succ_bbs[preheader[l]]) = {l}
      BY DEF Linked, SuccsAre
    <3>2. Entry(Graph, l) # p /\ Entry(Graph, l) \in Now /\ preheader[l] \in Now
      BY <1>1, <1>5, <1>10
    <3> QED
      BY <1>3, <1>8, <3>1, <3>2
  <2>2. \A b \in Places : (\A l \in Rewired : b # Entry(Graph, l)) => succ_bbs'[b] = Graph[b]
    <3>1. \A b \in Places : succ_bbs'[b] = succ_bbs[b]
      BY <1>1, <1>3, <1>5
    <3> QED
      BY <3>1 DEF Linked, SuccsAre
  <2> QED
    BY <1>1, <1>7, <1>9, <2>1, <2>2 DEF SuccsAre
<1>16. TermsAre'
  <2>1. \A b \in Places : term'[b] = term[b]
    BY <1>1, <1>3, <1>5
  <2>2. \A l \in Rewired : term'[Entry(Graph, l)].op = "br" /\ term'[Entry(Graph, l)].args = <<preheader[l]>>
    BY <1>10, <2>1 DEF Linked, TermsAre
  <2>3. \A l \in Rewired : term'[preheader[l]].op = "br" /\ term'[preheader[l]].args = <<l>>
    <3> TAKE l \in Rewired
    <3>1. CASE l = loop
      BY <1>3, <3>1 DEF p
    <3>2. CASE l # loop
      <4>1. term'[preheader[l]] = term[preheader[l]]
        BY <1>3, <1>5, <1>10, <1>11, <3>2
      <4> QED
        BY <1>12, <3>2, <4>1 DEF Linked, TermsAre
    <3> QED
      BY <3>1, <3>2
  <2>4. \A b \in Places : (\A l \in Rewired : b # Entry(Graph, l)) => term'[b] = original.term[b]
    BY <2>1 DEF Linked, TermsAre
  <2>5. \A b \in Added : succ_bbs'[b] = <<>> => term'[b].op = "none"
    <3> TAKE b \in Added
    <3>1. b \in Now
      BY <1>5
    <3>2. CASE b = p
      <4>1. succ_bbs[b] # <<>>
        BY <1>3, <3>2
      <4> QED
        BY <1>8, <3>1, <4>1
    <3>3. CASE b # p
      BY <1>3, <1>8, <3>1, <3>3 DEF Linked, TermsAre
    <3> QED
      BY <3>2, <3>3
  <2> QED
    BY <1>1, <1>7, <1>9, <2>2, <2>3, <2>4, <2>5 DEF TermsAre
<1>17. \A b : {a \in Now : b \in ToSet(succ_bbs'[a])} = {a \in Now : b \in ToSet(succ_bbs[a])}
  BY <1>8
<1>18. PredsAre'
  <2>1. \A b \in Now : IsInjective(pre_bbs[b]) /\ ToSet(pre_bbs[b]) = {a \in Now : b \in ToSet(succ_bbs[a]) /\ ~(b = loop /\ a = p)}
    BY <1>1 DEF Linked, PredsAre, p
  <2>2. \A b \in Now \ {loop} : IsInjective(pre_bbs'[b]) /\ ToSet(pre_bbs'[b]) = {a \in Now : b \in ToSet(succ_bbs'[a])}
    <3> TAKE b \in Now \ {loop}
    <3>1. IsInjective(pre_bbs[b]) /\ ToSet(pre_bbs[b]) = {a \in Now : b \in ToSet(succ_bbs[a])}
      BY <2>1
    <3> QED
      BY <1>3, <1>17, <3>1
  <2>3. IsInjective(pre_bbs'[loop]) /\ ToSet(pre_bbs'[loop]) = {a \in Now : loop \in ToSet(succ_bbs'[a])}
    <3> DEFINE s == pre_bbs[loop]
    <3>1. loop \in Now /\ p \in Nat
      BY <1>1, <1>5, <1>6
    <3>2. s \in Seq(Nat) /\ IsInjective(s) /\ ToSet(s) = {a \in Now : loop \in ToSet(succ_bbs[a]) /\ a # p}
      BY <1>5, <2>1, <3>1
    <3>3. p \notin ToSet(s)
      BY <3>2
    <3>4. pre_bbs'[loop] = Append(s, p)
      BY <1>3
    <3> HIDE DEF s
    <3>5. ToSet(Append(s, p)) = ToSet(s) \cup {p} /\ IsInjective(Append(s, p))
      BY <3>1, <3>2, <3>3, AppendSet
    <3>6. loop \in ToSet(succ_bbs'[p])
      BY <1>3
    <3>7. {a \in Now : loop \in ToSet(succ_bbs[a]) /\ a # p} \cup {p} = {a \in Now : loop \in ToSet(succ_bbs'[a])}
      BY <1>1, <1>8, <3>6
    <3> QED
      BY <3>2, <3>4, <3>5, <3>7
  <2> QED
    BY <1>1, <1>7, <2>2, <2>3 DEF PredsAre
<1>19. \A i : Op(i)' = Op(i)
  BY <1>1 DEF Op
<1>20. PhisAre'
  <2> SUFFICES ASSUME NEW b \in Now, NEW i \in ToSet(code'[b]), Op(i) = "phi"
               PROVE  /\ inst[i].args \in Seq(({Zero} \cup DOMAIN original.inst) \X Nat) /\ Unique(inst[i].args)
                      /\ Seconds(inst[i].args) = {a \in Now : b \in ToSet(succ_bbs'[a])}
    BY <1>1, <1>7, <1>19 DEF PhisAre
  <2>1. b # p
    BY <1>2 DEF Linked, Found
  <2>2. i \in ToSet(code[b])
    BY <1>2, <2>1
  <2>3. /\ inst[i].args \in Seq(({Zero} \cup DOMAIN original.inst) \X Nat) /\ Unique(inst[i].args)
        /\ Seconds(inst[i].args) = {a \in Now : b \in ToSet(succ_bbs[a])}
    BY <2>2 DEF Linked, PhisAre
  <2> QED
    BY <1>17, <2>3
<1>21. CodeIs'
  <2>1. /\ DOMAIN inst = DOMAIN original.inst
        /\ \A i \in DOMAIN inst : inst[i] = [original.inst[i] EXCEPT !.args = inst[i].args]
        /\ \A i \in DOMAIN inst : Op(i) # "phi" => inst[i] = original.inst[i]
    BY DEF Linked, CodeIs
  <2>2. /\ \A b, c \in Now : ToSet(code[b]) \cap ToSet(code[c]) # {} => b = c
        /\ \A b \in Added : succ_bbs[b] = <<>> => code[b] = <<>>
    BY DEF Linked, CodeIs
  <2>3. \A b \in Now : IsInjective(code'[b])
    BY <1>2 DEF Linked, Found
  <2>4. ToSet(code'[p]) = S
    BY <1>2 DEF S
  <2>5. \A b, c \in Now : ToSet(code'[b]) \cap ToSet(code'[c]) # {} => b = c
    <3> TAKE b, c \in Now
    <3>1. CASE b = p /\ c # p
      BY <1>2, <2>4, <3>1
    <3>2. CASE b # p /\ c = p
      BY <1>2, <2>4, <3>2
    <3>3. CASE b # p /\ c # p
      BY <1>2, <2>2, <3>3
    <3> QED
      BY <3>1, <3>2, <3>3
  <2>6. \A b \in Added : succ_bbs'[b] = <<>> => code'[b] = <<>>
    <3> SUFFICES ASSUME NEW b \in Added, succ_bbs'[b] = <<>> PROVE code'[b] = <<>>
      OBVIOUS
    <3>1. b \in Now /\ succ_bbs[b] = <<>>
      BY <1>5, <1>8
    <3>2. b # p /\ code[b] = <<>>
      BY <1>3, <2>2, <3>1
    <3>3. ToSet(code'[b]) = {}
      <4>1. ToSet(<<>>) = {}
        BY DEF ToSet
      <4> QED
        BY <1>2, <3>1, <3>2, <4>1
    <3>4. code'[b] \in Seq(DOMAIN original.inst)
      <4> DEFINE V == Seq(DOMAIN original.inst)
      <4>1. code' \in Seq(V) /\ b \in DOMAIN code'
        <5>1. Len(code') = Len(succ_bbs)
          BY <1>1 DEF Linked, Types
        <5>2. code' \in Seq(V)
          BY <1>1
        <5> HIDE DEF V
        <5> QED
          BY <3>1, <5>1, <5>2 DEF Now
      <4> HIDE DEF V
      <4>2. code'[b] \in V
        BY <4>1
      <4> QED
        BY <4>2 DEF V
    <3> QED
      BY <3>3, <3>4, ToSetOne
  <2> QED
    BY <1>1, <1>7, <1>19, <2>1, <2>3, <2>5, <2>6 DEF CodeIs
<1>22. Found'
  <2>1. ToSet(<<>>) = {} /\ <<>> \in Seq(DOMAIN inst') /\ IsInjective(<<>>)
    BY DEF ToSet, IsInjective
  <2>2. loop_invariant' = <<>> /\ phase' = "traverse"
    BY <1>1
  <2> QED
    BY <2>1, <2>2 DEF Found, Working
<1>23. Tables'
  <2>1. phase' = "traverse"
    BY <1>1
  <2> QED
    BY <1>1, <1>7, <2>1 DEF Linked, Tables, Working
<1> QED
  BY <1>7, <1>8, <1>9, <1>13, <1>14, <1>15, <1>16, <1>18, <1>20, <1>21, <1>22, <1>23 DEF Linked

-----------------------------------------------------------------------------
LEMMA SeqMonotonic ==
    ASSUME NEW A, NEW B, A \subseteq B, NEW s \in Seq(A)
    PROVE  s \in Seq(B)
<1>1. s \in [1 .. Len(s) -> A] /\ Len(s) \in Nat
  OBVIOUS
<1>2. s \in [1 .. Len(s) -> B]
  BY <1>1
<1> QED
  BY <1>1, <1>2

LEMMA PredsIs ==
    ASSUME NEW g, NEW n \in Nat, DOMAIN g = 1 .. n, NEW b
    PROVE  /\ Preds(g, b) \in Seq(Nat) /\ IsInjective(Preds(g, b))
           /\ ToSet(Preds(g, b)) = {a \in 1 .. n : b \in ToSet(g[a])}
<1> DEFINE s == [a \in DOMAIN g |-> a]
           D == {a \in DOMAIN g : b \notin ToSet(g[a])}
<1>1. s \in Seq(Nat) /\ IsInjective(s) /\ ToSet(s) = 1 .. n
  <2>1. s \in [1 .. n -> Nat]
    OBVIOUS
  <2>2. s \in Seq(Nat)
    BY <2>1
  <2> QED
    BY <2>2 DEF IsInjective, ToSet
<1> HIDE DEF s, D
<1>2. without(s, D) \in Seq(Nat) /\ ToSet(without(s, D)) = ToSet(s) \ D /\ IsInjective(without(s, D))
  BY <1>1, WithoutFacts
<1>3. ToSet(s) \ D = {a \in 1 .. n : b \in ToSet(g[a])}
  BY <1>1 DEF D
<1> QED
  BY <1>2, <1>3 DEF Preds, s, D

LEMMA PhisOf ==
    ASSUME NEW p \in Programs, NEW b \in DOMAIN p.graph, NEW i \in ToSet(p.code[b]), p.inst[i].op = "phi"
    PROVE  /\ p.inst[i].args \in Seq(({Zero} \cup DOMAIN p.inst) \X Nat) /\ Unique(p.inst[i].args)
           /\ Seconds(p.inst[i].args) = {a \in DOMAIN p.graph : b \in ToSet(p.graph[a])}
<1>1. /\ p.code \in Seq(Seq(DOMAIN p.inst)) /\ DOMAIN p.code = 1 .. Len(p.graph) /\ DOMAIN p.graph = 1 .. Len(p.graph)
      /\ Instructions(p) /\ SingleAssignment(p)
  BY ProgramFacts
<1>2. PICK k \in DOMAIN p.code[b] : i = p.code[b][k]
  BY DEF ToSet
<1>3. i \in DOMAIN p.inst
  <2> DEFINE D == DOMAIN p.inst
             V == Seq(D)
             c == p.code
  <2>1. c \in Seq(V) /\ b \in DOMAIN c
    BY <1>1
  <2> HIDE DEF V, c, D
  <2>2. c[b] \in V
    BY <2>1
  <2>3. c[b] \in Seq(D) /\ k \in DOMAIN c[b] /\ i = c[b][k]
    BY <1>2, <2>2 DEF V, c
  <2> QED
    BY <2>3 DEF D
<1>4. p.inst[i] \in ToSet(p.inst)
  BY <1>3 DEF ToSet
<1>5. p.inst[i].args \in Seq(({Zero} \cup DOMAIN p.inst) \X DOMAIN p.graph)
  BY <1>1, <1>4 DEF Instructions
<1>6. p.inst[i].args \in Seq(({Zero} \cup DOMAIN p.inst) \X Nat)
  <2> DEFINE A == ({Zero} \cup DOMAIN p.inst) \X DOMAIN p.graph
             B == ({Zero} \cup DOMAIN p.inst) \X Nat
  <2>1. DOMAIN p.graph \subseteq Nat
    BY <1>1
  <2>2. A \subseteq B /\ p.inst[i].args \in Seq(A)
    BY <1>5, <2>1
  <2> HIDE DEF A, B
  <2>3. p.inst[i].args \in Seq(B)
    BY <2>2, SeqMonotonic
  <2> QED
    BY <2>3 DEF B
<1>7. /\ {a[2] : a \in ToSet(p.inst[p.code[b][k]].args)} = {a \in DOMAIN p.graph : b \in ToSet(p.graph[a])}
      /\ \A m, n \in DOMAIN p.inst[p.code[b][k]].args : p.inst[p.code[b][k]].args[m][2] = p.inst[p.code[b][k]].args[n][2] => m = n
  BY <1>1, <1>2 DEF SingleAssignment
<1> QED
  BY <1>2, <1>6, <1>7 DEF Unique, Seconds

LEMMA LinkedInit ==
    ASSUME Init
    PROVE  Linked
<1>1. /\ original \in Programs
      /\ code = original.code /\ inst = original.inst /\ term = original.term
      /\ succ_bbs = Graph
      /\ pre_bbs = [b \in DOMAIN Graph |-> Preds(Graph, b)]
      /\ blocks = [h \in Headers(Graph) |-> NaturalLoop(Graph, 1, h)]
      /\ preheader = [h \in Loops |-> NoBlock]
      /\ is_loop_done = {} /\ loop_invariant = <<>> /\ phase = "traverse"
  BY DEF Init, Graph
<1>2. /\ IsLoopGraph(Graph) /\ Graph \in Seq(Seq(1 .. Len(Graph))) /\ DOMAIN Graph = 1 .. Len(Graph)
      /\ Len(Graph) \in Nat /\ DOMAIN original.code = 1 .. Len(Graph) /\ DOMAIN original.term = 1 .. Len(Graph)
      /\ original.code \in Seq(Seq(DOMAIN original.inst))
      /\ Instructions(original) /\ Branches(original) /\ Laid(original)
  BY <1>1, ProgramFacts DEF Graph
<1> DEFINE n == Len(Graph)
<1>3. n = Count /\ Now = 1 .. n /\ Places = 1 .. n /\ Added = {} /\ n \in Nat /\ DOMAIN Graph = 1 .. n /\ Loops = Headers(Graph)
  BY <1>1, <1>2 DEF Now, Places, Added, Count, Graph, Loops
<1>4. Rewired = {}
  BY <1>1 DEF Rewired
<1> HIDE DEF n
<1>5. Types
  <2>1. succ_bbs \in Seq(Seq(Nat)) /\ Len(succ_bbs) = n
    <3> DEFINE A == 1 .. n
               V == Seq(A)
               W == Seq(Nat)
    <3>1. A \subseteq Nat /\ Graph \in Seq(V)
      BY <1>2 DEF n
    <3> HIDE DEF A
    <3>2. V \subseteq W
      BY <3>1, SeqMonotonic
    <3> HIDE DEF V, W
    <3>3. Graph \in Seq(W)
      BY <3>1, <3>2, SeqMonotonic
    <3> QED
      BY <1>1, <3>3 DEF W, n
  <2>2. pre_bbs \in Seq(Seq(Nat)) /\ Len(pre_bbs) = n
    <3> DEFINE W == Seq(Nat)
               s == pre_bbs
    <3>1. \A b \in 1 .. n : s[b] \in W
      BY <1>1, <1>3, PredsIs
    <3>2. s = [b \in 1 .. n |-> s[b]]
      BY <1>1, <1>3
    <3>3. IsList(s, n, W)
      BY <3>1, <3>2 DEF IsList
    <3> HIDE DEF W, s
    <3>4. s \in Seq(W) /\ Len(s) = n
      BY <1>3, <3>3, ListFacts
    <3> QED
      BY <3>4 DEF W, s
  <2>3. term \in Seq([op : {"br", "ret", "none"}, args : Seq(Nat)]) /\ Len(term) = n
    <3> DEFINE A == [op : {"br", "ret"}, args : Seq(Nat)]
               B == [op : {"br", "ret", "none"}, args : Seq(Nat)]
    <3>1. A \subseteq B /\ original.term \in Seq(A)
      BY <1>2 DEF Branches
    <3> HIDE DEF A, B
    <3>2. original.term \in Seq(B)
      BY <3>1, SeqMonotonic
    <3>3. Len(original.term) = n
      BY <1>2 DEF Branches, Graph, n
    <3> QED
      BY <1>1, <3>2, <3>3 DEF B
  <2>4. code \in Seq(Seq(DOMAIN original.inst)) /\ Len(code) = n
    BY <1>1, <1>2 DEF Laid, Graph, n
  <2> QED
    BY <1>1, <1>3, <2>1, <2>2, <2>3, <2>4 DEF Types
<1>6. Tables
  BY <1>1, <1>3, <1>4 DEF Tables, Working
<1>7. BlocksAre
  BY <1>1, <1>3, <1>4 DEF BlocksAre, Natural
<1>8. SuccsAre
  BY <1>1, <1>4 DEF SuccsAre
<1>9. TermsAre
  BY <1>1, <1>3, <1>4 DEF TermsAre
<1>10. PredsAre
  <2> SUFFICES ASSUME NEW b \in Now
      PROVE  /\ IsInjective(pre_bbs[b])
             /\ ToSet(pre_bbs[b]) = {a \in Now :
                   b \in ToSet(succ_bbs[a]) /\ ~(phase = "move" /\ b = loop /\ a = preheader[loop])}
    BY DEF PredsAre
  <2>1. IsInjective(Preds(Graph, b)) /\ ToSet(Preds(Graph, b)) = {a \in 1 .. n : b \in ToSet(Graph[a])}
    BY <1>3, PredsIs
  <2>2. pre_bbs[b] = Preds(Graph, b)
    BY <1>1, <1>3
  <2> QED
    BY <1>1, <1>3, <2>1, <2>2 DEF PredsAre
<1>11. PhisAre
  <2> SUFFICES ASSUME NEW b \in Now, NEW i \in ToSet(code[b]), Op(i) = "phi"
      PROVE  /\ inst[i].args \in Seq(({Zero} \cup DOMAIN original.inst) \X Nat) /\ Unique(inst[i].args)
             /\ Seconds(inst[i].args) = {a \in Now : b \in ToSet(succ_bbs[a])}
    BY DEF PhisAre
  <2>1. b \in DOMAIN original.graph /\ i \in ToSet(original.code[b]) /\ original.inst[i].op = "phi"
    BY <1>1, <1>3 DEF Op, Graph
  <2>2. /\ original.inst[i].args \in Seq(({Zero} \cup DOMAIN original.inst) \X Nat) /\ Unique(original.inst[i].args)
        /\ Seconds(original.inst[i].args) = {a \in DOMAIN original.graph : b \in ToSet(original.graph[a])}
    BY <1>1, <2>1, PhisOf
  <2>3. DOMAIN original.graph = Now /\ original.graph = succ_bbs
    BY <1>1, <1>3 DEF Graph
  <2> QED
    BY <1>1, <2>2, <2>3
<1>12. CodeIs
  <2>1. \A i \in DOMAIN inst : inst[i] = [original.inst[i] EXCEPT !.args = inst[i].args]
    <3> TAKE i \in DOMAIN inst
    <3>1. original.inst[i] \in ToSet(original.inst)
      BY <1>1, <1>2 DEF Instructions, ToSet
    <3>2. original.inst[i] \in [op : {"phi", "load", "store", "plain", "pure", "impure"},
                         args : {original.inst[i].args}, cell : Cells]
      BY <1>2, <3>1 DEF Instructions
    <3> DEFINE r == original.inst[i]
    <3>3. r = [r EXCEPT !.args = r.args]
      BY <3>2
    <3> QED
      BY <1>1, <3>3
  <2>2. \A b, c \in 1 .. n : \A j \in DOMAIN code[b], k \in DOMAIN code[c] : code[b][j] = code[c][k] => b = c /\ j = k
    BY <1>1, <1>2 DEF Laid, Graph, n
  <2>3. \A b \in 1 .. n : IsInjective(code[b])
    BY <2>2 DEF IsInjective
  <2>4. \A b, c \in 1 .. n : ToSet(code[b]) \cap ToSet(code[c]) # {} => b = c
    BY <2>2 DEF ToSet
  <2> QED
    BY <1>1, <1>3, <2>1, <2>3, <2>4 DEF CodeIs
<1>13. Found
  <2>1. ToSet(<<>>) = {} /\ <<>> \in Seq(DOMAIN inst) /\ IsInjective(<<>>)
    BY DEF ToSet, IsInjective
  <2> QED
    BY <1>1, <2>1 DEF Found, Working
<1> QED
  BY <1>5, <1>6, <1>7, <1>8, <1>9, <1>10, <1>11, <1>12, <1>13 DEF Linked

(* The steps of the execution, the call and the steps that change nothing.   *)
LEMMA LinkedAfter ==
    ASSUME Linked, \/ Call \/ (\E k \in 1 .. 2 : Block(k)) \/ Preheader \/ Return \/ UNCHANGED vars
    PROVE  /\ Linked' /\ Loops' = Loops /\ Rewired' = Rewired /\ Graph' = Graph
           /\ \A h \in Loops : Within(h)' = Within(h) /\ inner(h)' = inner(h)
<1>1. /\ UNCHANGED <<original, ir_vars, blocks, preheader, is_loop_done, loop, loop_invariant>>
      /\ \/ phase = "traverse" /\ phase' = "execute"
         \/ phase = "execute" /\ phase' \in {"execute", "returned"}
         \/ phase' = phase
  BY DEF Call, Block, Preheader, Return, vars, loop_vars
<1>2. /\ Types' /\ BlocksAre' /\ SuccsAre' /\ TermsAre' /\ PredsAre' /\ PhisAre' /\ CodeIs'
      /\ Loops' = Loops /\ Rewired' = Rewired /\ Added' = Added /\ Graph' = Graph
      /\ \A h \in Loops : Within(h)' = Within(h) /\ inner(h)' = inner(h)
  BY <1>1, Unmoved
<1>3. ir_vars' = ir_vars
  BY <1>1
<1>4. inst' = inst /\ code' = code /\ succ_bbs' = succ_bbs
  BY <1>3 DEF ir_vars
<1>5. Tables'
  BY <1>1, <1>2, <1>4 DEF Linked, Tables, Working
<1>6. Found'
  <2>1. \A i : Op(i)' = Op(i)
    BY <1>4 DEF Op
  <2>2. Working => loop \in Loops
    BY DEF Linked, Tables
  <2>3. Working' <=> Working
    BY <1>1 DEF Working
  <2>4. Working => Within(loop)' = Within(loop)
    BY <1>1, <1>2, <2>2
  <2>5. phase' = "move" <=> phase = "move"
    BY <1>1
  <2> QED
    BY <1>1, <1>4, <2>1, <2>3, <2>4, <2>5 DEF Linked, Found
<1> QED
  BY <1>2, <1>5, <1>6 DEF Linked

-----------------------------------------------------------------------------
(* The lists, the branches and the phis fit the graph of the function with a *)
(* preheader in front of every loop from which something has moved.          *)
THEOREM IsLinked == Spec => []Linked
<1>1. Init => Linked
  BY LinkedInit
<1>2. Linked /\ [Next]_vars => Linked'
  <2> SUFFICES ASSUME Linked, [Next]_vars PROVE Linked'
    OBVIOUS
  <2>1. ASSUME NEW h \in Loops, TraverseLoop(h) PROVE Linked'
    BY <2>1, LinkedTraverse
  <2>2. ASSUME NEW i \in DOMAIN inst, Mark(i) PROVE Linked'
    BY <2>2, LinkedMark
  <2>3. CASE Marked
    BY <2>3, LinkedMarked
  <2>4. CASE Rewire
    BY <2>4, LinkedRewire
  <2>5. CASE Move
    BY <2>5, LinkedMove
  <2>6. CASE Call \/ (\E k \in 1 .. 2 : Block(k)) \/ Preheader \/ Return \/ UNCHANGED vars
    BY <2>6, LinkedAfter
  <2> QED
    BY <2>1, <2>2, <2>3, <2>4, <2>5, <2>6 DEF Next, Licm
<1> QED
  BY <1>1, <1>2, PTL DEF Spec

LEMMA TargetsAre ==
    ASSUME Linked, phase # "move", NEW b \in Now
    PROVE  ToSet(succ_bbs[b]) = ToSet(targets(term[b]))
<1>1. /\ IsLoopGraph(Graph) /\ DOMAIN Graph = Places /\ Added = Now \ Places /\ Loops = Headers(Graph)
      /\ \A a \in Places : Graph[a] = targets(original.term[a])
  BY Shape DEF Linked, Tables
<1>2. CASE \E h \in Rewired : b = Entry(Graph, h) \/ b = preheader[h]
  <2>1. PICK h \in Rewired : b = Entry(Graph, h) \/ b = preheader[h]
    BY <1>2
  <2>2. ~Moving(h) /\ h \in Loops
    BY DEF Moving, Rewired
  <2>3. /\ succ_bbs[Entry(Graph, h)] = <<preheader[h]>> /\ ToSet(succ_bbs[preheader[h]]) = {h}
        /\ term[Entry(Graph, h)].op = "br" /\ term[Entry(Graph, h)].args = <<preheader[h]>>
        /\ term[preheader[h]].op = "br" /\ term[preheader[h]].args = <<h>>
    BY <2>2 DEF Linked, SuccsAre, TermsAre
  <2>4. CASE b = Entry(Graph, h)
    BY <2>3, <2>4 DEF targets
  <2>5. CASE b = preheader[h]
    <3>1. targets(term[b]) = <<h>>
      BY <2>3, <2>5 DEF targets
    <3> QED
      BY <2>3, <2>5, <3>1 DEF ToSet
  <2> QED
    BY <2>1, <2>4, <2>5
<1>3. CASE b \in Places /\ \A h \in Rewired : b # Entry(Graph, h)
  <2>1. succ_bbs[b] = Graph[b] /\ term[b] = original.term[b]
    BY <1>3 DEF Linked, SuccsAre, TermsAre
  <2> QED
    BY <1>1, <1>3, <2>1
<1>4. CASE b \notin Places /\ \A h \in Rewired : b # preheader[h]
  <2>1. PICK h \in Loops : preheader[h] = b
    BY <1>1, <1>4 DEF Linked, Tables
  <2>2. b # NoBlock
    BY Shape DEF Linked
  <2>3. succ_bbs[b] = <<>>
    BY <1>4, <2>1, <2>2 DEF Rewired
  <2>4. term[b].op = "none"
    BY <1>1, <1>4, <2>3 DEF Linked, TermsAre
  <2> QED
    BY <2>3, <2>4 DEF targets
<1> QED
  BY <1>2, <1>3, <1>4

LEMMA LinkedEdges ==
    ASSUME Linked
    PROVE  EdgesAgree
<1> SUFFICES ASSUME phase \in {"traverse", "execute"}, NEW b \in DOMAIN succ_bbs
             PROVE  /\ ToSet(succ_bbs[b]) = ToSet(targets(term[b]))
                    /\ \A c \in DOMAIN succ_bbs : b \in ToSet(pre_bbs[c]) <=> c \in ToSet(succ_bbs[b])
                    /\ IsInjective(pre_bbs[b])
                    /\ \A i \in ToSet(code[b]) : inst[i].op = "phi" =>
                          /\ {a[2] : a \in ToSet(inst[i].args)} = ToSet(pre_bbs[b])
                          /\ Len(inst[i].args) = Len(pre_bbs[b])
  BY DEF EdgesAgree
<1>1. DOMAIN succ_bbs = Now /\ \A a \in Now : pre_bbs[a] \in Seq(Nat)
  BY Shape DEF Linked
<1>2. \A c \in Now : IsInjective(pre_bbs[c]) /\ ToSet(pre_bbs[c]) = {a \in Now : c \in ToSet(succ_bbs[a])}
  BY DEF Linked, PredsAre
<1>3. ToSet(succ_bbs[b]) = ToSet(targets(term[b]))
  BY <1>1, TargetsAre
<1>4. ASSUME NEW i \in ToSet(code[b]), inst[i].op = "phi"
      PROVE  Seconds(inst[i].args) = ToSet(pre_bbs[b]) /\ Len(inst[i].args) = Len(pre_bbs[b])
  <2> DEFINE X == ({Zero} \cup DOMAIN original.inst) \X Nat
             s == inst[i].args
             t == pre_bbs[b]
  <2>1. s \in Seq(X) /\ Unique(s) /\ Seconds(s) = {a \in Now : b \in ToSet(succ_bbs[a])}
    BY <1>1, <1>4 DEF Linked, PhisAre, Op
  <2>2. t \in Seq(Nat) /\ IsInjective(t) /\ Seconds(s) = ToSet(t)
    BY <1>1, <1>2, <2>1
  <2> HIDE DEF X, s, t
  <2>3. Len(s) = Len(t)
    BY <2>1, <2>2, SameLength
  <2> QED
    BY <2>2, <2>3 DEF s, t
<1> QED
  BY <1>1, <1>2, <1>3, <1>4 DEF Seconds

(* When a loop is done, the lists of edges, the branches and the phis agree. *)
THEOREM EdgesAlwaysAgree == Spec => []EdgesAgree
<1>1. Linked => EdgesAgree
  BY LinkedEdges
<1> QED
  BY <1>1, IsLinked, PTL

-----------------------------------------------------------------------------
(* What a loop inside holds, the loop around holds.                          *)
LEMMA BodyInside ==
    ASSUME Types, Tables, BlocksAre, NEW h \in Loops, NEW l \in inner(h)
    PROVE  l \in Loops /\ Body(l) \subseteq Body(h) /\ Within(l) \subseteq Within(h)
<1>1. IsLoopGraph(Graph) /\ Loops = Headers(Graph)
  BY Shape DEF Tables
<1>2. l \in Loops /\ l \in Natural(Graph, h)
  BY <1>1, BodyIs DEF Nested
<1>3. Natural(Graph, l) \subseteq Natural(Graph, h)
  BY <1>1, <1>2, NestedInside
<1>4. h \in Natural(Graph, l) => h = l
  BY <1>1, <1>2, Mutual
<1>5. Natural(Graph, l) \ {l} \subseteq Natural(Graph, h) \ {h}
  BY <1>3, <1>4
<1>6. /\ Body(h) = Natural(Graph, h) \cup {preheader[k] : k \in {k \in Rewired : ~Moving(k) /\ k \in Natural(Graph, h) \ {h}}}
      /\ Body(l) = Natural(Graph, l) \cup {preheader[k] : k \in {k \in Rewired : ~Moving(k) /\ k \in Natural(Graph, l) \ {l}}}
  BY <1>2, BodyIs
<1>7. Body(l) \subseteq Body(h)
  BY <1>3, <1>5, <1>6
<1> QED
  BY <1>2, <1>7 DEF Within

LEMMA SettledStays ==
    ASSUME NEW h, Settled(h), Within(h)' = Within(h),
           \A i \in Within(h) : Op(i)' = Op(i) /\ (Op(i) = "phi" \/ Args(i)' = Args(i))
    PROVE  Settled(h)'
<1> QED
  BY DEF Settled

LEMMA SameInst ==
    ASSUME inst' = inst
    PROVE  \A i : Op(i)' = Op(i) /\ Args(i)' = Args(i)
BY DEF Op, Args

LEMMA MarksTraverse ==
    ASSUME Linked, Marks, NEW h \in Loops, TraverseLoop(h)
    PROVE  Marks'
<1>1. /\ phase = "traverse" /\ phase' = "mark" /\ loop' = h /\ h \notin is_loop_done /\ inner(h) \ {h} \subseteq is_loop_done
      /\ is_loop_done' = is_loop_done \cup {h} /\ loop_invariant' = loop_invariant
      /\ UNCHANGED <<original, ir_vars, blocks, preheader>>
  BY DEF TraverseLoop
<1>2. loop_invariant' = <<>> /\ ToSet(loop_invariant') = {}
  BY <1>1 DEF Linked, Found, Working, ToSet
<1>3. inst' = inst /\ Loops' = Loops /\ \A l \in Loops : Within(l)' = Within(l) /\ inner(l)' = inner(l)
  BY <1>1, Unmoved DEF ir_vars
<1>4. is_loop_done \subseteq Loops /\ ~Working
  BY <1>1 DEF Linked, Tables, Working
<1>5. \A l \in is_loop_done' : inner(l)' \subseteq is_loop_done'
  BY <1>1, <1>3, <1>4 DEF Marks
<1>6. \A l \in is_loop_done' : (Working' /\ l = loop') \/ Settled(l)'
  <2> SUFFICES ASSUME NEW l \in is_loop_done, l # h PROVE Settled(l)'
    BY <1>1 DEF Working
  <2>1. Settled(l)
    BY <1>4 DEF Marks
  <2> QED
    BY <2>1, <1>3, <1>4, SameInst, SettledStays
<1> QED
  BY <1>1, <1>2, <1>5, <1>6 DEF Marks

(* An instruction found invariant is none of an inner loop, or it would have *)
(* been found there.                                                         *)
LEMMA MarksMark ==
    ASSUME Linked, Marks, NEW i, Mark(i)
    PROVE  Marks'
<1>1. /\ phase = "mark" /\ UNCHANGED <<phase, loop, is_loop_done>>
      /\ loop_invariant' = Append(loop_invariant, i) /\ i \in Within(loop)
      /\ (\A j \in Within(loop) : Op(j) # "impure") /\ Op(i) \notin {"store", "phi"}
      /\ Args(i) \cap Within(loop) \subseteq ToSet(loop_invariant)
      /\ UNCHANGED <<original, ir_vars, blocks, preheader>>
  BY DEF Mark, invariant, op_are_invariant, contains_impure_call, loop_instructions, Within, Body, Op, Args
<1>2. /\ Working /\ Working' /\ loop \in is_loop_done /\ is_loop_done \subseteq Loops
      /\ loop_invariant \in Seq(DOMAIN inst)
  BY <1>1 DEF Working, Linked, Tables, Found
<1>3. inst' = inst /\ Loops' = Loops /\ \A l \in Loops : Within(l)' = Within(l) /\ inner(l)' = inner(l)
  BY <1>1, Unmoved DEF ir_vars
<1>4. ToSet(loop_invariant') = ToSet(loop_invariant) \cup {i}
  <2>1. i \in DOMAIN inst
    BY <1>1, <1>2, WithinIn DEF Linked
  <2> QED
    BY <1>1, <1>2, <2>1, AppendSet
<1>5. \A l \in inner(loop) \ {loop} : ToSet(loop_invariant') \cap Within(l) = {}
  <2> SUFFICES ASSUME NEW l \in inner(loop), l # loop, i \in Within(l) PROVE FALSE
    BY <1>2, <1>4 DEF Marks
  <2>1. Within(l) \subseteq Within(loop)
    BY <1>2, BodyInside DEF Linked
  <2>2. Settled(l)
    BY <1>2 DEF Marks
  <2>3. Args(i) \cap Within(l) # {}
    BY <2>1, <2>2, <1>1 DEF Settled
  <2>4. ToSet(loop_invariant) \cap Within(l) = {}
    BY <1>2 DEF Marks
  <2> QED
    BY <1>1, <2>1, <2>3, <2>4
<1>6. \A l \in inner(loop)' \ {loop'} : ToSet(loop_invariant)' \cap Within(l)' = {}
  <2>1. inner(loop)' = inner(loop)
    BY <1>1, <1>3 DEF inner, ir_vars
  <2>2. inner(loop) \subseteq Loops
    BY DEF inner
  <2> QED
    BY <1>1, <1>3, <1>5, <2>1, <2>2
<1>7. \A l \in is_loop_done' : inner(l)' \subseteq is_loop_done'
  BY <1>1, <1>2, <1>3 DEF Marks
<1>8. \A j \in Within(loop)' : Op(j)' # "impure"
  <2>1. Within(loop)' = Within(loop)
    <3> DEFINE l0 == loop
    <3>1. PICK l \in Loops : l = loop
      BY <1>2
    <3>2. Within(l)' = Within(l)
      BY <1>3
    <3> QED
      BY <1>1, <3>1, <3>2 DEF Within, Body, inner, Loops, ir_vars
  <2> QED
    BY <1>1, <1>3, <2>1, SameInst
<1>9. \A l \in is_loop_done' : (Working' /\ l = loop') \/ Settled(l)'
  <2> SUFFICES ASSUME NEW l \in is_loop_done, l # loop PROVE Settled(l)'
    BY <1>1, <1>2
  <2>1. Settled(l)
    BY DEF Marks
  <2> QED
    BY <2>1, <1>2, <1>3, SameInst, SettledStays
<1> QED
  BY <1>1, <1>6, <1>7, <1>8, <1>9 DEF Marks

LEMMA MarksMarked ==
    ASSUME Linked, Marks, Marked
    PROVE  Marks'
<1>1. /\ phase = "mark" /\ UNCHANGED <<loop, is_loop_done, loop_invariant, inst, blocks>>
      /\ phase' = IF loop_invariant = <<>> THEN "traverse" ELSE "rewire"
      /\ \A i \in Within(loop) \ ToSet(loop_invariant) :
            \/ Op(i) \in {"store", "phi"} \/ (\E j \in Within(loop) : Op(j) = "impure")
            \/ ~(Args(i) \cap Within(loop) \subseteq ToSet(loop_invariant))
  BY DEF Marked, invariant, op_are_invariant, contains_impure_call, loop_instructions, Within, Body, Op, Args
<1>2. Working /\ loop \in is_loop_done /\ is_loop_done \subseteq Loops
  BY <1>1 DEF Working, Linked, Tables
<1>3. Loops' = Loops /\ \A l \in Loops : Within(l)' = Within(l) /\ inner(l)' = inner(l)
  BY LinkedMarked
<1>4. PICK k \in Loops : k = loop /\ k = loop'
  BY <1>1, <1>2
<1>5. ToSet(loop_invariant)' = ToSet(loop_invariant)
  BY <1>1
<1>6. \A l \in is_loop_done' : inner(l)' \subseteq is_loop_done'
  BY <1>1, <1>2, <1>3 DEF Marks
<1>7. \A l \in inner(k) \ {k} : l \in Loops /\ ToSet(loop_invariant) \cap Within(l) = {}
  BY <1>2, <1>4 DEF Marks, inner
<1>8. loop_invariant # <<>> => \A i \in Within(k) : Op(i) # "impure"
  BY <1>4 DEF Marks
<1>9. loop_invariant # <<>> => \A i \in Within(k) \ ToSet(loop_invariant) :
         Op(i) \in {"store", "phi"} \/ ~(Args(i) \cap Within(k) \subseteq ToSet(loop_invariant))
  BY <1>1, <1>4, <1>8
<1>10. loop_invariant = <<>> => Settled(k)
  <2> SUFFICES ASSUME loop_invariant = <<>> PROVE Settled(k)
    OBVIOUS
  <2>1. ToSet(loop_invariant) = {}
    BY DEF ToSet
  <2> QED
    BY <1>1, <1>4, <2>1 DEF Settled
<1>11. \A l \in is_loop_done : Settled(l) => Settled(l)'
  BY <1>1, <1>2, <1>3, SameInst, SettledStays
<1>12. \A l \in is_loop_done' : (Working' /\ l = loop') \/ Settled(l)'
  BY <1>1, <1>2, <1>4, <1>10, <1>11 DEF Marks, Working
<1>13. /\ Within(loop)' = Within(k) /\ inner(loop)' = inner(k)
  <2>1. Within(k)' = Within(k) /\ inner(k)' = inner(k)
    BY <1>3
  <2>2. Within(loop)' = Within(k)' /\ inner(loop)' = inner(k)'
    BY <1>4 DEF Within, Body, inner
  <2> QED
    BY <2>1, <2>2
<1>14. \A l \in inner(loop)' \ {loop'} : ToSet(loop_invariant)' \cap Within(l)' = {}
  BY <1>3, <1>4, <1>5, <1>7, <1>13
<1>15. loop_invariant' # <<>> => \A i \in Within(loop)' : Op(i)' # "impure"
  BY <1>1, <1>8, <1>13, SameInst
<1>16. phase' \in {"rewire", "move"} =>
          /\ loop_invariant' # <<>>
          /\ \A i \in Within(loop)' \ ToSet(loop_invariant)' :
                Op(i)' \in {"store", "phi"} \/ ~(Args(i)' \cap Within(loop)' \subseteq ToSet(loop_invariant)')
  BY <1>1, <1>5, <1>9, <1>13, SameInst
<1> QED
  BY <1>6, <1>12, <1>14, <1>15, <1>16 DEF Marks

LEMMA MarksRewire ==
    ASSUME Linked, Marks, Rewire
    PROVE  Marks'
<1>1. /\ phase = "rewire" /\ phase' = "move" /\ UNCHANGED <<loop, is_loop_done, loop_invariant>>
  BY DEF Rewire, loop_vars
<1>2. Working /\ Working' /\ loop \in is_loop_done /\ is_loop_done \subseteq Loops
  BY <1>1 DEF Working, Linked, Tables
<1>3. Loops' = Loops /\ \A l \in Loops : Within(l)' = Within(l) /\ inner(l)' = inner(l)
  BY LinkedRewire
<1>4. PICK k \in Loops : k = loop /\ k = loop'
  BY <1>1, <1>2
<1>5. ToSet(loop_invariant)' = ToSet(loop_invariant)
  BY <1>1
<1>6. \A i \in DOMAIN inst : Op(i)' = Op(i) /\ (Op(i) = "phi" \/ Args(i)' = Args(i))
  <2> SUFFICES ASSUME NEW i \in DOMAIN inst
      PROVE  Op(i)' = Op(i) /\ (Op(i) = "phi" \/ Args(i)' = Args(i))
    OBVIOUS
  <2>1. Op(i)' = Op(i) /\ (Op(i) # "phi" => inst'[i] = inst[i])
    BY RewireInst
  <2> QED
    BY <2>1 DEF Args
<1>7. \A l \in Loops : Within(l) \subseteq DOMAIN inst
  BY WithinIn DEF Linked
<1>8. \A l \in is_loop_done' : inner(l)' \subseteq is_loop_done'
  BY <1>1, <1>2, <1>3 DEF Marks
<1>9. \A l \in is_loop_done' : (Working' /\ l = loop') \/ Settled(l)'
  <2> SUFFICES ASSUME NEW l \in is_loop_done, l # loop PROVE Settled(l)'
    BY <1>1, <1>2
  <2>1. Settled(l) /\ l \in Loops
    BY <1>2 DEF Marks
  <2> QED
    BY <2>1, <1>3, <1>6, <1>7, SettledStays
<1>10. Within(loop)' = Within(k) /\ inner(loop)' = inner(k)
  <2>1. Within(k)' = Within(k) /\ inner(k)' = inner(k)
    BY <1>3
  <2>2. Within(loop)' = Within(k)' /\ inner(loop)' = inner(k)'
    BY <1>4 DEF Within, Body, inner
  <2> QED
    BY <2>1, <2>2
<1>11. \A l \in inner(loop)' \ {loop'} : ToSet(loop_invariant)' \cap Within(l)' = {}
  <2>1. \A l \in inner(k) \ {k} : l \in Loops /\ ToSet(loop_invariant) \cap Within(l) = {}
    BY <1>2, <1>4 DEF Marks, inner
  <2> QED
    BY <1>3, <1>4, <1>5, <1>10, <2>1
<1>12. loop_invariant' # <<>> /\ \A i \in Within(loop)' : Op(i)' # "impure"
  <2>1. loop_invariant # <<>> /\ \A i \in Within(k) : Op(i) # "impure"
    BY <1>1, <1>4 DEF Marks
  <2> QED
    BY <1>1, <1>6, <1>7, <1>10, <2>1
<1>13. \A i \in Within(loop)' \ ToSet(loop_invariant)' :
          Op(i)' \in {"store", "phi"} \/ ~(Args(i)' \cap Within(loop)' \subseteq ToSet(loop_invariant)')
  <2>1. \A i \in Within(k) \ ToSet(loop_invariant) :
           Op(i) \in {"store", "phi"} \/ ~(Args(i) \cap Within(k) \subseteq ToSet(loop_invariant))
    BY <1>1, <1>4 DEF Marks
  <2> QED
    BY <1>5, <1>6, <1>7, <1>10, <2>1
<1> QED
  BY <1>8, <1>9, <1>11, <1>12, <1>13 DEF Marks

(* The blocks of a loop once the preheader belongs to the loop around.       *)
LEMMA BodyMoved ==
    ASSUME Linked, Move, NEW h \in Loops
    PROVE  LET p == preheader[loop]
           IN  /\ inner(h)' = inner(h)
               /\ Body(h)' = Body(h) \cup (IF loop \in Natural(Graph, h) \ {h} THEN {p} ELSE {})
               /\ p \notin Body(h)
<1> DEFINE p == preheader[loop]
<1>1. /\ IsLoopGraph(Graph) /\ Loops = Headers(Graph) /\ NoBlock \notin Now /\ Added = Now \ Places /\ DOMAIN Graph = Places
  BY Shape DEF Linked, Tables
<1>2. /\ phase = "move" /\ phase' = "traverse" /\ loop \in Rewired /\ loop \in Loops /\ p \in Added
      /\ preheader' = preheader
  BY MoveIs
<1>3. /\ Loops' = Loops /\ Rewired' = Rewired /\ Graph' = Graph /\ Linked'
  BY LinkedMove
<1>4. \A l \in Rewired : l \in Loops /\ preheader[l] \in Added
  BY <1>1 DEF Linked, Tables, Rewired
<1>5. \A l \in Rewired : l # loop => preheader[l] # p
  BY <1>2, <1>4, <1>1 DEF Linked, Tables
<1>6. HaveBlocks(Graph, Rewired, preheader, blocks')
  <2>1. \A l \in Loops : blocks'[l] = Natural(Graph, l) \cup {preheader[k] : k \in {k \in Rewired : Parent(Graph, k) = l}}
    BY <1>2, <1>3 DEF Linked, BlocksAre, Moving
  <2>2. \A l \in Rewired : preheader[l] \notin DOMAIN Graph
    BY <1>1, <1>4
  <2> QED
    BY <1>1, <1>4, <2>1, <2>2 DEF HaveBlocks
<1>7. /\ {l \in Headers(Graph) : l \in blocks'[h]} = Nested(Graph, h)
      /\ UNION {blocks'[l] : l \in Nested(Graph, h)}
            = Natural(Graph, h) \cup {preheader[l] : l \in {l \in Rewired : l \in Natural(Graph, h) \ {h}}}
  BY <1>1, <1>6, BodyOf
<1>8. inner(h)' = Nested(Graph, h)
  BY <1>1, <1>3, <1>7 DEF inner
<1>9. Body(h)' = Natural(Graph, h) \cup {preheader[l] : l \in {l \in Rewired : l \in Natural(Graph, h) \ {h}}}
  BY <1>7, <1>8 DEF Body
<1>10. /\ inner(h) = Nested(Graph, h)
       /\ Body(h) = Natural(Graph, h) \cup {preheader[l] : l \in {l \in Rewired : ~Moving(l) /\ l \in Natural(Graph, h) \ {h}}}
       /\ Natural(Graph, h) \subseteq Places
  BY BodyIs DEF Linked
<1>11. \A l : Moving(l) <=> l = loop
  BY <1>2 DEF Moving
<1>12. p \notin Natural(Graph, h)
  BY <1>1, <1>2, <1>10
<1>13. p \notin Body(h)
  BY <1>5, <1>10, <1>11, <1>12
<1> HIDE DEF p
<1>14. Body(h)' = Body(h) \cup (IF loop \in Natural(Graph, h) \ {h} THEN {p} ELSE {})
  <2>1. preheader[loop] = p
    BY DEF p
  <2> QED
    BY <1>2, <1>9, <1>10, <1>11, <2>1
<1> QED
  BY <1>8, <1>10, <1>13, <1>14 DEF p

(* Loops of which none is in the other have no instruction in common.        *)
LEMMA Apart ==
    ASSUME Linked, NEW h \in Loops, NEW l \in Loops, h \notin Natural(Graph, l), l \notin Natural(Graph, h)
    PROVE  Within(h) \cap Within(l) = {}
<1>1. /\ IsLoopGraph(Graph) /\ Loops = Headers(Graph) /\ NoBlock \notin Now /\ Added = Now \ Places
  BY Shape DEF Linked, Tables
<1>2. \A b : ~(b \in Natural(Graph, h) /\ b \in Natural(Graph, l))
  BY <1>1, Overlap
<1>3. \A k \in Rewired : k \in Loops /\ preheader[k] \in Added
  BY <1>1 DEF Linked, Tables, Rewired
<1>4. \A j, k \in Rewired : preheader[j] = preheader[k] => j = k
  BY <1>1, <1>3 DEF Linked, Tables
<1>5. /\ Body(h) = Natural(Graph, h) \cup {preheader[k] : k \in {k \in Rewired : ~Moving(k) /\ k \in Natural(Graph, h) \ {h}}}
      /\ Body(l) = Natural(Graph, l) \cup {preheader[k] : k \in {k \in Rewired : ~Moving(k) /\ k \in Natural(Graph, l) \ {l}}}
      /\ Natural(Graph, h) \subseteq Places /\ Natural(Graph, l) \subseteq Places
      /\ Body(h) \subseteq Now /\ Body(l) \subseteq Now
  BY BodyIs DEF Linked
<1>6. Body(h) \cap Body(l) = {}
  BY <1>1, <1>2, <1>3, <1>4, <1>5
<1>7. \A b \in Body(h), c \in Body(l) : ToSet(code[b]) \cap ToSet(code[c]) = {}
  BY <1>5, <1>6 DEF Linked, CodeIs
<1> QED
  BY <1>7 DEF Within

LEMMA WithinMoved ==
    ASSUME Linked, Move, NEW h \in Loops
    PROVE  LET S == ToSet(loop_invariant)
           IN  Within(h)' = IF loop \in Natural(Graph, h) \ {h} THEN (Within(h) \ S) \cup S ELSE Within(h) \ S
<1> DEFINE p == preheader[loop]
           S == ToSet(loop_invariant)
<1>0. /\ p \in Now /\ code'[p] = loop_invariant /\ loop \in Loops
      /\ \A b \in Now \ {p} : ToSet(code'[b]) = ToSet(code[b]) \ S
  BY MoveIs
<1>1. /\ Body(h)' = Body(h) \cup (IF loop \in Natural(Graph, h) \ {h} THEN {p} ELSE {})
      /\ p \notin Body(h) /\ Body(h) \subseteq Now
  BY BodyMoved, BodyIs DEF Linked
<1>2. Within(h)' = UNION {ToSet(code'[b]) : b \in Body(h)'}
  BY DEF Within
<1>3. \A b \in Body(h) : ToSet(code'[b]) = ToSet(code[b]) \ S
  BY <1>0, <1>1
<1>4. ToSet(code'[p]) = S
  BY <1>0
<1>5. UNION {ToSet(code'[b]) : b \in Body(h)} = Within(h) \ S
  BY <1>3 DEF Within
<1> HIDE DEF p, S
<1>6. ASSUME loop \in Natural(Graph, h) \ {h} PROVE Within(h)' = (Within(h) \ S) \cup S
  BY <1>1, <1>2, <1>4, <1>5, <1>6
<1>7. ASSUME loop \notin Natural(Graph, h) \ {h} PROVE Within(h)' = Within(h) \ S
  BY <1>1, <1>2, <1>5, <1>7
<1> QED
  BY <1>6, <1>7 DEF S

LEMMA MarksMove ==
    ASSUME Linked, Marks, Move
    PROVE  Marks'
<1> DEFINE p == preheader[loop]
           S == ToSet(loop_invariant)
<1>1. /\ phase = "move" /\ phase' = "traverse" /\ loop_invariant' = <<>>
      /\ UNCHANGED <<inst, is_loop_done, loop>> /\ loop \in Loops /\ p \in Now
      /\ code'[p] = loop_invariant
      /\ \A b \in Now \ {p} : ToSet(code'[b]) = ToSet(code[b]) \ S
  BY MoveIs
<1>2. Working /\ ~Working' /\ is_loop_done \subseteq Loops /\ Loops' = Loops
  BY <1>1, LinkedMove DEF Working, Linked, Tables
<1>3. S \subseteq Within(loop)
  BY <1>2 DEF Linked, Found
<1>4. ASSUME NEW h \in Loops
      PROVE  Within(h)' = IF loop \in Natural(Graph, h) \ {h} THEN (Within(h) \ S) \cup S ELSE Within(h) \ S
  BY <1>1, WithinMoved
<1>5. ASSUME NEW h \in Loops, h # loop
      PROVE  Within(h)' = Within(h)
  <2>1. loop \in Loops /\ IsLoopGraph(Graph) /\ Loops = Headers(Graph)
    BY <1>1, Shape DEF Linked, Tables
  <2>2. CASE loop \in Natural(Graph, h)
    <3>1. loop \in inner(h)
      BY <2>1, <2>2, BodyIs DEF Linked, Nested
    <3>2. Within(loop) \subseteq Within(h)
      BY <3>1, BodyInside DEF Linked
    <3> HIDE DEF S
    <3> QED
      BY <1>3, <1>4, <1>5, <2>2, <3>2
  <2>3. CASE loop \notin Natural(Graph, h) /\ h \in Natural(Graph, loop)
    <3>1. h \in inner(loop)
      BY <2>1, <2>3, BodyIs DEF Linked, Nested
    <3>2. S \cap Within(h) = {}
      BY <1>2, <1>5, <3>1 DEF Marks
    <3> QED
      BY <1>4, <2>3, <3>2
  <2>4. CASE loop \notin Natural(Graph, h) /\ h \notin Natural(Graph, loop)
    <3>1. Within(h) \cap Within(loop) = {}
      BY <2>1, <2>4, Apart
    <3> QED
      BY <1>3, <1>4, <2>4, <3>1
  <2> QED
    BY <2>2, <2>3, <2>4
<1>6. PICK k \in Loops : k = loop
  BY <1>1
<1>7. Within(k)' = Within(k) \ S
  BY <1>4, <1>6
<1>8. Settled(k)'
  <2>1. /\ \A i \in Within(k) : Op(i) # "impure"
        /\ \A i \in Within(k) \ S : Op(i) \in {"store", "phi"} \/ ~(Args(i) \cap Within(k) \subseteq S)
    BY <1>1, <1>6 DEF Marks
  <2>2. \A i \in Within(k)' : Op(i)' \in {"store", "phi"} \/ Args(i)' \cap Within(k)' # {}
    BY <1>1, <1>7, <2>1, SameInst
  <2> QED
    BY <2>2 DEF Settled
<1>9. \A l \in is_loop_done' : Settled(l)'
  <2> SUFFICES ASSUME NEW l \in is_loop_done, l # loop PROVE Settled(l)'
    BY <1>1, <1>6, <1>8
  <2>1. Settled(l) /\ l \in Loops
    BY <1>2 DEF Marks
  <2>2. Within(l)' = Within(l)
    BY <1>5, <2>1
  <2> QED
    BY <1>1, <2>1, <2>2, SameInst, SettledStays
<1>10. \A l \in is_loop_done' : inner(l)' \subseteq is_loop_done'
  <2>1. \A l \in Loops : inner(l)' = inner(l)
    BY BodyMoved
  <2> QED
    BY <1>1, <1>2, <2>1 DEF Marks
<1> QED
  BY <1>1, <1>2, <1>9, <1>10 DEF Marks

LEMMA MarksAfter ==
    ASSUME Linked, Marks, \/ Call \/ (\E k \in 1 .. 2 : Block(k)) \/ Preheader \/ Return \/ UNCHANGED vars
    PROVE  Marks'
<1>1. /\ UNCHANGED <<inst, loop, is_loop_done, loop_invariant>>
      /\ phase' = phase \/ (phase \in {"traverse", "execute"} /\ phase' \in {"execute", "returned"})
  BY DEF Call, Block, Preheader, Return, vars, ir_vars, loop_vars
<1>2. Loops' = Loops /\ \A l \in Loops : Within(l)' = Within(l) /\ inner(l)' = inner(l)
  BY LinkedAfter
<1>3. /\ is_loop_done \subseteq Loops /\ (Working => loop \in Loops) /\ (~Working => loop_invariant = <<>>)
      /\ Working' = Working
  BY <1>1 DEF Linked, Tables, Found, Working
<1>4. \A l \in is_loop_done' : inner(l)' \subseteq is_loop_done'
  BY <1>1, <1>2, <1>3 DEF Marks
<1>5. \A l \in is_loop_done : Settled(l) => Settled(l)'
  BY <1>1, <1>2, <1>3, SameInst, SettledStays
<1>6. \A l \in is_loop_done' : (Working' /\ l = loop') \/ Settled(l)'
  BY <1>1, <1>3, <1>5 DEF Marks
<1>7. CASE ~Working
  BY <1>1, <1>3, <1>4, <1>6, <1>7 DEF Marks, Working
<1>8. CASE Working
  <2>1. PICK k \in Loops : k = loop /\ k = loop'
    BY <1>1, <1>3, <1>8
  <2>2. Within(loop)' = Within(loop) /\ inner(loop)' = inner(loop)
    <3>1. Within(k)' = Within(k) /\ inner(k)' = inner(k)
      BY <1>2
    <3>2. Within(loop)' = Within(k)' /\ inner(loop)' = inner(k)'
      BY <2>1 DEF Within, Body, inner
    <3> QED
      BY <2>1, <3>1, <3>2
  <2>3. ToSet(loop_invariant)' = ToSet(loop_invariant) /\ phase' = phase
    BY <1>1, <1>8 DEF Working
  <2>4. \A l \in inner(loop) : Within(l)' = Within(l)
    BY <1>2 DEF inner
  <2>5. \A l \in inner(loop)' \ {loop'} : ToSet(loop_invariant)' \cap Within(l)' = {}
    BY <1>1, <1>8, <2>2, <2>3, <2>4 DEF Marks
  <2>6. loop_invariant' # <<>> => \A i \in Within(loop)' : Op(i)' # "impure"
    BY <1>1, <2>2, SameInst DEF Marks
  <2>7. phase' \in {"rewire", "move"} =>
          /\ loop_invariant' # <<>>
          /\ \A i \in Within(loop)' \ ToSet(loop_invariant)' :
                Op(i)' \in {"store", "phi"} \/ ~(Args(i)' \cap Within(loop)' \subseteq ToSet(loop_invariant)')
    BY <1>1, <2>2, <2>3, SameInst DEF Marks
  <2> QED
    BY <1>4, <1>6, <2>5, <2>6, <2>7 DEF Marks
<1> QED
  BY <1>7, <1>8

(* A finished loop holds nothing that can be moved out of it.                *)
THEOREM IsSettled == Spec => [](Linked /\ Marks)
<1>1. Init => Linked /\ Marks
  <2> SUFFICES ASSUME Init PROVE Linked /\ Marks
    OBVIOUS
  <2>1. is_loop_done = {} /\ loop_invariant = <<>> /\ phase = "traverse"
    BY DEF Init
  <2> QED
    BY <2>1, LinkedInit DEF Marks, Working
<1>2. Linked /\ Marks /\ [Next]_vars => (Linked /\ Marks)'
  <2> SUFFICES ASSUME Linked, Marks, [Next]_vars PROVE Linked' /\ Marks'
    OBVIOUS
  <2>1. ASSUME NEW h \in Loops, TraverseLoop(h) PROVE Linked' /\ Marks'
    BY <2>1, LinkedTraverse, MarksTraverse
  <2>2. ASSUME NEW i \in DOMAIN inst, Mark(i) PROVE Linked' /\ Marks'
    BY <2>2, LinkedMark, MarksMark
  <2>3. CASE Marked
    BY <2>3, LinkedMarked, MarksMarked
  <2>4. CASE Rewire
    BY <2>4, LinkedRewire, MarksRewire
  <2>5. CASE Move
    BY <2>5, LinkedMove, MarksMove
  <2>6. CASE Call \/ (\E k \in 1 .. 2 : Block(k)) \/ Preheader \/ Return \/ UNCHANGED vars
    BY <2>6, LinkedAfter, MarksAfter
  <2> QED
    BY <2>1, <2>2, <2>3, <2>4, <2>5, <2>6 DEF Next, Licm
<1> QED
  BY <1>1, <1>2, PTL DEF Spec

(* The graph of the new function is that of the old one with the preheaders  *)
(* of the rewired loops.                                                     *)
LEMMA NowDivided ==
    ASSUME Linked
    PROVE  Divided(Graph, succ_bbs, Rewired, preheader)
<1>1. /\ IsLoopGraph(Graph) /\ Loops = Headers(Graph) /\ NoBlock \notin Now /\ Added = Now \ Places /\ DOMAIN Graph = Places
      /\ DOMAIN succ_bbs = Now /\ Places \subseteq Now /\ Len(succ_bbs) \in Nat
  BY Shape DEF Linked, Tables
<1>2. IsFiniteSet(DOMAIN succ_bbs) /\ 0 \notin DOMAIN succ_bbs
  <2>1. 1 \in Int /\ Len(succ_bbs) \in Int
    BY <1>1
  <2>2. IsFiniteSet(Now)
    BY <2>1, FS_Interval DEF Now
  <2> QED
    BY <1>1, <2>2 DEF NoBlock
<1>3. Rewired \subseteq Headers(Graph) /\ \A h \in Rewired : preheader[h] \in DOMAIN succ_bbs \ DOMAIN Graph
  BY <1>1 DEF Linked, Tables, Rewired
<1>4. \A h, l \in Rewired : preheader[h] = preheader[l] => h = l
  BY <1>1, <1>3 DEF Linked, Tables
<1>5. \A h \in Rewired : ToSet(succ_bbs[Entry(Graph, h)]) = {preheader[h]} /\ ToSet(succ_bbs[preheader[h]]) = {h}
  <2> TAKE h \in Rewired
  <2>1. succ_bbs[Entry(Graph, h)] = <<preheader[h]>> /\ ToSet(succ_bbs[preheader[h]]) = {h}
    BY DEF Linked, SuccsAre
  <2> QED
    BY <2>1 DEF ToSet
<1>6. \A b \in DOMAIN Graph : (\A h \in Rewired : b # Entry(Graph, h)) => ToSet(succ_bbs[b]) = ToSet(Graph[b])
  BY <1>1 DEF Linked, SuccsAre
<1>7. \A b \in DOMAIN succ_bbs \ DOMAIN Graph : (\A h \in Rewired : b # preheader[h]) => ToSet(succ_bbs[b]) = {}
  <2> SUFFICES ASSUME NEW b \in Now \ Places, \A h \in Rewired : b # preheader[h] PROVE ToSet(succ_bbs[b]) = {}
    BY <1>1
  <2>1. PICK h \in Loops : preheader[h] = b
    BY <1>1 DEF Linked, Tables
  <2>2. succ_bbs[b] = <<>>
    BY <1>1, <2>1 DEF Rewired
  <2> QED
    BY <2>2 DEF ToSet
<1> QED
  BY <1>1, <1>2, <1>3, <1>4, <1>5, <1>6, <1>7 DEF Divided

(* After the pass the natural loops of the new graph that hold no impure     *)
(* call hold nothing whose operands all come from outside of them.           *)
THEOREM NothingIsLeft == Spec => []NothingInvariantLeft
<1>1. Linked /\ Marks => NothingInvariantLeft
  <2> SUFFICES ASSUME Linked, Marks, phase = "traverse", is_loop_done = Loops, NEW h \in Loops
      PROVE  LET all == UNION {ToSet(code[b]) : b \in NaturalLoop(succ_bbs, 1, h)}
             IN  (\A i \in all : inst[i].op # "impure") =>
                    \A i \in all : inst[i].op \in {"store", "phi"} \/ ToSet(inst[i].args) \cap all # {}
    BY DEF NothingInvariantLeft
  <2>1. IsLoopGraph(Graph) /\ Loops = Headers(Graph)
    BY Shape DEF Linked, Tables
  <2>2. Natural(succ_bbs, h) = Natural(Graph, h) \cup {preheader[l] : l \in {l \in Rewired : l \in Natural(Graph, h) \ {h}}}
    BY <2>1, NowDivided, DividedLoop
  <2>3. Body(h) = Natural(Graph, h) \cup {preheader[l] : l \in {l \in Rewired : ~Moving(l) /\ l \in Natural(Graph, h) \ {h}}}
    BY BodyIs DEF Linked
  <2>4. \A l : ~Moving(l)
    BY DEF Moving
  <2>5. NaturalLoop(succ_bbs, 1, h) = Body(h)
    BY <2>2, <2>3, <2>4 DEF Natural
  <2>6. Within(h) = UNION {ToSet(code[b]) : b \in NaturalLoop(succ_bbs, 1, h)}
    BY <2>5 DEF Within
  <2>7. Settled(h)
    BY DEF Marks, Working
  <2> QED
    BY <2>6, <2>7 DEF Settled, Op, Args
<1> QED
  BY <1>1, IsSettled, PTL

-----------------------------------------------------------------------------
(* The execution of a list of instructions, one after the other.             *)
Ran(ins, body, m, w) ==
    /\ w = [k \in 0 .. Len(body) |-> w[k]] /\ w[0] = m
    /\ \A k \in 0 .. Len(body) - 1 : w[k + 1] = Execute(ins, w[k], body[k + 1])

LEMMA RunExists ==
    ASSUME NEW ins, NEW X, NEW body \in Seq(X), NEW m
    PROVE  \E w : Ran(ins, body, m, w)
<1>1. Len(body) \in Nat
  OBVIOUS
<1> DEFINE N == Len(body)
           P(w, n) == /\ w = [k \in 0 .. n |-> w[k]] /\ w[0] = m
                      /\ \A k \in 0 .. n - 1 : w[k + 1] = Execute(ins, w[k], body[k + 1])
           T == {n \in Nat : \E w : P(w, n)}
<1>2. 0 \in T
  <2> DEFINE w == [k \in 0 .. 0 |-> m]
  <2>1. P(w, 0)
    OBVIOUS
  <2> QED
    BY <2>1
<1>3. ASSUME NEW n \in Nat, n \in T PROVE n + 1 \in T
  <2>1. PICK f : P(f, n)
    BY <1>3
  <2> DEFINE w == [k \in 0 .. n + 1 |-> IF k = n + 1 THEN Execute(ins, f[n], body[n + 1]) ELSE f[k]]
  <2>2. w[n + 1] = Execute(ins, f[n], body[n + 1]) /\ \A k \in 0 .. n : w[k] = f[k]
    OBVIOUS
  <2>3. w = [k \in 0 .. n + 1 |-> w[k]]
    OBVIOUS
  <2> HIDE DEF w
  <2>4. w[0] = m
    BY <2>1, <2>2
  <2>5. ASSUME NEW k \in 0 .. n PROVE w[k + 1] = Execute(ins, w[k], body[k + 1])
    <3>1. CASE k = n
      BY <2>2, <3>1
    <3>2. CASE k # n
      <4>1. k \in 0 .. n - 1 /\ k + 1 \in 0 .. n
        BY <3>2
      <4> QED
        BY <2>1, <2>2, <4>1
    <3> QED
      BY <3>1, <3>2
  <2>6. (n + 1) - 1 = n
    OBVIOUS
  <2>7. P(w, n + 1)
    BY <2>3, <2>4, <2>5, <2>6
  <2> QED
    BY <2>7
<1> HIDE DEF T, P
<1>4. N \in T
  BY <1>1, <1>2, <1>3, Induction
<1>5. PICK w : P(w, N)
  BY <1>4 DEF T
<1> QED
  BY <1>5 DEF P, Ran

LEMMA RunSteps ==
    ASSUME NEW ins, NEW X, NEW body \in Seq(X), NEW m
    PROVE  \E w : Ran(ins, body, m, w) /\ Run(ins, body, m) = w[Len(body)]
<1> DEFINE N == Len(body)
           E(f, k) == IF k = 0 THEN m ELSE Execute(ins, f[k - 1], body[k])
           Def(f) == f = [k \in 0 .. N |-> E(f, k)]
           w == CHOOSE f : Def(f)
<1>0. N \in Nat
  OBVIOUS
<1>1. PICK g : Ran(ins, body, m, g)
  BY RunExists
<1> HIDE DEF N
<1>2. /\ g = [k \in 0 .. N |-> g[k]] /\ g[0] = m
      /\ \A k \in 0 .. N - 1 : g[k + 1] = Execute(ins, g[k], body[k + 1])
  BY <1>1 DEF Ran, N
<1>3. \A k \in 0 .. N : g[k] = E(g, k)
  <2> SUFFICES ASSUME NEW k \in 0 .. N, k # 0 PROVE g[k] = E(g, k)
    BY <1>2
  <2>1. k - 1 \in 0 .. N - 1 /\ (k - 1) + 1 = k
    BY <1>0
  <2> QED
    BY <1>2, <2>1
<1>4. Def(w)
  <2> HIDE DEF E
  <2>1. Def(g)
    BY <1>2, <1>3
  <2> QED
    BY <2>1
<1>5. Run(ins, body, m) = w[N]
  BY DEF Run, N
<1> HIDE DEF w
<1>6. w = [k \in 0 .. N |-> w[k]] /\ \A k \in 0 .. N : w[k] = E(w, k)
  <2> HIDE DEF E
  <2> QED
    BY <1>4
<1>7. w[0] = m
  <2>1. 0 \in 0 .. N
    BY <1>0
  <2> QED
    BY <1>6, <2>1
<1>8. \A k \in 0 .. N - 1 : w[k + 1] = Execute(ins, w[k], body[k + 1])
  <2> TAKE k \in 0 .. N - 1
  <2>1. k + 1 \in 0 .. N /\ k + 1 # 0 /\ (k + 1) - 1 = k
    BY <1>0
  <2> QED
    BY <1>6, <2>1
<1> HIDE DEF E
<1>9. Ran(ins, body, m, w)
  BY <1>6, <1>7, <1>8 DEF Ran, N
<1> QED
  BY <1>5, <1>9 DEF N

LEMMA RunEmpty ==
    ASSUME NEW ins, NEW m
    PROVE  Run(ins, <<>>, m) = m
<1>1. <<>> \in Seq({}) /\ Len(<<>>) = 0
  OBVIOUS
<1>2. PICK w : Ran(ins, <<>>, m, w) /\ Run(ins, <<>>, m) = w[Len(<<>>)]
  BY <1>1, RunSteps
<1> QED
  BY <1>1, <1>2 DEF Ran

LEMMA RunAppend ==
    ASSUME NEW ins, NEW X, NEW t \in Seq(X), NEW e \in X, NEW m
    PROVE  Run(ins, Append(t, e), m) = Execute(ins, Run(ins, t, m), e)
<1> DEFINE s == Append(t, e)
           n == Len(t)
<1>1. /\ s \in Seq(X) /\ n \in Nat /\ Len(s) = n + 1 /\ s[n + 1] = e
      /\ \A k \in 1 .. n : s[k] = t[k]
  OBVIOUS
<1> HIDE DEF s, n
<1>2. PICK v : Ran(ins, t, m, v) /\ Run(ins, t, m) = v[n]
  BY RunSteps DEF n
<1>3. PICK w : Ran(ins, s, m, w) /\ Run(ins, s, m) = w[n + 1]
  <2>1. \E w : Ran(ins, s, m, w) /\ Run(ins, s, m) = w[Len(s)]
    BY <1>1, RunSteps
  <2> QED
    BY <1>1, <2>1
<1> DEFINE T == {k \in Nat : k \in 0 .. n => v[k] = w[k]}
<1>4. 0 \in T
  BY <1>2, <1>3 DEF Ran
<1>5. ASSUME NEW k \in Nat, k \in T PROVE k + 1 \in T
  <2> SUFFICES ASSUME k + 1 \in 0 .. n PROVE v[k + 1] = w[k + 1]
    OBVIOUS
  <2>1. k \in 0 .. n /\ k \in 0 .. n - 1 /\ k \in 0 .. (n + 1) - 1 /\ k + 1 \in 1 .. n
    BY <1>1
  <2>2. v[k + 1] = Execute(ins, v[k], t[k + 1])
    BY <1>2, <2>1 DEF Ran, n
  <2>3. w[k + 1] = Execute(ins, w[k], s[k + 1])
    BY <1>1, <1>3, <2>1 DEF Ran
  <2>4. v[k] = w[k] /\ s[k + 1] = t[k + 1]
    BY <1>1, <1>5, <2>1
  <2> QED
    BY <2>2, <2>3, <2>4
<1> HIDE DEF T
<1>6. n \in T
  BY <1>1, <1>4, <1>5, Induction
<1>7. v[n] = w[n]
  BY <1>1, <1>6 DEF T
<1>8. w[n + 1] = Execute(ins, w[n], s[n + 1])
  <2>1. n \in 0 .. (n + 1) - 1
    BY <1>1
  <2> QED
    BY <1>1, <1>3, <2>1 DEF Ran
<1> QED
  BY <1>1, <1>2, <1>3, <1>7, <1>8 DEF s

(* What is left of a list is executed by passing over the rest.              *)
Passed(ins, s, S, m, y) ==
    /\ y[0] = m /\ Run(ins, without(s, S), m) = y[Len(s)]
    /\ \A k \in 0 .. Len(s) - 1 :
          y[k + 1] = IF s[k + 1] \in S THEN y[k] ELSE Execute(ins, y[k], s[k + 1])

LEMMA RunWithout ==
    ASSUME NEW ins, NEW X, NEW s \in Seq(X), NEW S, NEW m
    PROVE  \E y : Passed(ins, s, S, m, y)
<1>1. PICK w \in [0 .. Len(s) -> Seq(X)] : Kept(s, S, w)
  BY WithoutSteps
<1> DEFINE y == [k \in 0 .. Len(s) |-> Run(ins, w[k], m)]
<1>2. Len(s) \in Nat /\ 0 \in 0 .. Len(s) /\ Len(s) \in 0 .. Len(s) /\ \A k \in 0 .. Len(s) - 1 : s[k + 1] \in X
  OBVIOUS
<1>3. \A k \in 0 .. Len(s) : y[k] = Run(ins, w[k], m)
  OBVIOUS
<1> HIDE DEF y
<1>4. y[0] = m
  BY <1>1, <1>2, <1>3, RunEmpty DEF Kept
<1>5. Run(ins, without(s, S), m) = y[Len(s)]
  BY <1>1, <1>2, <1>3 DEF Kept
<1>6. ASSUME NEW k \in 0 .. Len(s) - 1
      PROVE  y[k + 1] = IF s[k + 1] \in S THEN y[k] ELSE Execute(ins, y[k], s[k + 1])
  <2>1. /\ k \in 0 .. Len(s) /\ k + 1 \in 0 .. Len(s) /\ s[k + 1] \in X /\ w[k] \in Seq(X)
        /\ w[k + 1] = IF s[k + 1] \in S THEN w[k] ELSE Append(w[k], s[k + 1])
    BY <1>1, <1>2 DEF Kept
  <2>2. Run(ins, Append(w[k], s[k + 1]), m) = Execute(ins, Run(ins, w[k], m), s[k + 1])
    BY <2>1, RunAppend
  <2> QED
    BY <1>3, <2>1, <2>2
<1> QED
  BY <1>4, <1>5, <1>6 DEF Passed

-----------------------------------------------------------------------------
(* One instruction: what it changes.                                         *)
Effect(ins, D, m, i, x) ==
    LET r == ins[i]
    IN  /\ IsMachine(x, D) /\ x.at = m.at /\ x.from = m.from /\ x.given = m.given
        /\ \A j \in D \ {i} : x.env[j] = m.env[j]
        /\ r.op \in {"load", "plain", "pure"} => x.env[i] = Result(r, m) /\ x.mem = m.mem
        /\ r.op \notin {"load", "plain", "pure"} => x.env = m.env
        /\ r.op \notin {"load", "plain", "pure", "store", "impure"} => x = m
        /\ r.op = "store" => x.mem = [m.mem EXCEPT ![r.cell] = Arguments(r, m)[1]]
        /\ r.op = "impure" => x.mem = [c \in Cells |-> (m.mem[c] + 1) % Modulus]

LEMMA ExecuteIs ==
    ASSUME NEW ins, NEW D, NEW m, IsMachine(m, D), NEW i \in D
    PROVE  Effect(ins, D, m, i, Execute(ins, m, i))
<1> DEFINE x == Execute(ins, m, i)
           r == ins[i]
           arg == [k \in DOMAIN r.args |-> IF r.op = "phi" THEN 0 ELSE value(m.env, r.args[k])]
           v == CASE r.op = "load"  -> m.mem[r.cell]
                  [] r.op \in {"plain", "pure"} -> total(arg) % Modulus
<1>1. m = [at |-> m.at, from |-> m.from, env |-> m.env, mem |-> m.mem, given |-> m.given]
      /\ m.env = [j \in D |-> m.env[j]] /\ m.mem = [c \in Cells |-> m.mem[c]]
  BY DEF IsMachine
<1>2. r.op # "phi" => arg = Arguments(r, m)
  BY DEF Arguments
<1>3. x = CASE r.op = "load"   -> [m EXCEPT !.env[i] = m.mem[r.cell]]
            [] r.op = "store"  -> [m EXCEPT !.mem[r.cell] = arg[1]]
            [] r.op \in {"plain", "pure"} -> [m EXCEPT !.env[i] = total(arg) % Modulus]
            [] r.op = "impure" -> [m EXCEPT !.mem = [c \in Cells |-> (@[c] + 1) % Modulus]]
            [] OTHER           -> m
  BY DEF Execute
<1> HIDE DEF x, r, arg
<1>4. CASE r.op \in {"load", "plain", "pure"}
  <2>1. x = [m EXCEPT !.env[i] = v]
    BY <1>3, <1>4
  <2>2. v = Result(r, m)
    BY <1>2, <1>4 DEF Result
  <2> HIDE DEF v
  <2> DEFINE f == [m.env EXCEPT ![i] = v]
  <2>3. f = [j \in D |-> IF j = i THEN v ELSE m.env[j]]
    BY <1>1
  <2> HIDE DEF f
  <2>4. x = [at |-> m.at, from |-> m.from, env |-> f, mem |-> m.mem, given |-> m.given]
    <3>1. x = [m EXCEPT !.env = f]
      BY <2>1 DEF f
    <3> QED
      BY <1>1, <3>1
  <2>5. x.env = f /\ x.mem = m.mem /\ x.at = m.at /\ x.from = m.from /\ x.given = m.given
    BY <2>4
  <2>6. f = [j \in D |-> f[j]] /\ f[i] = v /\ \A j \in D \ {i} : f[j] = m.env[j]
    BY <2>3
  <2>7. IsMachine(x, D)
    BY <1>1, <2>4, <2>5, <2>6 DEF IsMachine
  <2> QED
    BY <1>4, <2>2, <2>5, <2>6, <2>7 DEF x, r, Effect
<1>5. CASE r.op \in {"store", "impure"}
  <2> DEFINE f == IF r.op = "store" THEN [m.mem EXCEPT ![r.cell] = arg[1]] ELSE [c \in Cells |-> (m.mem[c] + 1) % Modulus]
  <2>1. x = [m EXCEPT !.mem = f]
    BY <1>3, <1>5
  <2>2. f = [c \in Cells |-> f[c]]
    <3>1. CASE r.op = "store"
      <4>1. f = [c \in Cells |-> IF c = r.cell THEN arg[1] ELSE m.mem[c]]
        BY <1>1, <3>1
      <4> HIDE DEF f
      <4> QED
        BY <4>1
    <3>2. CASE r.op # "store"
      <4>1. f = [c \in Cells |-> (m.mem[c] + 1) % Modulus]
        BY <3>2
      <4> HIDE DEF f
      <4> QED
        BY <4>1
    <3> QED
      BY <3>1, <3>2
  <2>3. r.op = "store" => f = [m.mem EXCEPT ![r.cell] = Arguments(r, m)[1]]
    BY <1>2
  <2>4. r.op = "impure" => f = [c \in Cells |-> (m.mem[c] + 1) % Modulus]
    BY <1>5
  <2> HIDE DEF f
  <2>5. x = [at |-> m.at, from |-> m.from, env |-> m.env, mem |-> f, given |-> m.given]
    BY <1>1, <2>1
  <2>6. x.env = m.env /\ x.mem = f /\ x.at = m.at /\ x.from = m.from /\ x.given = m.given
    BY <2>5
  <2>7. IsMachine(x, D)
    BY <1>1, <2>2, <2>5, <2>6 DEF IsMachine
  <2> QED
    BY <1>5, <2>3, <2>4, <2>6, <2>7 DEF x, r, Effect
<1>6. CASE r.op \notin {"load", "plain", "pure", "store", "impure"}
  <2>1. x = m
    BY <1>3, <1>6
  <2> QED
    BY <1>6, <2>1 DEF x, r, Effect
<1> QED
  BY <1>4, <1>5, <1>6

LEMMA SameArguments ==
    ASSUME NEW r, NEW x, NEW y, \A v \in ToSet(r.args) : v = Zero \/ x.env[v] = y.env[v]
    PROVE  Arguments(r, x) = Arguments(r, y)
<1>1. \A k \in DOMAIN r.args : r.args[k] \in ToSet(r.args)
  BY DEF ToSet
<1>2. \A k \in DOMAIN r.args : value(x.env, r.args[k]) = value(y.env, r.args[k])
  BY <1>1 DEF value
<1> QED
  BY <1>2 DEF Arguments

LEMMA SameResult ==
    ASSUME NEW r, NEW x, NEW y, r.op \in {"load", "plain", "pure"},
           r.op # "load" => \A v \in ToSet(r.args) : v = Zero \/ x.env[v] = y.env[v],
           r.op = "load" => x.mem[r.cell] = y.mem[r.cell]
    PROVE  Result(r, x) = Result(r, y)
<1>1. r.op # "load" => Arguments(r, x) = Arguments(r, y)
  BY SameArguments
<1> QED
  BY <1>1 DEF Result

-----------------------------------------------------------------------------
(* The instructions of the two functions.                                    *)
Operations == {"phi", "load", "store", "plain", "pure", "impure"}

LEMMA InstIs ==
    ASSUME Linked, NEW i \in DOMAIN inst
    PROVE  /\ i \in DOMAIN original.inst /\ original.inst[i].op = Op(i) /\ Op(i) \in Operations
           /\ inst[i].cell = original.inst[i].cell /\ inst[i].cell \in Cells
           /\ Op(i) # "phi" => inst[i] = original.inst[i] /\ Args(i) \subseteq {Zero} \cup DOMAIN inst
<1>1. /\ DOMAIN inst = DOMAIN original.inst /\ inst[i] = [original.inst[i] EXCEPT !.args = inst[i].args]
      /\ Op(i) # "phi" => inst[i] = original.inst[i]
  BY DEF Linked, CodeIs
<1>2. Instructions(original)
  BY Shape DEF Linked
<1>3. original.inst[i] \in ToSet(original.inst)
  BY <1>1 DEF ToSet
<1>4. /\ original.inst[i] \in [op : Operations, args : {original.inst[i].args}, cell : Cells]
      /\ original.inst[i].op # "phi" => original.inst[i].args \in Seq({Zero} \cup DOMAIN original.inst)
  BY <1>2, <1>3 DEF Instructions, Operations
<1>5. /\ inst[i].op = original.inst[i].op /\ inst[i].cell = original.inst[i].cell
      /\ original.inst[i].op \in Operations /\ original.inst[i].cell \in Cells
  BY <1>1, <1>4
<1>6. Op(i) # "phi" => Args(i) \subseteq {Zero} \cup DOMAIN inst
  <2> SUFFICES ASSUME Op(i) # "phi" PROVE Args(i) \subseteq {Zero} \cup DOMAIN inst
    OBVIOUS
  <2> DEFINE V == {Zero} \cup DOMAIN inst
             s == inst[i].args
  <2>1. s \in Seq(V)
    BY <1>1, <1>4, <1>5 DEF Op
  <2> HIDE DEF V, s
  <2>2. ToSet(s) \subseteq V
    BY <2>1 DEF ToSet
  <2> QED
    BY <2>2 DEF V, s, Args
<1> QED
  BY <1>1, <1>5, <1>6 DEF Op

(* The place of an instruction.                                              *)
LEMMA CodeOf ==
    ASSUME Linked, NEW b \in Places
    PROVE  /\ original.code[b] \in Seq(DOMAIN inst) /\ IsInjective(original.code[b])
           /\ \A c \in Places : \A i \in ToSet(original.code[b]) : i \in ToSet(original.code[c]) => b = c
<1>1. /\ Laid(original) /\ DOMAIN Graph = Places /\ DOMAIN inst = DOMAIN original.inst
  BY Shape DEF Linked, CodeIs
<1>2. /\ original.code \in Seq(Seq(DOMAIN original.inst)) /\ Len(original.code) = Len(Graph)
      /\ \A a, c \in Places : \A j \in DOMAIN original.code[a], k \in DOMAIN original.code[c] :
            original.code[a][j] = original.code[c][k] => a = c /\ j = k
  BY <1>1 DEF Laid, Graph, Places
<1>3. original.code[b] \in Seq(DOMAIN inst)
  <2> DEFINE V == Seq(DOMAIN inst)
  <2>1. original.code \in Seq(V) /\ b \in 1 .. Len(original.code)
    BY <1>1, <1>2 DEF Places
  <2> HIDE DEF V
  <2>2. original.code[b] \in V
    BY <2>1
  <2> QED
    BY <2>2 DEF V
<1>4. IsInjective(original.code[b])
  BY <1>2 DEF IsInjective
<1>5. \A c \in Places : \A i \in ToSet(original.code[b]) : i \in ToSet(original.code[c]) => b = c
  BY <1>2 DEF ToSet
<1> QED
  BY <1>3, <1>4, <1>5

LEMMA CodeNow ==
    ASSUME Linked, CodeWas, NEW b \in Places
    PROVE  ToSet(code[b]) = ToSet(original.code[b]) \ Hoisted
<1>1. original.code[b] \in Seq(DOMAIN inst) /\ code[b] = without(original.code[b], Hoisted)
  BY CodeOf DEF CodeWas
<1> QED
  BY <1>1, WithoutFacts

(* What has been moved has left some loop.                                   *)
LEMMA HoistedFrom ==
    ASSUME Linked, Left, NEW i \in Hoisted
    PROVE  \E h \in Rewired : i \in ToSet(code[preheader[h]]) /\ HasLeft(h, i) /\ Harmless(h)
<1>1. PICK b \in Added : i \in ToSet(code[b])
  BY DEF Hoisted
<1>2. PICK h \in Loops : preheader[h] = b
  BY <1>1 DEF Linked, Tables
<1>3. NoBlock \notin Now /\ Added = Now \ Places
  BY Shape DEF Linked
<1>4. preheader[h] # NoBlock
  BY <1>1, <1>2, <1>3
<1>5. succ_bbs[b] # <<>>
  <2>1. code[b] # <<>>
    BY <1>1 DEF ToSet
  <2> QED
    BY <1>1, <2>1 DEF Linked, CodeIs
<1> QED
  BY <1>1, <1>2, <1>4, <1>5 DEF Left, Rewired

LEMMA WithinWas ==
    ASSUME Linked, CodeWas, Left, NEW h \in Loops, NEW j \in Within(h)
    PROVE  \E b \in Natural(Graph, h) : j \in ToSet(original.code[b])
<1>1. PICK b \in Body(h) : j \in ToSet(code[b])
  BY DEF Within
<1>2. IsLoopGraph(Graph) /\ Loops = Headers(Graph) /\ NoBlock \notin Now /\ Added = Now \ Places
  BY Shape DEF Linked, Tables
<1>3. /\ Body(h) = Natural(Graph, h) \cup {preheader[l] : l \in {l \in Rewired : ~Moving(l) /\ l \in Natural(Graph, h) \ {h}}}
      /\ Natural(Graph, h) \subseteq Places
  BY BodyIs DEF Linked
<1>4. CASE b \in Natural(Graph, h)
  BY <1>1, <1>3, <1>4, CodeNow
<1>5. CASE b \notin Natural(Graph, h)
  <2>1. PICK l \in Rewired : b = preheader[l] /\ l \in Natural(Graph, h)
    BY <1>3, <1>5
  <2>2. l \in Loops /\ preheader[l] # NoBlock
    BY DEF Rewired
  <2>3. HasLeft(l, j)
    BY <1>1, <2>1, <2>2 DEF Left
  <2>4. PICK c \in Natural(Graph, l) : j \in ToSet(original.code[c])
    BY <2>3 DEF HasLeft
  <2>5. Natural(Graph, l) \subseteq Natural(Graph, h)
    BY <1>2, <2>1, <2>2, NestedInside
  <2> QED
    BY <2>4, <2>5
<1> QED
  BY <1>4, <1>5

LEMMA LeftOutside ==
    ASSUME Linked, NEW h \in Rewired, NEW i \in ToSet(code[preheader[h]])
    PROVE  i \notin Within(h) /\ i \in DOMAIN inst
<1>1. /\ IsLoopGraph(Graph) /\ Loops = Headers(Graph) /\ NoBlock \notin Now /\ Added = Now \ Places /\ h \in Loops
      /\ DOMAIN inst = DOMAIN original.inst /\ preheader[h] \in Added
  BY Shape DEF Linked, Tables, Rewired, CodeIs
<1>2. /\ Body(h) = Natural(Graph, h) \cup {preheader[l] : l \in {l \in Rewired : ~Moving(l) /\ l \in Natural(Graph, h) \ {h}}}
      /\ Natural(Graph, h) \subseteq Places /\ Body(h) \subseteq Now
  BY <1>1, BodyIs DEF Linked
<1>3. \A l \in Rewired : preheader[l] = preheader[h] => l = h
  BY <1>1 DEF Linked, Tables, Rewired
<1>4. preheader[h] \notin Body(h)
  BY <1>1, <1>2, <1>3
<1>5. \A b \in Body(h) : i \notin ToSet(code[b])
  BY <1>1, <1>2, <1>4 DEF Linked, CodeIs
<1>6. code[preheader[h]] \in Seq(DOMAIN inst)
  BY <1>1, Shape DEF Linked
<1>7. i \in DOMAIN inst
  BY <1>6 DEF ToSet
<1> QED
  BY <1>5, <1>7 DEF Within

-----------------------------------------------------------------------------
(* What is executed in a loop leaves alone what the instructions that have   *)
(* left it are computed from.                                                *)
LEMMA Spared ==
    ASSUME Linked, CodeWas, Left, Quiet(original), NEW h \in Rewired, NEW i \in ToSet(code[preheader[h]]), NEW j \in Within(h)
    PROVE  /\ i \in DOMAIN inst /\ j \in DOMAIN inst /\ j # i /\ j \notin Args(i) /\ Op(j) # "impure"
           /\ Op(i) \in {"load", "plain", "pure"}
           /\ Op(j) = "store" /\ Op(i) = "load" => inst[j].cell # inst[i].cell
<1>1. h \in Loops /\ preheader[h] # NoBlock /\ Loops = Headers(Graph)
  BY DEF Rewired, Linked, Tables
<1>2. HasLeft(h, i) /\ Harmless(h)
  BY <1>1 DEF Left
<1>3. i \notin Within(h) /\ i \in DOMAIN inst
  BY LeftOutside
<1>4. j \in DOMAIN inst
  BY <1>1, WithinIn DEF Linked
<1>5. PICK b \in Natural(Graph, h) : j \in ToSet(original.code[b])
  BY <1>1, WithinWas
<1>6. PICK c \in Natural(Graph, h) : i \in ToSet(original.code[c])
  BY <1>2 DEF HasLeft
<1>7. /\ original.inst[j].op = Op(j) /\ original.inst[i].op = Op(i) /\ Op(i) \in Operations
      /\ inst[j].cell = original.inst[j].cell /\ inst[i].cell = original.inst[i].cell
  BY <1>3, <1>4, InstIs
<1>8. Op(j) # "impure"
  BY <1>2, <1>5, <1>7 DEF Harmless
<1>9. Op(i) \in {"load", "plain", "pure"}
  BY <1>2, <1>7 DEF HasLeft, Operations
<1>10. Op(j) = "store" /\ Op(i) = "load" => inst[j].cell # inst[i].cell
  <2> DEFINE all == {original.inst[k] : k \in UNION {ToSet(original.code[a]) : a \in NaturalLoop(original.graph, 1, h)}}
  <2>1. \A s, r \in all : s.op = "store" /\ r.op = "load" => s.cell # r.cell
    BY <1>1 DEF Quiet, Graph
  <2>2. original.inst[j] \in all /\ original.inst[i] \in all
    BY <1>5, <1>6 DEF Natural, Graph
  <2> HIDE DEF all
  <2> QED
    BY <1>7, <1>9, <2>1, <2>2
<1>11. j \notin Args(i)
  BY <1>2 DEF HasLeft
<1> QED
  BY <1>3, <1>4, <1>8, <1>9, <1>10, <1>11

LEMMA KeepsSteady ==
    ASSUME Linked, CodeWas, Left, Quiet(original), NEW m, IsMachine(m, DOMAIN inst),
           NEW h \in Rewired, Steady(m, h), NEW j \in Within(h)
    PROVE  Steady(Execute(inst, m, j), h)
<1> DEFINE x == Execute(inst, m, j)
<1> SUFFICES ASSUME NEW i \in ToSet(code[preheader[h]]) PROVE x.env[i] = Result(inst[i], x)
  BY DEF Steady
<1>1. /\ i \in DOMAIN inst /\ j \in DOMAIN inst /\ j # i /\ j \notin Args(i) /\ Op(j) # "impure"
      /\ Op(i) \in {"load", "plain", "pure"}
      /\ Op(j) = "store" /\ Op(i) = "load" => inst[j].cell # inst[i].cell
  BY Spared
<1>2. Args(i) \subseteq {Zero} \cup DOMAIN inst /\ inst[i].cell \in Cells /\ Op(j) \in Operations
  BY <1>1, InstIs
<1>3. /\ \A k \in DOMAIN inst \ {j} : x.env[k] = m.env[k]
      /\ Op(j) \in {"load", "plain", "pure"} => x.mem = m.mem
      /\ Op(j) \notin {"load", "plain", "pure", "store", "impure"} => x = m
      /\ Op(j) = "store" => x.mem = [m.mem EXCEPT ![inst[j].cell] = Arguments(inst[j], m)[1]]
  <2>1. Effect(inst, DOMAIN inst, m, j, x)
    BY <1>1, ExecuteIs
  <2> HIDE DEF x
  <2> QED
    BY <2>1 DEF Effect, Op
<1>4. m.mem = [c \in Cells |-> m.mem[c]] /\ m.env[i] = Result(inst[i], m)
  BY DEF IsMachine, Steady
<1> HIDE DEF x
<1>5. Op(i) = "load" => m.mem[inst[i].cell] = x.mem[inst[i].cell]
  <2> SUFFICES ASSUME Op(i) = "load" PROVE m.mem[inst[i].cell] = x.mem[inst[i].cell]
    OBVIOUS
  <2>1. CASE Op(j) = "store"
    BY <1>1, <1>2, <1>3, <1>4, <2>1
  <2>2. CASE Op(j) # "store"
    BY <1>1, <1>2, <1>3, <2>2 DEF Operations
  <2> QED
    BY <2>1, <2>2
<1>6. \A v \in ToSet(inst[i].args) : v = Zero \/ m.env[v] = x.env[v]
  BY <1>1, <1>2, <1>3 DEF Args
<1>7. Result(inst[i], m) = Result(inst[i], x)
  BY <1>1, <1>5, <1>6, SameResult DEF Op
<1> QED
  BY <1>1, <1>3, <1>4, <1>7

(* The phis of a block.                                                      *)
PhisGive(ins, body, env, D, from, e) ==
    /\ e = [i \in D |-> e[i]]
    /\ \A i \in D : i \notin ToSet(body) \/ ins[i].op # "phi" => e[i] = env[i]
    /\ \A i \in D : (\A a \in ToSet(ins[i].args) : a[2] # from) => e[i] = env[i]
    /\ \A i \in D : i \in ToSet(body) /\ ins[i].op = "phi" /\ Unique(ins[i].args) =>
          \A a \in ToSet(ins[i].args) : a[2] = from => e[i] = value(env, a[1])

LEMMA PhisFacts ==
    ASSUME NEW ins, NEW body, NEW env, NEW D, DOMAIN env = D, NEW from
    PROVE  PhisGive(ins, body, env, D, from, Phis(ins, body, env, from))
<1> DEFINE pairs(i) == IF i \in ToSet(body) /\ ins[i].op = "phi"
                       THEN {a \in ToSet(ins[i].args) : a[2] = from} ELSE {}
           one(i) == (CHOOSE a \in pairs(i) : TRUE)
           e == Phis(ins, body, env, from)
<1>1. e = [i \in D |-> IF pairs(i) = {} THEN env[i] ELSE value(env, one(i)[1])]
  BY DEF Phis
<1> HIDE DEF e
<1>2. e = [i \in D |-> e[i]]
  BY <1>1
<1>3. \A i \in D : pairs(i) = {} => e[i] = env[i]
  BY <1>1
<1>4. \A i \in D : pairs(i) # {} => e[i] = value(env, one(i)[1])
  BY <1>1
<1>5. ASSUME NEW i \in D, i \in ToSet(body), ins[i].op = "phi", Unique(ins[i].args),
             NEW a \in ToSet(ins[i].args), a[2] = from
      PROVE  e[i] = value(env, a[1])
  <2>1. a \in pairs(i)
    BY <1>5
  <2>2. one(i) \in pairs(i)
    BY <2>1
  <2>3. one(i) \in ToSet(ins[i].args) /\ one(i)[2] = from
    BY <1>5, <2>2
  <2> HIDE DEF one, pairs
  <2>4. one(i) = a
    BY <1>5, <2>3 DEF Unique, ToSet
  <2> QED
    BY <1>4, <2>1, <2>4
<1>6. /\ \A i \in D : i \notin ToSet(body) \/ ins[i].op # "phi" => pairs(i) = {}
      /\ \A i \in D : (\A a \in ToSet(ins[i].args) : a[2] # from) => pairs(i) = {}
  OBVIOUS
<1> QED
  BY <1>2, <1>3, <1>5, <1>6 DEF e, PhisGive

Entered(ins, body, m) == [m EXCEPT !.env = Phis(ins, body, m.env, m.from)]

LEMMA EnteredIs ==
    ASSUME NEW ins, NEW body, NEW D, NEW m, IsMachine(m, D)
    PROVE  LET x == Entered(ins, body, m)
           IN  /\ IsMachine(x, D) /\ x.at = m.at /\ x.mem = m.mem /\ x.from = m.from /\ x.given = m.given
               /\ x.env = Phis(ins, body, m.env, m.from)
<1> DEFINE f == Phis(ins, body, m.env, m.from)
           x == Entered(ins, body, m)
<1>1. m = [at |-> m.at, from |-> m.from, env |-> m.env, mem |-> m.mem, given |-> m.given]
      /\ m.env = [j \in D |-> m.env[j]] /\ m.mem = [c \in Cells |-> m.mem[c]]
  BY DEF IsMachine
<1>2. f = [i \in D |-> f[i]]
  <2>1. DOMAIN m.env = D
    BY <1>1
  <2>2. PhisGive(ins, body, m.env, D, m.from, f)
    BY <2>1, PhisFacts
  <2> HIDE DEF f
  <2> QED
    BY <2>2 DEF PhisGive
<1>3. x = [m EXCEPT !.env = f]
  BY DEF Entered
<1> HIDE DEF f, x
<1>4. x = [at |-> m.at, from |-> m.from, env |-> f, mem |-> m.mem, given |-> m.given]
  BY <1>1, <1>3
<1>5. x.env = f /\ x.mem = m.mem /\ x.at = m.at /\ x.from = m.from /\ x.given = m.given
  BY <1>4
<1>6. IsMachine(x, D)
  BY <1>1, <1>2, <1>4, <1>5 DEF IsMachine
<1> QED
  BY <1>5, <1>6 DEF f, x

LEMMA SteadyEntered ==
    ASSUME Linked, CodeWas, Left, Quiet(original), NEW m, IsMachine(m, DOMAIN inst),
           NEW h \in Rewired, Steady(m, h), NEW b \in Body(h)
    PROVE  Steady(Entered(inst, code[b], m), h)
<1> DEFINE x == Entered(inst, code[b], m)
<1> SUFFICES ASSUME NEW i \in ToSet(code[preheader[h]]) PROVE x.env[i] = Result(inst[i], x)
  BY DEF Steady
<1>1. ToSet(code[b]) \subseteq Within(h)
  BY DEF Within
<1>2. i \in DOMAIN inst /\ i \notin Within(h)
  BY LeftOutside
<1>3. HasLeft(h, i)
  BY DEF Left, Rewired
<1>4. Op(i) \in {"load", "plain", "pure"} /\ Args(i) \subseteq {Zero} \cup DOMAIN inst
  BY <1>2, <1>3, InstIs DEF HasLeft, Operations
<1>5. x.mem = m.mem /\ x.env = Phis(inst, code[b], m.env, m.from)
  BY EnteredIs
<1>6. m.env = [k \in DOMAIN inst |-> m.env[k]] /\ m.env[i] = Result(inst[i], m)
  BY DEF IsMachine, Steady
<1>7. \A k \in DOMAIN inst : k \notin ToSet(code[b]) => x.env[k] = m.env[k]
  <2>1. DOMAIN m.env = DOMAIN inst
    BY <1>6
  <2>2. PhisGive(inst, code[b], m.env, DOMAIN inst, m.from, x.env)
    BY <1>5, <2>1, PhisFacts
  <2> HIDE DEF x
  <2> QED
    BY <2>2 DEF PhisGive
<1> HIDE DEF x
<1>8. x.env[i] = m.env[i]
  BY <1>1, <1>2, <1>7
<1>9. \A v \in ToSet(inst[i].args) : v = Zero \/ m.env[v] = x.env[v]
  <2> SUFFICES ASSUME NEW v \in Args(i), v # Zero PROVE m.env[v] = x.env[v]
    BY DEF Args
  <2>1. v \in DOMAIN inst /\ v \notin Within(h)
    BY <1>3, <1>4 DEF HasLeft
  <2> QED
    BY <1>1, <1>7, <2>1
<1>10. Result(inst[i], m) = Result(inst[i], x)
  BY <1>4, <1>5, <1>9, SameResult DEF Op
<1> QED
  BY <1>6, <1>8, <1>10

-----------------------------------------------------------------------------
(* A block of the function before the pass and what is left of it.           *)
Fixed(b)   == {i \in ToSet(original.code[b]) : Op(i) = "phi"} \cup Mute
                \cup UNION {ToSet(original.code[a]) : a \in {a \in Places \ {b} : b \in DominatedBy(Graph, 1)[a]}}
Upto(b, k) == Fixed(b) \cup {original.code[b][j] : j \in 1 .. k}

Alike(x, y, b, S) ==
    /\ IsMachine(x, DOMAIN inst) /\ IsMachine(y, DOMAIN inst)
    /\ x.at = b /\ y.at = b /\ x.mem = y.mem
    /\ SameValues(x, y, S)
    /\ \A h \in Rewired : b \in Natural(Graph, h) => Steady(y, h)

LEMMA OperandsKnown ==
    ASSUME Linked, NEW b \in Places, NEW k \in 0 .. Len(original.code[b]) - 1, Op(original.code[b][k + 1]) # "phi"
    PROVE  Args(original.code[b][k + 1]) \subseteq {Zero} \cup Upto(b, k)
<1> DEFINE s == original.code[b]
           i == s[k + 1]
           dom == DominatedBy(Graph, 1)
<1>1. /\ IsLoopGraph(Graph) /\ DOMAIN Graph = Places /\ SingleAssignment(original)
  BY Shape DEF Linked
<1>2. s \in Seq(DOMAIN inst) /\ Len(s) \in Nat /\ k + 1 \in DOMAIN s
  BY CodeOf
<1>3. i \in DOMAIN inst
  BY <1>2
<1>4. inst[i] = original.inst[i] /\ original.inst[i].op # "phi"
  BY <1>3, InstIs DEF Op
<1>5. DOMAIN dom = Places
  <2>1. DOMAIN dom = All(Graph, 1) /\ All(Graph, 1) = Places
    BY <1>1, DomValue DEF IsLoopGraph
  <2> QED
    BY <2>1
<1> SUFFICES ASSUME NEW v \in Args(i), v # Zero PROVE v \in Upto(b, k)
  OBVIOUS
<1>6. /\ \E a \in Places : v \in ToSet(original.code[a]) /\ b \in dom[a]
      /\ \A j \in k + 1 .. Len(s) : s[j] # v
  <2>1. v \in ToSet(original.inst[s[k + 1]].args) /\ original.inst[s[k + 1]].op # "phi"
    BY <1>4 DEF Args
  <2>2. b \in DOMAIN original.graph /\ k + 1 \in DOMAIN original.code[b]
    BY <1>1, <1>2 DEF Graph
  <2>3. /\ v = Zero \/ \E a \in DOMAIN DominatedBy(original.graph, 1) : v \in ToSet(original.code[a]) /\ b \in DominatedBy(original.graph, 1)[a]
        /\ \A j \in k + 1 .. Len(original.code[b]) : original.code[b][j] # v
    BY <1>1, <2>1, <2>2 DEF SingleAssignment
  <2> QED
    BY <1>5, <2>3 DEF Graph
<1>7. PICK a \in Places : v \in ToSet(original.code[a]) /\ b \in dom[a]
  BY <1>6
<1>8. CASE a = b
  <2>1. PICK j \in DOMAIN s : v = s[j]
    BY <1>7, <1>8 DEF ToSet
  <2>2. j \in 1 .. k
    BY <1>2, <1>6, <2>1
  <2> QED
    BY <2>1, <2>2 DEF Upto
<1>9. CASE a # b
  BY <1>7, <1>9 DEF Upto, Fixed
<1> QED
  BY <1>8, <1>9

(* An instruction that is in both functions does the same in both.           *)
LEMMA SameStep ==
    ASSUME Linked, CodeWas, Left, Quiet(original), NEW b \in Places, NEW S, NEW x, NEW y, Alike(x, y, b, S), Mute \subseteq S,
           NEW i \in ToSet(code[b]), i \in DOMAIN inst, Op(i) # "phi", Args(i) \subseteq {Zero} \cup S, NEW T, T \subseteq S \cup {i}, T \subseteq DOMAIN inst
    PROVE  Alike(Execute(original.inst, x, i), Execute(inst, y, i), b, T)
<1> DEFINE D == DOMAIN inst
           u == Execute(original.inst, x, i)
           v == Execute(inst, y, i)
           r == inst[i]
<1>1. original.inst[i] = r /\ r.op \in Operations /\ r.op # "phi" /\ Op(i) = r.op
  BY InstIs DEF Op
<1>2. IsMachine(x, D) /\ IsMachine(y, D) /\ x.at = b /\ y.at = b /\ x.mem = y.mem /\ SameValues(x, y, S)
  BY DEF Alike
<1>3. Effect(original.inst, D, x, i, u) /\ Effect(inst, D, y, i, v)
  BY <1>2, ExecuteIs
<1> HIDE DEF u, v
<1>4. /\ IsMachine(u, D) /\ IsMachine(v, D) /\ u.at = b /\ v.at = b
      /\ \A j \in D \ {i} : u.env[j] = x.env[j] /\ v.env[j] = y.env[j]
      /\ r.op \in {"load", "plain", "pure"} => u.env[i] = Result(r, x) /\ v.env[i] = Result(r, y) /\ u.mem = x.mem /\ v.mem = y.mem
      /\ r.op \notin {"load", "plain", "pure"} => u.env = x.env /\ v.env = y.env
      /\ r.op = "store" => u.mem = [x.mem EXCEPT ![r.cell] = Arguments(r, x)[1]] /\ v.mem = [y.mem EXCEPT ![r.cell] = Arguments(r, y)[1]]
      /\ r.op = "impure" => u.mem = [c \in Cells |-> (x.mem[c] + 1) % Modulus] /\ v.mem = [c \in Cells |-> (y.mem[c] + 1) % Modulus]
  BY <1>1, <1>2, <1>3 DEF Effect
<1>5. \A w \in ToSet(r.args) : w = Zero \/ x.env[w] = y.env[w]
  BY <1>2 DEF SameValues, Args
<1>6. u.mem = v.mem
  <2>1. CASE r.op \in {"load", "plain", "pure"}
    BY <1>2, <1>4, <2>1
  <2>2. CASE r.op = "store"
    <3>1. Arguments(r, x) = Arguments(r, y)
      BY <1>5, SameArguments
    <3> QED
      BY <1>2, <1>4, <2>2, <3>1
  <2>3. CASE r.op = "impure"
    BY <1>2, <1>4, <2>3
  <2> QED
    BY <1>1, <2>1, <2>2, <2>3 DEF Operations
<1>7. u.env[i] = v.env[i]
  <2>1. CASE r.op \in {"load", "plain", "pure"}
    <3>1. Result(r, x) = Result(r, y)
      BY <1>2, <1>5, <2>1, SameResult
    <3> QED
      BY <1>4, <2>1, <3>1
  <2>2. CASE r.op \notin {"load", "plain", "pure"}
    <3>1. i \in Mute
      BY <1>1, <2>2 DEF Mute, Operations
    <3>2. x.env[i] = y.env[i]
      BY <1>2, <3>1 DEF SameValues
    <3> QED
      BY <1>4, <2>2, <3>2
  <2> QED
    BY <2>1, <2>2
<1>8. SameValues(u, v, T)
  <2> SUFFICES ASSUME NEW j \in T, j # i PROVE u.env[j] = v.env[j]
    BY <1>7 DEF SameValues
  <2>1. x.env[j] = y.env[j] /\ j \in D \ {i}
    BY <1>2 DEF SameValues
  <2> QED
    BY <1>4, <2>1
<1>9. ASSUME NEW h \in Rewired, b \in Natural(Graph, h) PROVE Steady(v, h)
  <2>1. h \in Loops /\ b \in Body(h)
    BY <1>9, BodyIs DEF Linked, Rewired
  <2>2. i \in Within(h)
    BY <2>1 DEF Within
  <2>3. Steady(y, h)
    BY <1>9 DEF Alike
  <2> QED
    BY <1>2, <2>2, <2>3, KeepsSteady DEF v
<1> QED
  BY <1>4, <1>6, <1>8, <1>9 DEF Alike, u, v

(* One that has moved has been executed with the same result.                *)
LEMMA SkippedStep ==
    ASSUME Linked, CodeWas, Left, Quiet(original), NEW b \in Places, NEW S, NEW x, NEW y, Alike(x, y, b, S),
           NEW i \in ToSet(original.code[b]), i \in Hoisted, Args(i) \subseteq {Zero} \cup S, NEW T, T \subseteq S \cup {i}, T \subseteq DOMAIN inst
    PROVE  Alike(Execute(original.inst, x, i), y, b, T)
<1> DEFINE D == DOMAIN inst
           u == Execute(original.inst, x, i)
           r == inst[i]
<1>1. PICK h \in Rewired : i \in ToSet(code[preheader[h]]) /\ HasLeft(h, i)
  BY HoistedFrom
<1>2. i \in D
  BY <1>1, LeftOutside
<1>3. original.inst[i] = r /\ Op(i) = r.op /\ r.op \in {"load", "plain", "pure"}
  BY <1>1, <1>2, InstIs DEF Op, HasLeft, Operations
<1>4. b \in Natural(Graph, h)
  <2>1. PICK c \in Natural(Graph, h) : i \in ToSet(original.code[c])
    BY <1>1 DEF HasLeft
  <2>2. c \in Places
    BY BodyIs DEF Linked, Rewired
  <2> QED
    BY <2>1, <2>2, CodeOf
<1>5. IsMachine(x, D) /\ IsMachine(y, D) /\ x.at = b /\ y.at = b /\ x.mem = y.mem /\ SameValues(x, y, S) /\ Steady(y, h)
  BY <1>4 DEF Alike
<1>6. Effect(original.inst, D, x, i, u)
  BY <1>2, <1>5, ExecuteIs
<1> HIDE DEF u
<1>7. /\ IsMachine(u, D) /\ u.at = b /\ u.mem = x.mem /\ u.env[i] = Result(r, x)
      /\ \A j \in D \ {i} : u.env[j] = x.env[j]
  BY <1>3, <1>5, <1>6 DEF Effect
<1>8. u.env[i] = y.env[i]
  <2>1. \A w \in ToSet(r.args) : w = Zero \/ x.env[w] = y.env[w]
    BY <1>5 DEF SameValues, Args
  <2>2. Result(r, x) = Result(r, y)
    BY <1>3, <1>5, <2>1, SameResult
  <2> QED
    BY <1>1, <1>5, <1>7, <2>2 DEF Steady
<1>9. SameValues(u, y, T)
  <2> SUFFICES ASSUME NEW j \in T, j # i PROVE u.env[j] = y.env[j]
    BY <1>8 DEF SameValues
  <2>1. x.env[j] = y.env[j] /\ j \in D \ {i}
    BY <1>5 DEF SameValues
  <2> QED
    BY <1>7, <2>1
<1> QED
  BY <1>5, <1>7, <1>9 DEF Alike, u

-----------------------------------------------------------------------------
(* A whole block.                                                            *)
LEMMA UptoFacts ==
    ASSUME Linked, NEW b \in Places
    PROVE  /\ Upto(b, 0) = Fixed(b) /\ \A k \in Nat : Mute \subseteq Upto(b, k)
           /\ \A k \in 0 .. Len(original.code[b]) : Upto(b, k) \subseteq DOMAIN inst
           /\ \A k \in 0 .. Len(original.code[b]) - 1 : Upto(b, k + 1) = Upto(b, k) \cup {original.code[b][k + 1]}
           /\ Mute \cup Above(b) \subseteq Upto(b, Len(original.code[b]))
<1>1. \A a \in Places : ToSet(original.code[a]) \subseteq DOMAIN inst
  <2> SUFFICES ASSUME NEW a \in Places PROVE ToSet(original.code[a]) \subseteq DOMAIN inst
    OBVIOUS
  <2>1. original.code[a] \in Seq(DOMAIN inst)
    BY CodeOf
  <2> QED
    BY <2>1 DEF ToSet
<1>2. original.code[b] \in Seq(DOMAIN inst)
  BY CodeOf
<1>3. Upto(b, 0) = Fixed(b)
  BY DEF Upto
<1>4. \A k \in Nat : Mute \subseteq Upto(b, k)
  BY DEF Upto, Fixed
<1>5. Fixed(b) \subseteq DOMAIN inst
  BY <1>1 DEF Fixed, Mute
<1>6. \A k \in 0 .. Len(original.code[b]) : Upto(b, k) \subseteq DOMAIN inst
  BY <1>2, <1>5 DEF Upto
<1>7. \A k \in 0 .. Len(original.code[b]) - 1 : Upto(b, k + 1) = Upto(b, k) \cup {original.code[b][k + 1]}
  <2> SUFFICES ASSUME NEW k \in 0 .. Len(original.code[b]) - 1
               PROVE  Upto(b, k + 1) = Upto(b, k) \cup {original.code[b][k + 1]}
    OBVIOUS
  <2>1. 1 .. k + 1 = (1 .. k) \cup {k + 1}
    BY <1>2
  <2> QED
    BY <2>1 DEF Upto
<1>8. Mute \cup Above(b) \subseteq Upto(b, Len(original.code[b]))
  <2>1. ToSet(original.code[b]) = {original.code[b][j] : j \in 1 .. Len(original.code[b])}
    BY <1>2 DEF ToSet
  <2>2. Above(b) \subseteq ToSet(original.code[b]) \cup UNION {ToSet(original.code[a]) : a \in {a \in Places \ {b} : b \in DominatedBy(Graph, 1)[a]}}
    BY DEF Above
  <2> QED
    BY <2>1, <2>2 DEF Upto, Fixed
<1> QED
  BY <1>3, <1>4, <1>6, <1>7, <1>8

LEMMA BlockSame ==
    ASSUME Linked, CodeWas, Left, Quiet(original), NEW b \in Places, NEW x, NEW y, Alike(x, y, b, Fixed(b))
    PROVE  Alike(Run(original.inst, original.code[b], x), Run(inst, code[b], y), b, Mute \cup Above(b))
<1> DEFINE s == original.code[b]
           n == Len(s)
           D == DOMAIN inst
<1>1. s \in Seq(D) /\ n \in Nat /\ \A k \in 0 .. n - 1 : s[k + 1] \in D /\ s[k + 1] \in ToSet(s)
  <2>1. s \in Seq(D)
    BY CodeOf
  <2> QED
    BY <2>1 DEF ToSet
<1>2. PICK w : Ran(original.inst, s, x, w) /\ Run(original.inst, s, x) = w[n]
  BY <1>1, RunSteps
<1>3. PICK z : Passed(inst, s, Hoisted, y, z)
  BY <1>1, RunWithout
<1>4. Run(inst, code[b], y) = z[n] /\ z[0] = y
  BY <1>3 DEF Passed, CodeWas
<1>5. w[0] = x
  BY <1>2 DEF Ran
<1> DEFINE T == {k \in Nat : k <= n => Alike(w[k], z[k], b, Upto(b, k))}
<1>6. 0 \in T
  BY <1>4, <1>5, UptoFacts
<1>7. ASSUME NEW k \in Nat, k + 1 <= n, Alike(w[k], z[k], b, Upto(b, k))
      PROVE  Alike(w[k + 1], z[k + 1], b, Upto(b, k + 1))
  <2> DEFINE i == s[k + 1]
             S == Upto(b, k)
  <2>1. k \in 0 .. n - 1 /\ k + 1 \in 0 .. n
    BY <1>1, <1>7
  <2>2. /\ w[k + 1] = Execute(original.inst, w[k], i)
        /\ z[k + 1] = IF i \in Hoisted THEN z[k] ELSE Execute(inst, z[k], i)
    BY <1>2, <1>3, <2>1 DEF Ran, Passed
  <2>3. i \in D /\ i \in ToSet(s)
    BY <1>1, <2>1
  <2>4. Mute \subseteq S /\ Upto(b, k + 1) = S \cup {i} /\ Upto(b, k + 1) \subseteq D
    BY <2>1, UptoFacts
  <2>5. original.inst[i].op = Op(i)
    BY <2>3, InstIs
  <2>6. CASE Op(i) = "phi"
    <3>1. i \notin Hoisted
      BY <2>6, HoistedFrom DEF HasLeft
    <3>2. i \in S
      BY <2>3, <2>6 DEF Upto, Fixed
    <3>3. IsMachine(w[k], D) /\ IsMachine(z[k], D)
      BY <1>7 DEF Alike
    <3>4. Effect(original.inst, D, w[k], i, w[k + 1]) /\ Effect(inst, D, z[k], i, z[k + 1])
      BY <2>2, <2>3, <3>1, <3>3, ExecuteIs
    <3>5. w[k + 1] = w[k] /\ z[k + 1] = z[k]
      BY <2>5, <2>6, <3>4 DEF Effect, Op
    <3>6. Upto(b, k + 1) = S
      BY <2>4, <3>2
    <3> QED
      BY <1>7, <3>5, <3>6
  <2>7. CASE Op(i) # "phi"
    <3>1. Args(i) \subseteq {Zero} \cup S
      BY <2>1, <2>7, OperandsKnown
    <3>2. CASE i \in Hoisted
      <4>1. Alike(Execute(original.inst, w[k], i), z[k], b, Upto(b, k + 1))
        BY <1>7, <2>3, <2>4, <3>1, <3>2, SkippedStep
      <4> QED
        BY <2>2, <3>2, <4>1
    <3>3. CASE i \notin Hoisted
      <4>1. i \in ToSet(code[b])
        BY <2>3, <3>3, CodeNow
      <4>2. Alike(Execute(original.inst, w[k], i), Execute(inst, z[k], i), b, Upto(b, k + 1))
        BY <1>7, <2>3, <2>4, <2>7, <3>1, <4>1, SameStep
      <4> QED
        BY <2>2, <3>3, <4>2
    <3> QED
      BY <3>2, <3>3
  <2> QED
    BY <2>6, <2>7
<1>8. \A k \in T : k + 1 \in T
  BY <1>1, <1>7
<1>9. n \in T
  BY <1>1, <1>6, <1>8, Induction
<1>10. Alike(w[n], z[n], b, Upto(b, n))
  BY <1>1, <1>9
<1>11. Mute \cup Above(b) \subseteq Upto(b, n)
  BY UptoFacts
<1> QED
  BY <1>2, <1>4, <1>10, <1>11 DEF Alike, SameValues

-----------------------------------------------------------------------------
(* Both machines enter a block of the original function.                     *)
LEMMA PhisThere ==
    ASSUME Linked, CodeWas, Left, NEW b \in Places, NEW i \in ToSet(original.code[b]), Op(i) = "phi"
    PROVE  /\ i \in DOMAIN inst /\ i \in ToSet(code[b]) /\ original.inst[i].op = "phi"
           /\ Unique(inst[i].args) /\ Unique(original.inst[i].args)
           /\ Seconds(original.inst[i].args) = {a \in Places : b \in ToSet(Graph[a])}
           /\ Seconds(inst[i].args) \subseteq Now
<1>1. i \in DOMAIN inst
  <2>1. original.code[b] \in Seq(DOMAIN inst)
    BY CodeOf
  <2> QED
    BY <2>1 DEF ToSet
<1>2. original.inst[i].op = "phi"
  BY <1>1, InstIs
<1>3. i \in ToSet(code[b])
  BY CodeNow, HoistedFrom DEF HasLeft
<1>4. b \in Now /\ original \in Programs /\ DOMAIN original.graph = Places
  BY Shape DEF Linked, Types, Graph
<1>5. Unique(inst[i].args) /\ Seconds(inst[i].args) = {a \in Now : b \in ToSet(succ_bbs[a])}
  BY <1>3, <1>4 DEF Linked, PhisAre
<1>6. Unique(original.inst[i].args) /\ Seconds(original.inst[i].args) = {a \in Places : b \in ToSet(Graph[a])}
  BY <1>2, <1>4, PhisOf DEF Graph
<1> QED
  BY <1>1, <1>2, <1>3, <1>5, <1>6

LEMMA CameFrom ==
    ASSUME Linked, phase = "execute", Simulates, before.at = after.at
    PROVE  /\ before.at \in Places /\ before.at \notin Added
           /\ \/ before.from = NoBlock /\ after = before
              \/ /\ before.from \in Places /\ before.at \in ToSet(Graph[before.from])
                 /\ after.from = Source(before.at, before.from)
<1>1. OnTheWay(before, after) /\ Beside(before, after)
  BY DEF Simulates, Along
<1>2. before.at \in Places /\ before.at \notin Added
  BY <1>1, Shape DEF OnTheWay, Linked
<1>3. \A h \in Loops : Entering(before, h) => h = before.at /\ h \in Rewired /\ before.from = Entry(Graph, h) /\ preheader[h] \in Added
  BY DEF Entering, Rewired, Linked, Tables
<1>4. ~ \E h \in Loops : Entering(before, h) /\ after.at = preheader[h]
  BY <1>2, <1>3
<1>5. after.from = Source(before.at, before.from)
  <2>1. CASE after.from = before.from /\ \A h \in Loops : ~Entering(before, h)
    <3>1. before.at \notin Rewired \/ before.from # Entry(Graph, before.at)
      BY <2>1 DEF Entering, Rewired
    <3> QED
      BY <2>1, <3>1 DEF Source
  <2>2. CASE \E h \in Loops : Entering(before, h) /\ after.from = preheader[h]
    BY <1>3, <2>2 DEF Source
  <2> QED
    BY <1>1, <1>4, <2>1, <2>2 DEF Beside
<1> QED
  BY <1>1, <1>2, <1>5 DEF OnTheWay

LEMMA EnterAlike ==
    ASSUME Linked, CodeWas, Left, PhisWere, Quiet(original), phase = "execute", Simulates, before.at = after.at
    PROVE  LET b == before.at
           IN  Alike(Entered(original.inst, original.code[b], before), Entered(inst, code[b], after), b, Fixed(b))
<1> DEFINE b == before.at
           f == before.from
           D == DOMAIN inst
           x == Entered(original.inst, original.code[b], before)
           y == Entered(inst, code[b], after)
           dom == DominatedBy(Graph, 1)
<1>1. /\ IsMachine(before, D) /\ IsMachine(after, D) /\ before.mem = after.mem
      /\ SameValues(before, after, Mute \cup Above(f))
      /\ \A h \in Rewired : b \in Natural(Graph, h) /\ after.at # preheader[h] => Steady(after, h)
  BY DEF Simulates, Along
<1>2. b \in Places /\ b \notin Added /\ after.at = b
  BY CameFrom
<1>3. /\ IsMachine(x, D) /\ IsMachine(y, D) /\ x.at = b /\ y.at = b /\ x.mem = y.mem
      /\ x.env = Phis(original.inst, original.code[b], before.env, f)
      /\ y.env = Phis(inst, code[b], after.env, after.from)
  BY <1>1, <1>2, EnteredIs
<1>4. PhisGive(original.inst, original.code[b], before.env, D, f, x.env)
  <2>1. DOMAIN before.env = D
    BY <1>1 DEF IsMachine
  <2> QED
    BY <1>3, <2>1, PhisFacts
<1>5. PhisGive(inst, code[b], after.env, D, after.from, y.env)
  <2>1. DOMAIN after.env = D
    BY <1>1 DEF IsMachine
  <2> QED
    BY <1>3, <2>1, PhisFacts
<1>6. ASSUME NEW h \in Rewired, b \in Natural(Graph, h) PROVE Steady(y, h)
  <2>1. h \in Loops /\ preheader[h] \in Added /\ b \in Body(h)
    BY <1>6, BodyIs DEF Linked, Rewired, Tables
  <2>2. Steady(after, h)
    BY <1>1, <1>2, <1>6, <2>1
  <2> QED
    BY <1>1, <2>1, <2>2, SteadyEntered
<1> HIDE DEF x, y
<1>7. Fixed(b) \subseteq D
  <2>1. Upto(b, 0) = Fixed(b) /\ 0 \in 0 .. Len(original.code[b])
    BY <1>2, UptoFacts, CodeOf
  <2> QED
    BY <1>2, <2>1, UptoFacts
<1>8. \A i \in D : Op(i) # "phi" \/ i \notin ToSet(original.code[b]) => x.env[i] = before.env[i] /\ y.env[i] = after.env[i]
  <2> SUFFICES ASSUME NEW i \in D, Op(i) # "phi" \/ i \notin ToSet(original.code[b])
               PROVE  x.env[i] = before.env[i] /\ y.env[i] = after.env[i]
    OBVIOUS
  <2>1. original.inst[i].op = Op(i) /\ ToSet(code[b]) \subseteq ToSet(original.code[b])
    BY <1>2, InstIs, CodeNow
  <2> QED
    BY <1>4, <1>5, <2>1 DEF PhisGive, Op
<1>9. CASE f = NoBlock /\ after = before
  <2>1. ASSUME NEW i \in ToSet(original.code[b]), Op(i) = "phi" PROVE x.env[i] = before.env[i] /\ y.env[i] = after.env[i]
    <3>1. /\ i \in D /\ Seconds(original.inst[i].args) \subseteq Now /\ Seconds(inst[i].args) \subseteq Now
      <4>1. Places \subseteq Now
        BY Shape DEF Linked
      <4>2. /\ i \in D /\ Seconds(original.inst[i].args) = {a \in Places : b \in ToSet(Graph[a])}
            /\ Seconds(inst[i].args) \subseteq Now
        BY <1>2, <2>1, PhisThere
      <4> QED
        BY <4>1, <4>2
    <3>2. f \notin Now /\ after.from = f
      BY <1>9, Shape DEF Linked
    <3>3. (\A a \in ToSet(original.inst[i].args) : a[2] # f) /\ (\A a \in ToSet(inst[i].args) : a[2] # after.from)
      BY <3>1, <3>2 DEF Seconds
    <3> QED
      BY <1>4, <1>5, <3>1, <3>3 DEF PhisGive
  <2>2. \A i \in D : x.env[i] = before.env[i] /\ y.env[i] = after.env[i]
    BY <1>8, <2>1
  <2>3. SameValues(x, y, Fixed(b))
    BY <1>7, <1>9, <2>2 DEF SameValues
  <2> QED
    BY <1>3, <1>6, <2>3 DEF Alike, x, y
<1>10. CASE f \in Places /\ b \in ToSet(Graph[f]) /\ after.from = Source(b, f)
  <2>0. IsLoopGraph(Graph) /\ DOMAIN Graph = Places /\ DOMAIN original.graph = Places /\ SingleAssignment(original)
        /\ All(Graph, 1) = Places
    BY Shape DEF Linked, IsLoopGraph, Graph
  <2>00. DOMAIN dom = Places
    BY <2>0, DomValue DEF IsLoopGraph
  <2>1. ASSUME NEW i \in ToSet(original.code[b]), Op(i) = "phi" PROVE x.env[i] = y.env[i]
    <3>1. /\ i \in D /\ i \in ToSet(code[b]) /\ original.inst[i].op = "phi" /\ inst[i].op = "phi"
          /\ Unique(inst[i].args) /\ Unique(original.inst[i].args)
          /\ Seconds(original.inst[i].args) = {a \in Places : b \in ToSet(Graph[a])}
      BY <1>2, <2>1, PhisThere DEF Op
    <3>2. PICK a \in ToSet(original.inst[i].args) : a[2] = f
      BY <1>10, <3>1 DEF Seconds
    <3>3. x.env[i] = value(before.env, a[1])
      BY <1>4, <2>1, <3>1, <3>2 DEF PhisGive
    <3>4. <<a[1], Source(b, f)>> \in ToSet(inst[i].args)
      <4>1. ToSet(inst[i].args) = {<<c[1], Source(b, c[2])>> : c \in ToSet(original.inst[i].args)}
        BY <1>2, <2>1, <3>1 DEF PhisWere
      <4> QED
        BY <3>2, <4>1
    <3>5. y.env[i] = value(after.env, a[1])
      BY <1>5, <1>10, <3>1, <3>4 DEF PhisGive
    <3>6. a[1] = Zero \/ a[1] \in Above(f)
      <4>1. PICK k \in DOMAIN original.code[b] : i = original.code[b][k]
        BY <2>1 DEF ToSet
      <4>2. \A c \in ToSet(original.inst[i].args) :
               \/ c[1] = Zero
               \/ \E d \in DOMAIN DominatedBy(original.graph, 1) :
                     c[1] \in ToSet(original.code[d]) /\ c[2] \in DominatedBy(original.graph, 1)[d]
        BY <1>2, <2>0, <3>1, <4>1 DEF SingleAssignment
      <4>3. a[1] = Zero \/ \E d \in Places : a[1] \in ToSet(original.code[d]) /\ f \in dom[d]
        BY <2>00, <3>2, <4>2 DEF Graph
      <4> QED
        BY <4>3 DEF Above
    <3>7. value(before.env, a[1]) = value(after.env, a[1])
      BY <1>1, <3>6 DEF SameValues, value
    <3> QED
      BY <3>3, <3>5, <3>7
  <2>2. ASSUME NEW i \in Mute PROVE x.env[i] = y.env[i]
    BY <1>1, <1>8, <2>2 DEF Mute, SameValues
  <2>3. ASSUME NEW a \in Places \ {b}, b \in dom[a], NEW i \in ToSet(original.code[a]) PROVE x.env[i] = y.env[i]
    <3>1. i \notin ToSet(original.code[b])
      BY <1>2, <2>3, CodeOf
    <3>2. i \in D
      BY <1>7, <2>3 DEF Fixed
    <3>3. f \in dom[a]
      BY <1>10, <2>0, <2>3, DomPredecessor DEF IsLoopGraph
    <3>4. i \in Above(f)
      BY <2>3, <3>3 DEF Above
    <3> QED
      BY <1>1, <1>8, <3>1, <3>2, <3>4 DEF SameValues
  <2>4. SameValues(x, y, Fixed(b))
    BY <2>1, <2>2, <2>3 DEF SameValues, Fixed
  <2> QED
    BY <1>3, <1>6, <2>4 DEF Alike, x, y
<1> QED
  BY <1>9, <1>10, CameFrom

-----------------------------------------------------------------------------
(* Both machines leave the block.                                            *)
Given(last, m) == IF Len(last.args) # 1 \/ last.op = "ret" THEN value(m.env, last.args[1]) ELSE 0

Leaves(w, e, l, last, m, D, k) ==
    /\ IsMachine(e, D) /\ e.env = w.env /\ e.mem = w.mem /\ e.at = w.at /\ e.given = Given(last, w)
    /\ IsMachine(l, D) /\ l.env = w.env /\ l.mem = w.mem /\ l.given = Given(last, w)
    /\ l.at = targets(last)[k] /\ l.from = m.at

LEMMA LeaveIs ==
    ASSUME NEW ins, NEW body, NEW last, NEW m, NEW D, NEW k,
           IsMachine(Run(ins, body, Entered(ins, body, m)), D)
    PROVE  Leaves(Run(ins, body, Entered(ins, body, m)), Executed(ins, body, last, m), Leave(m, body, ins, last, k),
                  last, m, D, k)
<1> DEFINE w == Run(ins, body, Entered(ins, body, m))
           e == Executed(ins, body, last, m)
           l == Leave(m, body, ins, last, k)
<1>1. e = [w EXCEPT !.given = Given(last, w)]
  BY DEF Executed, Entered, Given
<1>2. l = [e EXCEPT !.at = targets(last)[k], !.from = m.at]
  BY DEF Leave
<1>3. /\ w = [at |-> w.at, from |-> w.from, env |-> w.env, mem |-> w.mem, given |-> w.given]
      /\ w.env = [i \in D |-> w.env[i]] /\ w.mem = [c \in Cells |-> w.mem[c]]
  BY DEF IsMachine
<1> HIDE DEF w, e, l
<1>4. e = [at |-> w.at, from |-> w.from, env |-> w.env, mem |-> w.mem, given |-> Given(last, w)]
  BY <1>1, <1>3
<1>5. l = [at |-> targets(last)[k], from |-> m.at, env |-> w.env, mem |-> w.mem, given |-> Given(last, w)]
  BY <1>2, <1>4
<1>6. IsMachine(e, D) /\ e.env = w.env /\ e.mem = w.mem /\ e.at = w.at /\ e.given = Given(last, w)
  <2>1. e.env = w.env /\ e.mem = w.mem /\ e.at = w.at /\ e.given = Given(last, w) /\ e.from = w.from
    BY <1>4
  <2> QED
    BY <1>3, <1>4, <2>1 DEF IsMachine
<1>7. /\ IsMachine(l, D) /\ l.env = w.env /\ l.mem = w.mem /\ l.given = Given(last, w)
      /\ l.at = targets(last)[k] /\ l.from = m.at
  <2>1. l.env = w.env /\ l.mem = w.mem /\ l.at = targets(last)[k] /\ l.given = Given(last, w) /\ l.from = m.at
    BY <1>5
  <2> QED
    BY <1>3, <1>5, <2>1 DEF IsMachine
<1> QED
  BY <1>6, <1>7 DEF w, e, l, Leaves

LEMMA SteadySame ==
    ASSUME NEW h, NEW m, NEW w, Steady(m, h), w.env = m.env, w.mem = m.mem
    PROVE  Steady(w, h)
BY DEF Steady, Result, Arguments

LEMMA TwoLeft ==
    ASSUME NEW S, NEW s \in Seq(S), Len(s) = 3
    PROVE  Len(Tail(s)) = 2
OBVIOUS

LEMMA ExitIs ==
    ASSUME Linked, phase # "move", NEW b \in Places, NEW k \in DOMAIN targets(original.term[b])
    PROVE  LET c == targets(original.term[b])[k]
           IN  /\ c \in Places /\ c \in ToSet(Graph[b])
               /\ \/ \E h \in Rewired : /\ b = Entry(Graph, h) /\ c = h /\ targets(term[b])[k] = preheader[h]
                                        /\ \A m : Given(original.term[b], m) = 0
                  \/ (\A h \in Rewired : b # Entry(Graph, h)) /\ term[b] = original.term[b]
<1> DEFINE c == targets(original.term[b])[k]
<1>1. /\ IsLoopGraph(Graph) /\ DOMAIN Graph = Places /\ Graph[b] = targets(original.term[b])
      /\ Graph \in Seq(Seq(Places)) /\ Branches(original) /\ Rewired \subseteq Headers(Graph)
  <2>1. original \in Programs
    BY DEF Linked, Types
  <2>2. Graph \in Seq(Seq(Places))
    BY <2>1, ProgramFacts DEF Graph, Places
  <2> QED
    BY <2>2, Shape DEF Linked, Tables, Rewired
<1>2. c \in Places /\ c \in ToSet(Graph[b])
  <2> DEFINE V == Seq(Places)
  <2>1. Graph \in Seq(V)
    BY <1>1
  <2> HIDE DEF V
  <2>2. Graph[b] \in V
    BY <1>1, <2>1
  <2>3. Graph[b] \in Seq(Places)
    BY <2>2 DEF V
  <2> QED
    BY <1>1, <2>3 DEF ToSet
<1>3. CASE \E h \in Rewired : b = Entry(Graph, h)
  <2>1. PICK h \in Rewired : b = Entry(Graph, h)
    BY <1>3
  <2>2. Graph[b] = <<h>>
    BY <1>1, <2>1, EntryFacts
  <2>3. k = 1 /\ c = h
    BY <1>1, <2>2
  <2>4. term[b].op = "br" /\ term[b].args = <<preheader[h]>>
    BY <2>1 DEF Linked, TermsAre
  <2>5. targets(term[b]) = <<preheader[h]>>
    BY <2>4 DEF targets
  <2>6. original.term[b].op = "br" /\ Len(original.term[b].args) = 1
    <3>1. /\ original.term \in Seq([op : {"br", "ret"}, args : Seq(Nat)]) /\ b \in DOMAIN original.graph
          /\ b \in DOMAIN original.term
      BY <1>1 DEF Branches, Graph, Places
    <3>2. original.term[b] \in [op : {"br", "ret"}, args : Seq(Nat)] /\ Len(original.term[b].args) \in {1, 3}
      <4> DEFINE V == [op : {"br", "ret"}, args : Seq(Nat)]
      <4>1. original.term \in Seq(V)
        BY <3>1
      <4> HIDE DEF V
      <4>2. original.term[b] \in V
        BY <3>1, <4>1
      <4>3. Len(original.term[b].args) \in {1, 3}
        BY <1>1, <3>1 DEF Branches
      <4> QED
        BY <4>2, <4>3 DEF V
    <3>3. targets(original.term[b]) = <<h>>
      BY <1>1, <2>2
    <3>4. original.term[b].op = "br"
      BY <3>3 DEF targets
    <3>5. Len(original.term[b].args) # 3
      <4> SUFFICES ASSUME Len(original.term[b].args) = 3 PROVE FALSE
        OBVIOUS
      <4>1. Tail(original.term[b].args) = <<h>>
        BY <3>3, <3>4 DEF targets
      <4>2. original.term[b].args \in Seq(Nat)
        BY <3>2
      <4> DEFINE s == original.term[b].args
      <4>3. Len(s) = 3 /\ s \in Seq(Nat) /\ Tail(s) = <<h>>
        BY <4>1, <4>2
      <4> HIDE DEF s
      <4>4. Len(Tail(s)) = 2
        BY <4>3, TwoLeft
      <4>5. PICK r : r = Tail(s)
        OBVIOUS
      <4>6. Len(r) = 2 /\ r = <<h>>
        BY <4>3, <4>4, <4>5
      <4> QED
        BY <4>6
    <3> QED
      BY <3>2, <3>4, <3>5
  <2>7. \A m : Given(original.term[b], m) = 0
    BY <2>6 DEF Given
  <2> QED
    BY <1>2, <2>1, <2>3, <2>5, <2>7
<1>4. CASE \A h \in Rewired : b # Entry(Graph, h)
  BY <1>2, <1>4 DEF Linked, TermsAre
<1> QED
  BY <1>3, <1>4

LEMMA GivenSame ==
    ASSUME Linked, NEW b \in Places, NEW x, NEW y, SameValues(x, y, Above(b))
    PROVE  /\ term[b] = original.term[b] => Given(original.term[b], x) = Given(term[b], y)
           /\ \A h \in Rewired : b = Entry(Graph, h) => Given(term[b], y) = 0
           /\ original.term[b].op = "ret" => term[b] = original.term[b]
<1>1. /\ IsLoopGraph(Graph) /\ DOMAIN Graph = Places /\ DOMAIN original.graph = Places /\ SingleAssignment(original)
      /\ Graph[b] = targets(original.term[b]) /\ Rewired \subseteq Headers(Graph)
  BY Shape DEF Linked, Graph, Tables, Rewired
<1>2. DOMAIN DominatedBy(Graph, 1) = Places
  <2>1. DOMAIN DominatedBy(Graph, 1) = All(Graph, 1) /\ All(Graph, 1) = Places
    BY <1>1, DomValue DEF IsLoopGraph
  <2> QED
    BY <2>1
<1>3. ASSUME term[b] = original.term[b] PROVE Given(original.term[b], x) = Given(term[b], y)
  <2> DEFINE last == original.term[b]
  <2>1. CASE Len(last.args) # 1 \/ last.op = "ret"
    <3>1. \/ last.args[1] = Zero
          \/ \E a \in DOMAIN DominatedBy(original.graph, 1) :
                last.args[1] \in ToSet(original.code[a]) /\ b \in DominatedBy(original.graph, 1)[a]
      BY <1>1, <2>1 DEF SingleAssignment
    <3>2. last.args[1] = Zero \/ last.args[1] \in Above(b)
      BY <1>2, <3>1 DEF Above, Graph
    <3>3. value(x.env, last.args[1]) = value(y.env, last.args[1])
      BY <3>2 DEF SameValues, value
    <3> QED
      BY <1>3, <3>3 DEF Given
  <2>2. CASE ~(Len(last.args) # 1 \/ last.op = "ret")
    BY <1>3, <2>2 DEF Given
  <2> QED
    BY <2>1, <2>2
<1>4. ASSUME NEW h \in Rewired, b = Entry(Graph, h) PROVE Given(term[b], y) = 0
  <2>1. term[b].op = "br" /\ term[b].args = <<preheader[h]>>
    BY <1>4 DEF Linked, TermsAre
  <2> QED
    BY <2>1 DEF Given
<1>5. ASSUME original.term[b].op = "ret" PROVE term[b] = original.term[b]
  <2>1. Graph[b] = <<>>
    BY <1>1, <1>5 DEF targets
  <2>2. \A h \in Rewired : b # Entry(Graph, h)
    <3> SUFFICES ASSUME NEW h \in Rewired, b = Entry(Graph, h) PROVE FALSE
      OBVIOUS
    <3>1. Graph[b] = <<h>>
      BY <1>1, EntryFacts
    <3> QED
      BY <2>1, <3>1
  <2> QED
    BY <2>2 DEF Linked, TermsAre
<1> QED
  BY <1>3, <1>4, <1>5

-----------------------------------------------------------------------------
(* A block of the original function.                                         *)
LEMMA AlongStays ==
    ASSUME UNCHANGED <<original, ir_vars, loop_vars>>, NEW u, NEW v, u = before', v = after', Along(u, v)
    PROVE  Along(before, after)'
<1>1. /\ original' = original /\ code' = code /\ inst' = inst /\ term' = term /\ succ_bbs' = succ_bbs
      /\ pre_bbs' = pre_bbs /\ blocks' = blocks /\ preheader' = preheader
  BY DEF ir_vars, loop_vars
<1>2. /\ Graph' = Graph /\ Places' = Places /\ Loops' = Loops /\ Rewired' = Rewired /\ Mute' = Mute
  BY <1>1 DEF Graph, Places, Loops, Rewired, Mute, Op
<1>3. /\ IsMachine(u, DOMAIN inst) /\ IsMachine(v, DOMAIN inst)
      /\ u.mem = v.mem /\ u.given = v.given
      /\ OnTheWay(u, v) /\ Beside(u, v)
      /\ SameValues(u, v, Mute \cup Above(u.from))
      /\ \A h \in Rewired : u.at \in Natural(Graph, h) /\ v.at # preheader[h] => Steady(v, h)
  BY DEF Along
<1>4. IsMachine(before, DOMAIN inst)' /\ IsMachine(after, DOMAIN inst)'
  BY <1>1, <1>3 DEF IsMachine
<1>5. OnTheWay(before, after)'
  BY <1>2, <1>3 DEF OnTheWay
<1>6. Beside(before, after)'
  BY <1>1, <1>2, <1>3 DEF Beside, Entering
<1>7. SameValues(before, after, Mute \cup Above(before.from))'
  BY <1>1, <1>2, <1>3 DEF SameValues, Above
<1>8. (\A h \in Rewired : before.at \in Natural(Graph, h) /\ after.at # preheader[h] => Steady(after, h))'
  BY <1>1, <1>2, <1>3 DEF Steady
<1> QED
  BY <1>3, <1>4, <1>5, <1>6, <1>7, <1>8 DEF Along

LEMMA BlockAlong ==
    ASSUME Linked, CodeWas, Left, PhisWere, Quiet(original), phase = "execute", Simulates, before.at = after.at,
           NEW k \in DOMAIN targets(original.term[before.at])
    PROVE  LET b == before.at
           IN  Along(Leave(before, original.code[b], original.inst, original.term[b], k),
                     Leave(after, code[b], inst, term[b], k))
<1> DEFINE b == before.at
           D == DOMAIN inst
           w == Run(original.inst, original.code[b], Entered(original.inst, original.code[b], before))
           z == Run(inst, code[b], Entered(inst, code[b], after))
           u == Leave(before, original.code[b], original.inst, original.term[b], k)
           v == Leave(after, code[b], inst, term[b], k)
           c == targets(original.term[b])[k]
<1>1. b \in Places /\ after.at = b
  BY CameFrom
<1>2. Alike(w, z, b, Mute \cup Above(b))
  BY <1>1, EnterAlike, BlockSame
<1>3. /\ IsMachine(w, D) /\ IsMachine(z, D) /\ w.mem = z.mem /\ SameValues(w, z, Mute \cup Above(b))
      /\ \A h \in Rewired : b \in Natural(Graph, h) => Steady(z, h)
  BY <1>2 DEF Alike
<1>4. /\ IsMachine(u, D) /\ u.env = w.env /\ u.mem = w.mem /\ u.given = Given(original.term[b], w)
      /\ u.at = c /\ u.from = b
  <2>1. Leaves(w, Executed(original.inst, original.code[b], original.term[b], before), u, original.term[b], before, D, k)
    BY <1>3, LeaveIs
  <2> HIDE DEF u, w
  <2> QED
    BY <2>1 DEF Leaves
<1>5. /\ IsMachine(v, D) /\ v.env = z.env /\ v.mem = z.mem /\ v.given = Given(term[b], z)
      /\ v.at = targets(term[b])[k] /\ v.from = b
  <2>1. Leaves(z, Executed(inst, code[b], term[b], after), v, term[b], after, D, k)
    BY <1>3, LeaveIs
  <2> HIDE DEF v, z
  <2> QED
    BY <1>1, <2>1 DEF Leaves
<1> HIDE DEF u, v, w, z
<1>6. c \in Places /\ c \in ToSet(Graph[b])
  BY <1>1, ExitIs
<1>7. \/ \E h \in Rewired : b = Entry(Graph, h) /\ c = h /\ targets(term[b])[k] = preheader[h] /\ Given(original.term[b], w) = 0
      \/ (\A h \in Rewired : b # Entry(Graph, h)) /\ term[b] = original.term[b]
  <2> HIDE DEF b
  <2>1. \/ \E h \in Rewired : /\ b = Entry(Graph, h) /\ c = h /\ targets(term[b])[k] = preheader[h]
                               /\ \A m : Given(original.term[b], m) = 0
        \/ (\A h \in Rewired : b # Entry(Graph, h)) /\ term[b] = original.term[b]
    BY <1>1, ExitIs DEF b
  <2> QED
    BY <2>1
<1>8. u.given = v.given
  <2>1. SameValues(w, z, Above(b))
    BY <1>3 DEF SameValues
  <2> QED
    BY <1>1, <1>4, <1>5, <1>7, <2>1, GivenSame
<1>9. OnTheWay(u, v)
  BY <1>1, <1>4, <1>6 DEF OnTheWay
<1>10. Beside(u, v)
  <2>1. Rewired \subseteq Loops
    BY DEF Rewired
  <2> QED
    BY <1>4, <1>5, <1>7, <2>1 DEF Beside, Entering
<1>11. SameValues(u, v, Mute \cup Above(u.from))
  BY <1>3, <1>4, <1>5 DEF SameValues
<1>12. ASSUME NEW h \in Rewired, c \in Natural(Graph, h), v.at # preheader[h] PROVE Steady(v, h)
  <2>1. IsLoopGraph(Graph) /\ h \in Headers(Graph) /\ DOMAIN Graph = Places
    BY Shape DEF Linked, Tables, Rewired
  <2>2. b \in Natural(Graph, h)
    <3>1. CASE c = h
      <4>1. b = Entry(Graph, h) \/ b \in Latches(Graph, 1, h)
        BY <1>1, <1>6, <2>1, <3>1, EntryFacts
      <4>2. b # Entry(Graph, h)
        <5>1. ASSUME b = Entry(Graph, h) PROVE v.at = preheader[h]
          BY <1>5, <1>7, <3>1, <5>1
        <5> QED
          BY <1>12, <5>1
      <4> QED
        BY <2>1, <4>1, <4>2, HeaderFacts
    <3>2. CASE c # h
      BY <1>1, <1>6, <1>12, <2>1, <3>2, HeaderFacts
    <3> QED
      BY <3>1, <3>2
  <2>3. Steady(z, h)
    BY <1>3, <2>2
  <2> QED
    BY <1>5, <2>3, SteadySame
<1>13. Along(u, v)
  BY <1>3, <1>4, <1>5, <1>8, <1>9, <1>10, <1>11, <1>12 DEF Along
<1> QED
  BY <1>13 DEF u, v

-----------------------------------------------------------------------------
(* A preheader: each of its instructions is given its value, and what it     *)
(* depends on is not changed any more.                                       *)
LEMMA LeftCode ==
    ASSUME Linked, Left, InOrder, NEW h \in Rewired
    PROVE  LET s == code[preheader[h]]
           IN  /\ preheader[h] \in Added /\ preheader[h] \in Now /\ h \in Loops
               /\ s \in Seq(DOMAIN inst) /\ IsInjective(s) /\ Ordered(s)
               /\ \A i \in ToSet(s) : /\ HasLeft(h, i) /\ i \in DOMAIN inst /\ Op(i) \in {"load", "plain", "pure"}
                                      /\ Args(i) \subseteq {Zero} \cup DOMAIN inst
<1>1. h \in Loops /\ preheader[h] # NoBlock /\ preheader[h] \in Added
  BY DEF Rewired, Linked, Tables
<1>2. preheader[h] \in Now /\ code[preheader[h]] \in Seq(DOMAIN inst)
  BY <1>1, Shape DEF Linked, CodeIs
<1>3. IsInjective(code[preheader[h]]) /\ Ordered(code[preheader[h]])
  BY <1>1, <1>2 DEF Linked, CodeIs, InOrder
<1>4. \A i \in ToSet(code[preheader[h]]) : HasLeft(h, i)
  BY <1>1 DEF Left
<1>5. ASSUME NEW i \in ToSet(code[preheader[h]])
      PROVE  i \in DOMAIN inst /\ Op(i) \in {"load", "plain", "pure"} /\ Args(i) \subseteq {Zero} \cup DOMAIN inst
  <2>1. i \in DOMAIN inst
    BY LeftOutside
  <2>2. Op(i) \in Operations /\ (Op(i) # "phi" => Args(i) \subseteq {Zero} \cup DOMAIN inst)
    BY <2>1, InstIs
  <2>3. Op(i) \notin {"store", "phi", "impure"}
    BY <1>4 DEF HasLeft
  <2> QED
    BY <2>1, <2>2, <2>3 DEF Operations
<1> QED
  BY <1>1, <1>2, <1>3, <1>4, <1>5

Filled(m, s, k, x) ==
    /\ IsMachine(x, DOMAIN inst) /\ x.mem = m.mem
    /\ \A i \in DOMAIN inst : (\A j \in 1 .. k : i # s[j]) => x.env[i] = m.env[i]
    /\ \A j \in 1 .. k : x.env[s[j]] = Result(inst[s[j]], x)

LEMMA FillStep ==
    ASSUME Linked, Left, InOrder, NEW h \in Rewired, NEW m, NEW s, s = code[preheader[h]],
           NEW k \in Nat, k + 1 <= Len(s), NEW x, Filled(m, s, k, x)
    PROVE  Filled(m, s, k + 1, Execute(inst, x, s[k + 1]))
<1> DEFINE i == s[k + 1]
           D == DOMAIN inst
           y == Execute(inst, x, i)
<1>1. /\ s \in Seq(D) /\ IsInjective(s) /\ Ordered(s)
      /\ \A a \in ToSet(s) : a \in D /\ Op(a) \in {"load", "plain", "pure"} /\ Args(a) \subseteq {Zero} \cup D
  BY LeftCode
<1>2. Len(s) \in Nat /\ DOMAIN s = 1 .. Len(s) /\ k + 1 \in DOMAIN s /\ 1 .. k + 1 = (1 .. k) \cup {k + 1}
      /\ 1 .. k \subseteq DOMAIN s /\ k + 1 \notin 1 .. k
  BY <1>1
<1>3. \A j \in DOMAIN s : s[j] \in ToSet(s) /\ s[j] \in D
  BY <1>1 DEF ToSet
<1>4. i \in ToSet(s) /\ i \in D /\ inst[i].op \in {"load", "plain", "pure"}
  BY <1>1, <1>2, <1>3 DEF Op
<1>5. /\ IsMachine(x, D) /\ x.mem = m.mem
      /\ \A a \in D : (\A j \in 1 .. k : a # s[j]) => x.env[a] = m.env[a]
      /\ \A j \in 1 .. k : x.env[s[j]] = Result(inst[s[j]], x)
  BY DEF Filled
<1>6. Effect(inst, D, x, i, y)
  BY <1>4, <1>5, ExecuteIs
<1> HIDE DEF y
<1>7. /\ IsMachine(y, D) /\ y.mem = m.mem /\ y.env[i] = Result(inst[i], x)
      /\ \A a \in D \ {i} : y.env[a] = x.env[a]
  BY <1>4, <1>5, <1>6 DEF Effect
<1>8. ASSUME NEW j \in 1 .. k + 1 PROVE Result(inst[s[j]], y) = Result(inst[s[j]], x)
  <2>1. j \in DOMAIN s /\ s[j] \in ToSet(s) /\ inst[s[j]].op \in {"load", "plain", "pure"}
    BY <1>1, <1>2, <1>3 DEF Op
  <2>2. i \notin Args(s[j])
    <3>1. i \in Args(s[j]) => k + 1 < j
      BY <1>1, <1>2, <2>1 DEF Ordered
    <3> QED
      BY <3>1
  <2>3. \A v \in ToSet(inst[s[j]].args) : v = Zero \/ x.env[v] = y.env[v]
    <3>1. Args(s[j]) \subseteq {Zero} \cup D
      BY <1>1, <2>1
    <3> QED
      BY <1>7, <2>2, <3>1 DEF Args
  <2> QED
    BY <1>5, <1>7, <2>1, <2>3, SameResult
<1>9. ASSUME NEW j \in 1 .. k + 1 PROVE y.env[s[j]] = Result(inst[s[j]], y)
  <2>1. CASE j = k + 1
    BY <1>7, <1>8, <2>1
  <2>2. CASE j \in 1 .. k
    <3>1. s[j] # i /\ s[j] \in D
      BY <1>1, <1>2, <1>3, <2>2 DEF IsInjective
    <3>2. y.env[s[j]] = x.env[s[j]]
      BY <1>7, <3>1
    <3>3. x.env[s[j]] = Result(inst[s[j]], x)
      BY <1>5, <2>2
    <3>4. Result(inst[s[j]], y) = Result(inst[s[j]], x)
      BY <1>8
    <3> QED
      BY <3>2, <3>3, <3>4
  <2> QED
    BY <1>2, <2>1, <2>2
<1>10. ASSUME NEW a \in D, \A j \in 1 .. k + 1 : a # s[j] PROVE y.env[a] = m.env[a]
  <2>1. a # i /\ \A j \in 1 .. k : a # s[j]
    BY <1>2, <1>10
  <2> QED
    BY <1>5, <1>7, <2>1
<1> QED
  BY <1>7, <1>9, <1>10 DEF Filled, y

LEMMA PreheaderRun ==
    ASSUME Linked, Left, InOrder, NEW h \in Rewired, NEW m, IsMachine(m, DOMAIN inst)
    PROVE  LET z == Run(inst, code[preheader[h]], m)
           IN  /\ IsMachine(z, DOMAIN inst) /\ z.mem = m.mem /\ Steady(z, h)
               /\ \A i \in DOMAIN inst : i \notin ToSet(code[preheader[h]]) => z.env[i] = m.env[i]
<1> DEFINE s == code[preheader[h]]
<1>1. s \in Seq(DOMAIN inst) /\ Len(s) \in Nat
  BY LeftCode
<1>2. PICK w : Ran(inst, s, m, w) /\ Run(inst, s, m) = w[Len(s)]
  BY <1>1, RunSteps
<1> DEFINE T == {k \in Nat : k <= Len(s) => Filled(m, s, k, w[k])}
<1>3. 0 \in T
  <2>1. w[0] = m
    BY <1>2 DEF Ran
  <2> QED
    BY <2>1 DEF Filled
<1>4. ASSUME NEW k \in T PROVE k + 1 \in T
  <2> SUFFICES ASSUME k + 1 <= Len(s) PROVE Filled(m, s, k + 1, w[k + 1])
    OBVIOUS
  <2>1. k \in Nat /\ k \in 0 .. Len(s) - 1 /\ Filled(m, s, k, w[k])
    BY <1>1
  <2>2. w[k + 1] = Execute(inst, w[k], s[k + 1])
    BY <1>2, <2>1 DEF Ran
  <2> QED
    BY <2>1, <2>2, FillStep
<1>5. Len(s) \in T
  BY <1>1, <1>3, <1>4, Induction
<1>6. Filled(m, s, Len(s), w[Len(s)])
  BY <1>1, <1>5
<1>7. ToSet(s) = {s[j] : j \in 1 .. Len(s)}
  BY <1>1 DEF ToSet
<1>8. Filled(m, s, Len(s), Run(inst, s, m))
  BY <1>2, <1>6
<1> QED
  BY <1>7, <1>8 DEF Filled, Steady

LEMMA PreheaderKeeps ==
    ASSUME Linked, CodeWas, Left, Quiet(original), NEW h \in Rewired, NEW b \in Body(h), NEW m, IsMachine(m, DOMAIN inst), Steady(m, h)
    PROVE  Steady(Run(inst, code[b], m), h)
<1> DEFINE s == code[b]
           D == DOMAIN inst
<1>1. s \in Seq(D) /\ Len(s) \in Nat
  <2>1. b \in Now
    BY BodyIs DEF Linked, Rewired
  <2> QED
    BY <2>1, Shape DEF Linked, CodeIs
<1>2. \A k \in 0 .. Len(s) - 1 : s[k + 1] \in Within(h) /\ s[k + 1] \in D
  <2>1. \A k \in 0 .. Len(s) - 1 : s[k + 1] \in ToSet(s) /\ s[k + 1] \in D
    BY <1>1 DEF ToSet
  <2> QED
    BY <2>1 DEF Within
<1>3. PICK w : Ran(inst, s, m, w) /\ Run(inst, s, m) = w[Len(s)]
  BY <1>1, RunSteps
<1> DEFINE T == {k \in Nat : k <= Len(s) => Steady(w[k], h) /\ IsMachine(w[k], D)}
<1>4. 0 \in T
  BY <1>3 DEF Ran
<1>5. ASSUME NEW k \in T PROVE k + 1 \in T
  <2> SUFFICES ASSUME k + 1 <= Len(s) PROVE Steady(w[k + 1], h) /\ IsMachine(w[k + 1], D)
    OBVIOUS
  <2>1. k \in Nat /\ k \in 0 .. Len(s) - 1 /\ Steady(w[k], h) /\ IsMachine(w[k], D)
    BY <1>1
  <2>2. w[k + 1] = Execute(inst, w[k], s[k + 1]) /\ s[k + 1] \in Within(h) /\ s[k + 1] \in D
    BY <1>2, <1>3, <2>1 DEF Ran
  <2>3. Steady(w[k + 1], h)
    BY <2>1, <2>2, KeepsSteady
  <2>4. Effect(inst, D, w[k], s[k + 1], w[k + 1])
    BY <2>1, <2>2, ExecuteIs
  <2> QED
    BY <2>3, <2>4 DEF Effect
<1>6. Len(s) \in T
  BY <1>1, <1>4, <1>5, Induction
<1> QED
  BY <1>1, <1>3, <1>6

-----------------------------------------------------------------------------
(* The new function is in a preheader.                                       *)
LEMMA WaitsAtHeader ==
    ASSUME Linked, phase = "execute", Simulates, after.at > Count
    PROVE  \E h \in Rewired : /\ before.at = h /\ before.from = Entry(Graph, h)
                              /\ after.at = preheader[h] /\ after.from = before.from
<1>1. OnTheWay(before, after) /\ Beside(before, after)
  BY DEF Simulates, Along
<1>2. before.at \in 1 .. Count /\ Count \in Nat
  <2>1. Places = 1 .. Count /\ Count \in Nat
    BY Shape DEF Linked, Places
  <2> QED
    BY <1>1, <2>1 DEF OnTheWay
<1>3. after.at # before.at
  BY <1>2
<1>4. PICK h \in Loops : Entering(before, h) /\ after.at = preheader[h] /\ after.from = before.from
  BY <1>1, <1>3 DEF Beside
<1> QED
  BY <1>4 DEF Entering

LEMMA LeftBelow ==
    ASSUME Linked, Left, InOrder, NEW h \in Rewired, NEW i \in ToSet(code[preheader[h]])
    PROVE  i \notin Mute /\ i \notin Above(Entry(Graph, h))
<1>1. /\ HasLeft(h, i) /\ Op(i) \in {"load", "plain", "pure"} /\ h \in Loops
  BY LeftCode
<1>2. i \notin Mute
  BY <1>1 DEF Mute
<1>3. IsLoopGraph(Graph) /\ h \in Headers(Graph) /\ DOMAIN Graph = Places /\ All(Graph, 1) = Places /\ h \in Places
  BY <1>1, Shape DEF Linked, Tables, IsLoopGraph
<1>4. Entry(Graph, h) \in Places /\ Entry(Graph, h) \notin DominatedBy(Graph, 1)[h]
  BY <1>3, EntryFacts
<1>5. PICK c \in Natural(Graph, h) : i \in ToSet(original.code[c])
  BY <1>1 DEF HasLeft
<1>6. c \in Places /\ c \in DominatedBy(Graph, 1)[h]
  BY <1>3, <1>5, HeaderFacts
<1>7. ASSUME NEW a \in Places, Entry(Graph, h) \in DominatedBy(Graph, 1)[a], i \in ToSet(original.code[a]) PROVE FALSE
  <2>1. a = c
    BY <1>5, <1>6, <1>7, CodeOf
  <2>2. Entry(Graph, h) \in DominatedBy(Graph, 1)[h]
    BY <1>3, <1>6, <1>7, <2>1, DomTransitive DEF IsLoopGraph
  <2> QED
    BY <1>4, <2>2
<1>8. i \notin Above(Entry(Graph, h))
  BY <1>7 DEF Above
<1> QED
  BY <1>2, <1>8

LEMMA PreheaderAlong ==
    ASSUME Linked, CodeWas, Left, InOrder, Quiet(original), phase = "execute", Simulates, after.at > Count
    PROVE  LET p == after.at
           IN  Along(before, [Leave(after, code[p], inst, term[p], 1) EXCEPT !.given = after.given])
<1> DEFINE D == DOMAIN inst
<1>1. PICK h \in Rewired : /\ before.at = h /\ before.from = Entry(Graph, h)
                           /\ after.at = preheader[h] /\ after.from = before.from
  BY WaitsAtHeader
<1> DEFINE p == preheader[h]
           e == Entered(inst, code[p], after)
           z == Run(inst, code[p], e)
           l == Leave(after, code[p], inst, term[p], 1)
           v == [l EXCEPT !.given = after.given]
<1>2. /\ IsMachine(before, D) /\ IsMachine(after, D)
      /\ before.mem = after.mem /\ before.given = after.given
      /\ OnTheWay(before, after)
      /\ SameValues(before, after, Mute \cup Above(before.from))
      /\ \A g \in Rewired : before.at \in Natural(Graph, g) /\ after.at # preheader[g] => Steady(after, g)
  BY DEF Simulates, Along
<1>3. /\ p \in Added /\ p \in Now /\ h \in Loops /\ code[p] \in Seq(D)
      /\ \A i \in ToSet(code[p]) : i \in D /\ Op(i) \in {"load", "plain", "pure"}
  BY LeftCode
<1>4. /\ IsLoopGraph(Graph) /\ h \in Headers(Graph) /\ h \in Places /\ DOMAIN Graph = Places /\ Added = Now \ Places
      /\ Entry(Graph, h) \in Places /\ NoBlock \notin Now /\ Places \subseteq Now /\ Graph[Entry(Graph, h)] = <<h>>
  <2>1. /\ IsLoopGraph(Graph) /\ h \in Headers(Graph) /\ DOMAIN Graph = Places /\ Added = Now \ Places
        /\ NoBlock \notin Now /\ Places \subseteq Now /\ Headers(Graph) \subseteq Places
    BY <1>3, Shape DEF Linked, Tables
  <2> QED
    BY <2>1, EntryFacts
<1>5. /\ IsMachine(e, D) /\ e.mem = after.mem /\ e.at = after.at /\ e.env = Phis(inst, code[p], after.env, after.from)
  BY <1>2, EnteredIs
<1>6. \A i \in D : e.env[i] = after.env[i]
  <2>1. DOMAIN after.env = D
    BY <1>2 DEF IsMachine
  <2>2. PhisGive(inst, code[p], after.env, D, after.from, e.env)
    BY <1>5, <2>1, PhisFacts
  <2> HIDE DEF e, p
  <2> QED
    BY <1>3, <2>2 DEF PhisGive, Op
<1>7. e.env = after.env
  <2>1. e.env = [i \in D |-> e.env[i]] /\ after.env = [i \in D |-> after.env[i]]
    BY <1>2, <1>5 DEF IsMachine
  <2> HIDE DEF e
  <2> QED
    BY <1>6, <2>1
<1>8. /\ IsMachine(z, D) /\ z.mem = e.mem /\ Steady(z, h)
      /\ \A i \in D : i \notin ToSet(code[p]) => z.env[i] = e.env[i]
  BY <1>5, PreheaderRun
<1>9. ASSUME NEW g \in Rewired, h \in Natural(Graph, g), g # h PROVE Steady(z, g)
  <2>1. preheader[g] # p /\ g \in Loops
    BY <1>3, <1>9 DEF Linked, Tables, Rewired
  <2>2. Steady(after, g)
    BY <1>1, <1>2, <1>9, <2>1
  <2>3. Steady(e, g)
    BY <1>5, <1>7, <2>2, SteadySame
  <2>4. ~Moving(h) /\ p \in Body(g)
    <3>1. phase # "move"
      OBVIOUS
    <3>2. ~Moving(h)
      BY <3>1 DEF Moving
    <3> QED
      BY <1>9, <2>1, <3>2, BodyIs DEF Linked
  <2> QED
    BY <1>5, <2>3, <2>4, PreheaderKeeps
<1>10. term[p].op = "br" /\ term[p].args = <<h>>
  <2>1. phase # "move"
    OBVIOUS
  <2> QED
    BY <2>1 DEF Linked, TermsAre, Moving
<1>11. targets(term[p])[1] = h
  BY <1>10 DEF targets
<1>12. IsMachine(l, D) /\ l.env = z.env /\ l.mem = z.mem /\ l.at = h /\ l.from = p
  <2>1. Leaves(z, Executed(inst, code[p], term[p], after), l, term[p], after, D, 1)
    BY <1>8, LeaveIs
  <2> HIDE DEF l, z, p
  <2> QED
    BY <1>1, <1>11, <2>1 DEF Leaves, p
<1> HIDE DEF l, z, e
<1>13. /\ IsMachine(v, D) /\ v.env = z.env /\ v.mem = after.mem /\ v.at = h /\ v.from = p /\ v.given = after.given
  <2>1. l = [at |-> l.at, from |-> l.from, env |-> l.env, mem |-> l.mem, given |-> l.given]
        /\ l.env = [i \in D |-> l.env[i]] /\ l.mem = [c \in Cells |-> l.mem[c]]
    BY <1>12 DEF IsMachine
  <2>2. v = [at |-> l.at, from |-> l.from, env |-> l.env, mem |-> l.mem, given |-> after.given]
    BY <2>1
  <2> HIDE DEF v, p
  <2>3. v.at = l.at /\ v.from = l.from /\ v.env = l.env /\ v.mem = l.mem /\ v.given = after.given
    BY <2>2
  <2>4. IsMachine(v, D)
    BY <2>1, <2>2, <2>3 DEF IsMachine
  <2> QED
    BY <1>5, <1>8, <1>12, <2>3, <2>4
<1> HIDE DEF v
<1>14. OnTheWay(before, v)
  BY <1>1, <1>2, <1>4 DEF OnTheWay
<1>15. Beside(before, v)
  BY <1>1, <1>3, <1>13 DEF Beside, Entering
<1>16. SameValues(before, v, Mute \cup Above(before.from))
  <2> SUFFICES ASSUME NEW i \in Mute \cup Above(before.from) PROVE before.env[i] = v.env[i]
    BY DEF SameValues
  <2>1. i \notin ToSet(code[p])
    BY <1>1, LeftBelow
  <2>2. i \in D
    <3>1. CASE i \in Mute
      BY <3>1 DEF Mute
    <3>2. CASE i \in Above(before.from)
      <4>1. PICK a \in Places : i \in ToSet(original.code[a])
        BY <3>2 DEF Above
      <4>2. original.code[a] \in Seq(D)
        BY CodeOf
      <4> QED
        BY <4>1, <4>2 DEF ToSet
    <3> QED
      BY <3>1, <3>2
  <2>3. z.env[i] = e.env[i] /\ e.env[i] = after.env[i] /\ v.env[i] = z.env[i]
    BY <1>6, <1>8, <1>13, <2>1, <2>2
  <2>4. before.env[i] = after.env[i]
    BY <1>2 DEF SameValues
  <2> QED
    BY <2>3, <2>4
<1>17. ASSUME NEW g \in Rewired, before.at \in Natural(Graph, g) PROVE Steady(v, g)
  <2>1. Steady(z, g)
    BY <1>1, <1>8, <1>9, <1>17
  <2>2. v.env = z.env /\ v.mem = z.mem
    BY <1>5, <1>8, <1>13
  <2> QED
    BY <2>1, <2>2, SteadySame
<1>18. Along(before, v)
  BY <1>2, <1>13, <1>14, <1>15, <1>16, <1>17 DEF Along
<1> QED
  BY <1>1, <1>18 DEF v, l

-----------------------------------------------------------------------------
(* What is left of a list keeps its order, and taking away twice is taking   *)
(* away once.                                                                *)
LEMMA WithoutEmpty ==
    ASSUME NEW S
    PROVE  without(<<>>, S) = <<>>
<1>1. <<>> \in Seq(S) /\ Len(<<>>) = 0
  OBVIOUS
<1>2. PICK w \in [0 .. Len(<<>>) -> Seq(S)] : Kept(<<>>, S, w)
  BY <1>1, WithoutSteps
<1> QED
  BY <1>1, <1>2 DEF Kept

LEMMA WithoutAppend ==
    ASSUME NEW X, NEW t \in Seq(X), NEW e \in X, NEW S
    PROVE  without(Append(t, e), S) = IF e \in S THEN without(t, S) ELSE Append(without(t, S), e)
<1> DEFINE s == Append(t, e)
           n == Len(t)
<1>1. s \in Seq(X) /\ n \in Nat /\ Len(s) = n + 1 /\ s[n + 1] = e /\ \A k \in 1 .. n : s[k] = t[k]
  OBVIOUS
<1> HIDE DEF s
<1>2. PICK w \in [0 .. Len(s) -> Seq(X)] : Kept(s, S, w)
  BY <1>1, WithoutSteps
<1>3. PICK v \in [0 .. n -> Seq(X)] : Kept(t, S, v)
  BY WithoutSteps
<1> DEFINE T == {k \in Nat : k <= n => w[k] = v[k]}
<1>4. 0 \in T
  BY <1>2, <1>3 DEF Kept
<1>5. ASSUME NEW k \in T PROVE k + 1 \in T
  <2> SUFFICES ASSUME k + 1 <= n PROVE w[k + 1] = v[k + 1]
    OBVIOUS
  <2>1. k \in 0 .. n - 1 /\ k \in 0 .. Len(s) - 1 /\ w[k] = v[k] /\ s[k + 1] = t[k + 1]
    BY <1>1
  <2>2. w[k + 1] = IF s[k + 1] \in S THEN w[k] ELSE Append(w[k], s[k + 1])
    BY <1>2, <2>1 DEF Kept
  <2>3. v[k + 1] = IF t[k + 1] \in S THEN v[k] ELSE Append(v[k], t[k + 1])
    BY <1>3, <2>1 DEF Kept
  <2> QED
    BY <2>1, <2>2, <2>3
<1>6. n \in T
  BY <1>1, <1>4, <1>5, Induction
<1>7. w[n] = without(t, S)
  BY <1>1, <1>3, <1>6 DEF Kept
<1>8. w[n + 1] = IF s[n + 1] \in S THEN w[n] ELSE Append(w[n], s[n + 1])
  BY <1>1, <1>2 DEF Kept
<1>9. without(s, S) = w[n + 1]
  BY <1>1, <1>2 DEF Kept
<1> QED
  BY <1>1, <1>7, <1>8, <1>9 DEF s

LEMMA WithoutTwice ==
    ASSUME NEW X, NEW s \in Seq(X), NEW A, NEW B
    PROVE  without(without(s, A), B) = without(s, A \cup B)
<1>1. PICK w \in [0 .. Len(s) -> Seq(X)] : Kept(s, A, w)
  BY WithoutSteps
<1>2. PICK v \in [0 .. Len(s) -> Seq(X)] : Kept(s, A \cup B, v)
  BY WithoutSteps
<1>3. Len(s) \in Nat /\ \A k \in 0 .. Len(s) - 1 : s[k + 1] \in X
  OBVIOUS
<1> DEFINE T == {k \in Nat : k <= Len(s) => without(w[k], B) = v[k]}
<1>4. 0 \in T
  BY <1>1, <1>2, WithoutEmpty DEF Kept
<1>5. ASSUME NEW k \in T PROVE k + 1 \in T
  <2> SUFFICES ASSUME k + 1 <= Len(s) PROVE without(w[k + 1], B) = v[k + 1]
    OBVIOUS
  <2> DEFINE e == s[k + 1]
  <2>1. k \in 0 .. Len(s) - 1 /\ k \in 0 .. Len(s) /\ without(w[k], B) = v[k]
    BY <1>3
  <2>2. e \in X /\ w[k] \in Seq(X)
    BY <1>3, <2>1
  <2>3. w[k + 1] = IF e \in A THEN w[k] ELSE Append(w[k], e)
    BY <1>1, <2>1 DEF Kept
  <2>4. v[k + 1] = IF e \in A \cup B THEN v[k] ELSE Append(v[k], e)
    BY <1>2, <2>1 DEF Kept
  <2> HIDE DEF e
  <2>5. without(Append(w[k], e), B) = IF e \in B THEN without(w[k], B) ELSE Append(without(w[k], B), e)
    <3>1. PICK t \in Seq(X) : t = w[k]
      BY <2>2
    <3>2. without(Append(t, e), B) = IF e \in B THEN without(t, B) ELSE Append(without(t, B), e)
      BY <2>2, WithoutAppend
    <3> QED
      BY <3>1, <3>2
  <2> QED
    BY <2>1, <2>3, <2>4, <2>5
<1>6. Len(s) \in T
  BY <1>3, <1>4, <1>5, Induction
<1>7. without(w[Len(s)], B) = v[Len(s)]
  BY <1>3, <1>6
<1> QED
  BY <1>1, <1>2, <1>7 DEF Kept

LEMMA WithoutNone ==
    ASSUME NEW X, NEW s \in Seq(X)
    PROVE  without(s, {}) = s
<1>1. PICK w \in [0 .. Len(s) -> Seq(X)] : Kept(s, {}, w)
  BY WithoutSteps
<1>2. Len(s) \in Nat /\ \A k \in 0 .. Len(s) - 1 : s[k + 1] \in X
  OBVIOUS
<1> DEFINE T == {k \in Nat : k <= Len(s) => Len(w[k]) = k /\ \A j \in 1 .. k : w[k][j] = s[j]}
<1>3. 0 \in T
  BY <1>1 DEF Kept
<1>4. ASSUME NEW k \in T PROVE k + 1 \in T
  <2> SUFFICES ASSUME k + 1 <= Len(s) PROVE Len(w[k + 1]) = k + 1 /\ \A j \in 1 .. k + 1 : w[k + 1][j] = s[j]
    OBVIOUS
  <2>1. /\ k \in Nat /\ k \in 0 .. Len(s) - 1 /\ k \in 0 .. Len(s)
        /\ Len(w[k]) = k /\ \A j \in 1 .. k : w[k][j] = s[j]
    BY <1>2
  <2>2. w[k + 1] = Append(w[k], s[k + 1]) /\ w[k] \in Seq(X) /\ s[k + 1] \in X
    BY <1>1, <1>2, <2>1 DEF Kept
  <2>3. /\ Len(w[k + 1]) = k + 1 /\ \A b \in 1 .. k : w[k + 1][b] = w[k][b]
        /\ w[k + 1][k + 1] = s[k + 1]
    BY <2>1, <2>2, AppendAt
  <2> QED
    BY <2>1, <2>3
<1>5. Len(s) \in T
  BY <1>2, <1>3, <1>4, Induction
<1>6. w[Len(s)] \in Seq(X) /\ Len(w[Len(s)]) = Len(s) /\ \A j \in 1 .. Len(s) : w[Len(s)][j] = s[j]
  BY <1>2, <1>5
<1>7. w[Len(s)] = s
  BY <1>6
<1> QED
  BY <1>1, <1>7 DEF Kept

LEMMA WithoutOrdered ==
    ASSUME NEW X, NEW s \in Seq(X), Ordered(s), NEW S
    PROVE  Ordered(without(s, S))
<1>1. PICK w \in [0 .. Len(s) -> Seq(X)] : Kept(s, S, w)
  BY WithoutSteps
<1>2. Len(s) \in Nat /\ DOMAIN s = 1 .. Len(s) /\ \A k \in 0 .. Len(s) - 1 : s[k + 1] \in X
  OBVIOUS
<1> DEFINE T == {k \in Nat : k <= Len(s) => Ordered(w[k]) /\ \A a \in DOMAIN w[k] : \E j \in 1 .. k : w[k][a] = s[j]}
<1>3. 0 \in T
  <2>1. w[0] = <<>> /\ DOMAIN w[0] = {}
    BY <1>1 DEF Kept
  <2> QED
    BY <2>1 DEF Ordered
<1>4. ASSUME NEW k \in T PROVE k + 1 \in T
  <2> SUFFICES ASSUME k + 1 <= Len(s)
               PROVE  Ordered(w[k + 1]) /\ \A a \in DOMAIN w[k + 1] : \E j \in 1 .. k + 1 : w[k + 1][a] = s[j]
    OBVIOUS
  <2> DEFINE e == s[k + 1]
  <2>1. /\ k \in Nat /\ k \in 0 .. Len(s) - 1 /\ k \in 0 .. Len(s)
        /\ Ordered(w[k]) /\ \A a \in DOMAIN w[k] : \E j \in 1 .. k : w[k][a] = s[j]
    BY <1>2
  <2>2. w[k + 1] = (IF e \in S THEN w[k] ELSE Append(w[k], e)) /\ w[k] \in Seq(X) /\ e \in X
    BY <1>1, <1>2, <2>1 DEF Kept
  <2>3. CASE e \in S
    BY <2>1, <2>2, <2>3
  <2>4. CASE e \notin S
    <3>1. PICK t \in Seq(X) : t = w[k]
      BY <2>2
    <3>2. PICK m \in Nat : m = Len(t)
      BY <3>1
    <3>3. PICK u : u = w[k + 1]
      OBVIOUS
    <3>4. /\ u \in Seq(X) /\ Len(u) = m + 1 /\ (\A b \in 1 .. m : u[b] = t[b]) /\ u[m + 1] = e
      BY <2>2, <2>4, <3>1, <3>2, <3>3, AppendAt
    <3>5. DOMAIN u = 1 .. m + 1 /\ DOMAIN t = 1 .. m
      BY <3>2, <3>4
    <3>6. \A a \in 1 .. m : \E j \in 1 .. k : u[a] = s[j]
      BY <2>1, <3>1, <3>4, <3>5
    <3>7. ASSUME NEW a \in 1 .. m + 1 PROVE \E j \in 1 .. k + 1 : u[a] = s[j]
      <4>1. CASE a \in 1 .. m
        <5>1. PICK j \in 1 .. k : u[a] = s[j]
          BY <3>6, <4>1
        <5>2. j \in 1 .. k + 1
          BY <2>1
        <5> QED
          BY <5>1, <5>2
      <4>2. CASE a = m + 1
        <5>1. k + 1 \in 1 .. k + 1
          BY <2>1
        <5> QED
          BY <3>4, <4>2, <5>1
      <4> QED
        BY <3>2, <4>1, <4>2
    <3>8. ASSUME NEW a \in 1 .. m + 1, NEW b \in 1 .. m + 1, u[a] \in Args(u[b]) PROVE a < b
      <4>1. CASE a \in 1 .. m /\ b \in 1 .. m
        BY <2>1, <3>1, <3>4, <3>5, <3>8, <4>1 DEF Ordered
      <4>2. CASE a \in 1 .. m /\ b = m + 1
        BY <3>2, <4>2
      <4>3. CASE a = m + 1
        <5>1. PICK j \in 1 .. k + 1 : u[b] = s[j]
          BY <3>7
        <5>2. s[k + 1] \in Args(s[j]) /\ j \in DOMAIN s /\ k + 1 \in DOMAIN s
          BY <1>2, <2>1, <3>4, <3>8, <4>3, <5>1
        <5>3. k + 1 < j
          BY <5>2 DEF Ordered
        <5> QED
          BY <2>1, <5>3
      <4> QED
        BY <3>2, <4>1, <4>2, <4>3
    <3>9. Ordered(u)
      BY <3>5, <3>8 DEF Ordered
    <3> QED
      BY <3>3, <3>5, <3>7, <3>9
  <2> QED
    BY <2>3, <2>4
<1>5. Len(s) \in T
  BY <1>2, <1>3, <1>4, Induction
<1> QED
  BY <1>1, <1>2, <1>5 DEF Kept

-----------------------------------------------------------------------------
(* What is said of the moved instructions holds at first, and the steps that *)
(* move nothing keep it.                                                     *)
LEMMA HoistsInit ==
    ASSUME Init
    PROVE  Hoists
<1>1. /\ original \in Programs /\ code = original.code /\ inst = original.inst /\ succ_bbs = Graph
      /\ preheader = [h \in Loops |-> NoBlock] /\ loop_invariant = <<>> /\ phase = "traverse"
      /\ before = Machine(inst) /\ after = Machine(inst)
  BY DEF Init, Graph
<1>2. Linked
  BY LinkedInit
<1>3. Added = {} /\ DOMAIN Graph = Places
  <2>1. Count \in Nat /\ Len(succ_bbs) = Count /\ DOMAIN Graph = Places
    BY <1>1, <1>2, Shape DEF Linked
  <2> QED
    BY <2>1 DEF Added
<1>4. Rewired = {} /\ Hoisted = {}
  BY <1>1, <1>3 DEF Rewired, Hoisted
<1>5. CodeWas
  <2> SUFFICES ASSUME NEW b \in Places PROVE code[b] = without(original.code[b], Hoisted)
    BY DEF CodeWas
  <2>1. original.code[b] \in Seq(DOMAIN inst)
    BY <1>2, CodeOf
  <2> QED
    BY <1>1, <1>4, <2>1, WithoutNone
<1>6. InOrder /\ FoundInOrder /\ Left
  BY <1>1, <1>3 DEF InOrder, FoundInOrder, Left
<1>7. PhisWere
  <2> SUFFICES ASSUME NEW b \in Places, NEW i \in ToSet(original.code[b]), Op(i) = "phi"
               PROVE  ToSet(inst[i].args) = {<<a[1], Source(b, a[2])>> : a \in ToSet(inst[i].args)}
    BY <1>1 DEF PhisWere
  <2>1. \A c : Source(b, c) = c
    BY <1>4 DEF Source
  <2>2. inst[i].args \in Seq(({Zero} \cup DOMAIN inst) \X Nat)
    <3>1. original.inst[i].op = "phi" /\ b \in DOMAIN original.graph
      BY <1>1, <1>3 DEF Op, Graph
    <3> QED
      BY <1>1, <3>1, PhisOf
  <2>3. \A a \in ToSet(inst[i].args) : a = <<a[1], a[2]>>
    <3> DEFINE V == ({Zero} \cup DOMAIN inst) \X Nat
               s == inst[i].args
    <3>1. s \in Seq(V)
      BY <2>2
    <3> HIDE DEF V, s
    <3>2. \A a \in ToSet(s) : a \in V
      BY <3>1 DEF ToSet
    <3> QED
      BY <3>2 DEF V, s
  <2> QED
    BY <2>1, <2>3
<1>8. Untouched
  BY <1>1 DEF Untouched
<1> QED
  BY <1>5, <1>6, <1>7, <1>8 DEF Hoists

LEMMA HoistsSame ==
    ASSUME Linked, CodeWas, InOrder, Left, PhisWere, UNCHANGED <<original, ir_vars, blocks, preheader>>,
           (phase # "move" /\ phase' # "move") \/ (phase' = phase /\ loop' = loop)
    PROVE  CodeWas' /\ InOrder' /\ Left' /\ PhisWere'
<1>1. /\ original' = original /\ code' = code /\ inst' = inst /\ term' = term /\ succ_bbs' = succ_bbs
      /\ pre_bbs' = pre_bbs /\ blocks' = blocks /\ preheader' = preheader
  BY DEF ir_vars
<1>2. /\ Graph' = Graph /\ Places' = Places /\ Added' = Added /\ Loops' = Loops /\ Rewired' = Rewired
      /\ \A h \in Loops : Within(h)' = Within(h)
  BY <1>1, Unmoved DEF Graph, Places
<1>3. Hoisted' = Hoisted
  BY <1>1, <1>2 DEF Hoisted
<1>4. CodeWas'
  BY <1>1, <1>2, <1>3 DEF CodeWas
<1>5. InOrder'
  BY <1>1, <1>2 DEF InOrder, Ordered, Args
<1>6. Left'
  BY <1>1, <1>2 DEF Left, HasLeft, Harmless, Op, Args
<1>7. PhisWere'
  BY <1>1, <1>2 DEF PhisWere, Source, Op
<1> QED
  BY <1>4, <1>5, <1>6, <1>7

LEMMA HoistsTraverse ==
    ASSUME Linked, Hoists, NEW h \in Loops, TraverseLoop(h)
    PROVE  Hoists'
<1>1. /\ phase = "traverse" /\ phase' = "mark" /\ loop_invariant' = loop_invariant
      /\ UNCHANGED <<original, ir_vars, blocks, preheader>> /\ before' = before /\ after' = after /\ original' = original
  BY DEF TraverseLoop
<1>2. loop_invariant = <<>>
  BY <1>1 DEF Linked, Found, Working
<1>3. FoundInOrder'
  BY <1>1, <1>2 DEF FoundInOrder
<1>4. Untouched'
  BY <1>1 DEF Hoists, Untouched
<1> QED
  BY <1>1, <1>3, <1>4, HoistsSame DEF Hoists

LEMMA HoistsMark ==
    ASSUME Linked, Hoists, NEW i, Mark(i)
    PROVE  Hoists'
<1>1. /\ phase = "mark" /\ phase' = phase /\ loop' = loop
      /\ loop_invariant' = Append(loop_invariant, i) /\ i \in Within(loop)
      /\ Args(i) \cap Within(loop) \subseteq ToSet(loop_invariant)
      /\ UNCHANGED <<original, ir_vars, blocks, preheader>> /\ before' = before /\ after' = after /\ original' = original
  BY DEF Mark, invariant, op_are_invariant, loop_instructions, Within, Body, Args
<1>2. /\ loop \in Loops /\ loop_invariant \in Seq(DOMAIN inst) /\ i \in DOMAIN inst
  <2>1. loop \in is_loop_done /\ is_loop_done \subseteq Loops /\ loop_invariant \in Seq(DOMAIN inst)
    BY <1>1 DEF Linked, Tables, Working, Found
  <2> QED
    BY <1>1, <2>1, WithinIn DEF Linked
<1>3. Within(loop)' = Within(loop) /\ inst' = inst
  <2>1. /\ code' = code /\ inst' = inst /\ blocks' = blocks
    BY <1>1 DEF ir_vars
  <2> QED
    BY <1>1, <2>1 DEF Within, Body, inner, Loops
<1>4. FoundInOrder'
  <2>1. PICK s \in Seq(DOMAIN inst) : s = loop_invariant
    BY <1>2
  <2>2. PICK n \in Nat : n = Len(s)
    BY <2>1
  <2>3. PICK t : t = loop_invariant'
    OBVIOUS
  <2>4. t \in Seq(DOMAIN inst) /\ Len(t) = n + 1 /\ (\A k \in 1 .. n : t[k] = s[k]) /\ t[n + 1] = i
    BY <1>1, <1>2, <2>1, <2>2, <2>3, AppendAt
  <2>5. DOMAIN t = 1 .. n + 1 /\ DOMAIN s = 1 .. n
    BY <2>2, <2>4
  <2>6. ASSUME NEW k \in 1 .. n + 1 PROVE Args(t[k]) \cap Within(loop) \subseteq {t[j] : j \in 1 .. k - 1}
    <3>1. CASE k \in 1 .. n
      <4>1. Args(s[k]) \cap Within(loop) \subseteq {s[j] : j \in 1 .. k - 1}
        BY <2>1, <2>5, <3>1 DEF Hoists, FoundInOrder
      <4>2. \A j \in 1 .. k - 1 : t[j] = s[j]
        BY <2>4, <3>1
      <4> QED
        BY <2>4, <3>1, <4>1, <4>2
    <3>2. CASE k = n + 1
      <4>1. Args(i) \cap Within(loop) \subseteq {s[j] : j \in 1 .. n}
        BY <1>1, <2>1, <2>5 DEF ToSet
      <4>2. 1 .. k - 1 = 1 .. n
        BY <3>2
      <4> QED
        BY <2>4, <3>2, <4>1, <4>2
    <3> QED
      BY <2>2, <3>1, <3>2
  <2>7. \A k \in DOMAIN loop_invariant' : Args(loop_invariant'[k]) \cap Within(loop) \subseteq {loop_invariant'[j] : j \in 1 .. k - 1}
    BY <2>3, <2>5, <2>6
  <2> QED
    BY <1>3, <2>7 DEF FoundInOrder, Args
<1>5. Untouched'
  BY <1>1 DEF Hoists, Untouched
<1> QED
  BY <1>1, <1>4, <1>5, HoistsSame DEF Hoists

LEMMA HoistsAfter ==
    ASSUME Linked, Hoists, \/ Call \/ (\E k \in 1 .. 2 : Block(k)) \/ Preheader \/ Return \/ UNCHANGED vars
    PROVE  Hoists'
<1>1. /\ UNCHANGED <<original, ir_vars, loop_vars>>
      /\ (phase # "move" /\ phase' # "move") \/ (phase' = phase /\ loop' = loop)
      /\ phase' \in {"execute", "returned"} \/ UNCHANGED vars
  BY DEF Call, Block, Preheader, Return, vars, loop_vars
<1>2. /\ code' = code /\ inst' = inst /\ blocks' = blocks /\ preheader' = preheader /\ loop' = loop
      /\ loop_invariant' = loop_invariant /\ original' = original
      /\ UNCHANGED <<original, ir_vars, blocks, preheader>>
  BY <1>1 DEF ir_vars, loop_vars
<1>3. Within(loop)' = Within(loop)
  BY <1>2 DEF Within, Body, inner, Loops
<1>4. FoundInOrder'
  BY <1>2, <1>3 DEF Hoists, FoundInOrder, Args
<1>5. Untouched'
  BY <1>1 DEF Hoists, Untouched, vars, ir_vars
<1> QED
  BY <1>1, <1>2, <1>4, <1>5, HoistsSame DEF Hoists

-----------------------------------------------------------------------------
(* The steps that change the function.                                       *)
LEMMA HoistsMarked ==
    ASSUME Linked, Hoists, Marked
    PROVE  Hoists'
<1> DEFINE n == Len(succ_bbs)
<1>1. /\ phase = "mark" /\ phase' \in {"traverse", "rewire"} /\ loop \in Loops /\ preheader[loop] = NoBlock
      /\ preheader' = [preheader EXCEPT ![loop] = n + 1]
      /\ code' = Append(code, <<>>) /\ succ_bbs' = Append(succ_bbs, <<>>)
      /\ original' = original /\ inst' = inst /\ blocks' = blocks /\ loop' = loop
      /\ loop_invariant' = loop_invariant /\ before' = before /\ after' = after
  BY DEF Marked, Linked, Tables, Working
<1>2. Loops' = Loops /\ Rewired' = Rewired /\ \A l \in Loops : Within(l)' = Within(l)
  BY LinkedMarked
<1>3. /\ n \in Nat /\ Count \in Nat /\ n >= Count /\ Places \subseteq Now /\ Added = Now \ Places /\ Len(code) = n
      /\ DOMAIN preheader = Loops /\ (\A l \in Loops : preheader[l] = NoBlock \/ preheader[l] \in Added)
      /\ Rewired \subseteq Loops /\ \A l \in Rewired : preheader[l] # NoBlock
  BY Shape DEF Linked, Tables, Types, Rewired
<1>4. /\ (\A b \in 1 .. n : code'[b] = code[b]) /\ code'[n + 1] = <<>>
  <2> DEFINE V == Seq(DOMAIN original.inst)
  <2>1. code \in Seq(V)
    BY DEF Linked, Types
  <2>2. <<>> \in V
    OBVIOUS
  <2> HIDE DEF V, n
  <2> QED
    BY <1>1, <1>3, <2>1, <2>2, AppendAt DEF V
<1>5. Len(succ_bbs') = n + 1
  <2> DEFINE V == Seq(Nat)
  <2>1. succ_bbs \in Seq(V)
    BY DEF Linked, Types
  <2>2. <<>> \in V
    OBVIOUS
  <2> HIDE DEF V, n
  <2> QED
    BY <1>1, <1>3, <2>1, <2>2, AppendAt DEF n
<1>6. /\ Graph' = Graph /\ Places' = Places /\ Now = 1 .. n /\ Added = Count + 1 .. n /\ Added' = Count + 1 .. n + 1
  BY <1>1, <1>5 DEF Graph, Places, Count, Now, Added
<1> HIDE DEF n
<1>7. Added' = Added \cup {n + 1} /\ n + 1 \notin Added /\ n + 1 # NoBlock /\ \A b \in Added : code'[b] = code[b]
  BY <1>3, <1>4, <1>6 DEF NoBlock
<1>8. \A b \in Places : code'[b] = code[b]
  BY <1>3, <1>4, <1>6
<1>9. Hoisted' = Hoisted
  <2>1. Hoisted' = UNION {ToSet(code'[b]) : b \in Added'}
    BY DEF Hoisted
  <2>2. ToSet(code'[n + 1]) = {}
    BY <1>4 DEF ToSet
  <2>3. UNION {ToSet(code'[b]) : b \in Added'} = UNION {ToSet(code'[b]) : b \in Added}
    BY <1>7, <2>2
  <2>4. UNION {ToSet(code'[b]) : b \in Added} = Hoisted
    BY <1>7 DEF Hoisted
  <2> QED
    BY <2>1, <2>3, <2>4
<1>10. CodeWas'
  BY <1>1, <1>6, <1>8, <1>9 DEF CodeWas, Hoists
<1>11. InOrder'
  <2>1. ASSUME NEW b \in Added' PROVE Ordered(code'[b])
    <3>1. CASE b = n + 1
      BY <1>4, <3>1 DEF Ordered
    <3>2. CASE b \in Added
      BY <1>7, <3>2 DEF Hoists, InOrder
    <3> QED
      BY <1>7, <3>1, <3>2
  <2> QED
    BY <1>1, <2>1 DEF InOrder, Ordered, Args
<1>12. FoundInOrder'
  <2>1. Within(loop)' = Within(loop)
    <3>1. PICK l \in Loops : l = loop /\ l = loop'
      BY <1>1
    <3>2. Within(l)' = Within(l)
      BY <1>2
    <3>3. Within(loop)' = Within(l)'
      BY <1>1, <3>1 DEF Within, Body, inner, Loops
    <3> QED
      BY <3>1, <3>2, <3>3
  <2> QED
    BY <1>1, <2>1 DEF Hoists, FoundInOrder, Args
<1>13. Left'
  <2> SUFFICES ASSUME NEW h \in Loops, preheader'[h] # NoBlock, NEW i \in ToSet(code'[preheader'[h]])
               PROVE  HasLeft(h, i)' /\ Harmless(h)'
    BY <1>2 DEF Left
  <2>1. h # loop
    <3>1. ToSet(code'[n + 1]) = {}
      BY <1>4 DEF ToSet
    <3> QED
      BY <1>1, <1>3, <3>1
  <2>2. preheader'[h] = preheader[h] /\ preheader[h] \in Added /\ code'[preheader[h]] = code[preheader[h]]
    BY <1>1, <1>3, <1>7, <2>1
  <2>3. HasLeft(h, i) /\ Harmless(h)
    BY <2>2 DEF Hoists, Left
  <2> QED
    BY <1>1, <1>2, <1>6, <2>3 DEF HasLeft, Harmless, Op, Args
<1>14. PhisWere'
  <2>1. \A b \in Rewired : preheader'[b] = preheader[b]
    BY <1>1, <1>3
  <2>2. \A b, c : Source(b, c)' = Source(b, c)
    BY <1>2, <1>6, <2>1 DEF Source
  <2> SUFFICES ASSUME NEW b \in Places, NEW i \in ToSet(code[b]), Op(i) = "phi"
               PROVE  ToSet(inst[i].args) = {<<a[1], Source(b, a[2])'>> : a \in ToSet(original.inst[i].args)}
    BY <1>1, <1>6, <1>8 DEF PhisWere, Source, Op
  <2>3. ToSet(inst[i].args) = {<<a[1], Source(b, a[2])>> : a \in ToSet(original.inst[i].args)}
    BY DEF Hoists, PhisWere
  <2> QED
    BY <2>2, <2>3
<1>15. Untouched'
  BY <1>1 DEF Hoists, Untouched
<1> QED
  BY <1>10, <1>11, <1>12, <1>13, <1>14, <1>15 DEF Hoists

(* The phis of the header are told of the preheader.                         *)
LEMMA PhisRewired ==
    ASSUME Linked, Hoists, Rewire, NEW i \in ToSet(code[loop]), Op(i) = "phi"
    PROVE  LET e == Entry(Graph, loop)
           IN  ToSet(inst'[i].args) = {<<a[1], IF a[2] = e THEN preheader[loop] ELSE a[2]>> : a \in ToSet(original.inst[i].args)}
<1> DEFINE p == preheader[loop]
           e == Entry(Graph, loop)
           s == inst[i].args
           o == ToSet(original.inst[i].args)
<1>1. phase = "rewire" /\ loop \in Loops /\ loop \notin Rewired /\ p \in Added /\ e \in Places /\ loop \in Places
  BY RewireIs DEF Rewire
<1>2. /\ loop \in Now /\ p \in Now /\ p \notin Places
      /\ \A a \in Now : loop \in ToSet(succ_bbs[a]) => a \in Places
  <2>1. Places \subseteq Now /\ Added = Now \ Places
    BY Shape DEF Linked
  <2>2. \A a \in Now : loop \in ToSet(succ_bbs[a]) => a \in Places
    BY <1>1, LeadsToHeader
  <2> QED
    BY <1>1, <2>1, <2>2
<1>3. /\ s \in Seq(({Zero} \cup DOMAIN original.inst) \X Nat) /\ Unique(s)
      /\ Seconds(s) = {a \in Now : loop \in ToSet(succ_bbs[a])}
  BY <1>2 DEF Linked, PhisAre
<1>4. ToSet(s) = {<<a[1], a[2]>> : a \in o}
  <2>1. ToSet(s) = {<<a[1], Source(loop, a[2])>> : a \in o}
    BY <1>1 DEF Hoists, PhisWere
  <2>2. \A c : Source(loop, c) = c
    BY <1>1 DEF Source
  <2> QED
    BY <2>1, <2>2
<1>5. PICK k \in DOMAIN s : s[k][2] = e /\ retargeted(i) = Moved(s, k, p)
  BY <1>1, RetargetedIs DEF Moved
<1>6. inst'[i].args = Moved(s, k, p)
  BY <1>5, RewireInst
<1>7. p \notin Seconds(s)
  BY <1>2, <1>3
<1>8. p \in Nat
  BY <1>2 DEF Now
<1>9. ToSet(Moved(s, k, p)) = (ToSet(s) \ {s[k]}) \cup {<<s[k][1], p>>}
  <2> DEFINE V == {Zero} \cup DOMAIN original.inst
  <2>1. IsPairs(s, V, Nat)
    BY <1>3 DEF IsPairs
  <2> HIDE DEF V, s
  <2> QED
    BY <1>7, <1>8, <2>1, RetargetFacts
<1>10. \A c \in ToSet(s) : c[2] = e => c = s[k]
  BY <1>3, <1>5 DEF Unique, ToSet
<1>11. s[k] \in ToSet(s)
  BY <1>5 DEF ToSet
<1> DEFINE f(a) == <<a[1], IF a[2] = e THEN p ELSE a[2]>>
<1>12. \A a \in o : <<a[1], a[2]>> \in ToSet(s)
  BY <1>4
<1>13. PICK b \in o : s[k] = <<b[1], b[2]>>
  BY <1>4, <1>11
<1> HIDE DEF s, p, e, o
<1>14. ASSUME NEW c \in (ToSet(s) \ {s[k]}) \cup {<<s[k][1], p>>} PROVE c \in {f(a) : a \in o}
  <2>1. CASE c = <<s[k][1], p>>
    <3>1. s[k][1] = b[1] /\ b[2] = e
      BY <1>5, <1>13
    <3>2. c = f(b)
      BY <2>1, <3>1
    <3> QED
      BY <3>2
  <2>2. CASE c \in ToSet(s) \ {s[k]}
    <3>1. PICK a \in o : c = <<a[1], a[2]>>
      BY <1>4, <2>2
    <3>2. a[2] # e
      BY <1>10, <2>2, <3>1
    <3>3. c = f(a)
      BY <3>1, <3>2
    <3> QED
      BY <3>3
  <2> QED
    BY <2>1, <2>2, <1>14
<1>15. ASSUME NEW a \in o PROVE f(a) \in (ToSet(s) \ {s[k]}) \cup {<<s[k][1], p>>}
  <2>1. <<a[1], a[2]>> \in ToSet(s)
    BY <1>12
  <2>2. CASE a[2] = e
    <3>1. <<a[1], a[2]>> = s[k]
      BY <1>10, <2>1, <2>2
    <3>2. s[k][1] = a[1]
      BY <3>1
    <3> QED
      BY <2>2, <3>2
  <2>3. CASE a[2] # e
    <3>1. <<a[1], a[2]>> # s[k]
      BY <1>5, <2>3
    <3> QED
      BY <2>1, <2>3, <3>1
  <2> QED
    BY <2>2, <2>3
<1>16. (ToSet(s) \ {s[k]}) \cup {<<s[k][1], p>>} = {f(a) : a \in o}
  BY <1>14, <1>15
<1> QED
  BY <1>6, <1>9, <1>16 DEF s, p, e, o

LEMMA HoistsRewire ==
    ASSUME Linked, Hoists, Rewire
    PROVE  Hoists'
<1>1. /\ phase = "rewire" /\ phase' = "move" /\ original' = original /\ code' = code /\ preheader' = preheader /\ blocks' = blocks
      /\ loop' = loop /\ loop_invariant' = loop_invariant /\ before' = before /\ after' = after
  BY DEF Rewire, loop_vars
<1>2. /\ loop \in Loops /\ loop \notin Rewired /\ preheader[loop] \in Added /\ loop \in Places /\ Len(succ_bbs') = Len(succ_bbs)
  BY RewireIs
<1>3. /\ Graph' = Graph /\ Places' = Places /\ Now' = Now /\ Added' = Added /\ Loops' = Loops
      /\ Rewired' = Rewired \cup {loop} /\ \A l \in Loops : Within(l)' = Within(l)
  BY <1>1, <1>2, LinkedRewire DEF Graph, Places, Now, Added, Count
<1>4. /\ \A i \in DOMAIN inst : Op(i)' = Op(i)
      /\ \A i \in DOMAIN inst : Op(i) # "phi" \/ i \notin ToSet(code[loop]) => inst'[i] = inst[i]
  BY RewireInst
<1>5. Hoisted' = Hoisted
  BY <1>1, <1>3 DEF Hoisted
<1>6. CodeWas'
  BY <1>1, <1>3, <1>5 DEF Hoists, CodeWas
<1>7. \A b \in Now : code[b] \in Seq(DOMAIN inst) /\ ToSet(code[b]) \subseteq DOMAIN inst
  <2> TAKE b \in Now
  <2>1. code[b] \in Seq(DOMAIN inst)
    BY Shape DEF Linked, CodeIs
  <2> QED
    BY <2>1 DEF ToSet
<1>8. \A h \in Loops : preheader[h] # NoBlock =>
         preheader[h] \in Now /\ \A i \in ToSet(code[preheader[h]]) : HasLeft(h, i) /\ Harmless(h)
  BY Shape DEF Hoists, Left, Linked, Tables
<1>9. ASSUME NEW b \in Added, NEW i \in ToSet(code[b]) PROVE i \in DOMAIN inst /\ Op(i) # "phi" /\ inst'[i] = inst[i]
  <2>1. PICK h \in Loops : preheader[h] = b
    BY DEF Linked, Tables
  <2>2. b # NoBlock /\ b \in Now
    BY Shape DEF Linked
  <2>3. HasLeft(h, i) /\ i \in DOMAIN inst
    BY <1>7, <1>8, <1>9, <2>1, <2>2
  <2>4. inst'[i] = inst[i] /\ Op(i) # "phi"
    BY <1>4, <2>3 DEF HasLeft
  <2> QED
    BY <2>3, <2>4
<1>10. InOrder'
  <2>1. ASSUME NEW b \in Added, NEW j \in DOMAIN code[b], NEW k \in DOMAIN code[b], code[b][j] \in ToSet(inst'[code[b][k]].args)
        PROVE  j < k
    <3>1. code[b][k] \in ToSet(code[b])
      BY DEF ToSet
    <3>2. code[b][j] \in Args(code[b][k])
      BY <1>9, <2>1, <3>1 DEF Args
    <3> QED
      BY <3>2 DEF Hoists, InOrder, Ordered
  <2> QED
    BY <1>1, <1>3, <2>1 DEF InOrder, Ordered, Args
<1>11. FoundInOrder'
  <2>1. Within(loop)' = Within(loop)
    <3>1. PICK l \in Loops : l = loop /\ l = loop'
      BY <1>1, <1>2
    <3>2. Within(l)' = Within(l)
      BY <1>3
    <3>3. Within(loop)' = Within(l)'
      BY <1>1, <3>1 DEF Within, Body, inner, Loops
    <3> QED
      BY <3>1, <3>2, <3>3
  <2>2. ASSUME NEW k \in DOMAIN loop_invariant PROVE inst'[loop_invariant[k]].args = inst[loop_invariant[k]].args
    <3>1. loop_invariant[k] \in ToSet(loop_invariant) /\ loop_invariant[k] \in DOMAIN inst
      BY <2>2 DEF Linked, Found, ToSet
    <3>2. Op(loop_invariant[k]) # "phi"
      BY <3>1 DEF Linked, Found
    <3> QED
      BY <1>4, <3>1, <3>2
  <2>3. \A k \in DOMAIN loop_invariant : ToSet(inst'[loop_invariant[k]].args) \cap Within(loop) \subseteq {loop_invariant[j] : j \in 1 .. k - 1}
    BY <2>2 DEF Hoists, FoundInOrder, Args
  <2> QED
    BY <1>1, <2>1, <2>3 DEF FoundInOrder, Args
<1>12. Left'
  <2> SUFFICES ASSUME NEW h \in Loops, preheader[h] # NoBlock, NEW i \in ToSet(code[preheader[h]])
               PROVE  HasLeft(h, i)' /\ Harmless(h)'
    BY <1>1, <1>3 DEF Left
  <2>1. HasLeft(h, i) /\ Harmless(h) /\ i \in DOMAIN inst /\ preheader[h] \in Added
    BY <1>7, <1>8 DEF Linked, Tables
  <2>2. inst'[i] = inst[i]
    BY <1>4, <2>1 DEF HasLeft
  <2> QED
    BY <1>1, <1>3, <2>1, <2>2 DEF HasLeft, Harmless, Op, Args
<1>13. PhisWere'
  <2> SUFFICES ASSUME NEW b \in Places, NEW i \in ToSet(code[b]), Op(i)' = "phi"
               PROVE  ToSet(inst'[i].args) = {<<a[1], Source(b, a[2])'>> : a \in ToSet(original.inst[i].args)}
    BY <1>1, <1>3 DEF PhisWere, Source
  <2>0. b \in Now /\ i \in DOMAIN inst /\ Op(i) = "phi"
    BY <1>4, <1>7, Shape DEF Linked
  <2>1. CASE b = loop
    <3>1. \A c : Source(b, c)' = IF c = Entry(Graph, loop) THEN preheader[loop] ELSE c
      BY <1>1, <1>3, <2>1 DEF Source
    <3> QED
      BY <2>0, <2>1, <3>1, PhisRewired
  <2>2. CASE b # loop
    <3>1. i \notin ToSet(code[loop])
      <4>1. loop \in Now
        BY <1>2, Shape DEF Linked
      <4> QED
        BY <2>0, <2>2, <4>1 DEF Linked, CodeIs
    <3>2. inst'[i] = inst[i]
      BY <1>4, <2>0, <3>1
    <3>3. \A c : Source(b, c)' = Source(b, c)
      BY <1>1, <1>3, <2>2 DEF Source
    <3>4. ToSet(inst[i].args) = {<<a[1], Source(b, a[2])>> : a \in ToSet(original.inst[i].args)}
      BY <2>0 DEF Hoists, PhisWere
    <3> QED
      BY <3>2, <3>3, <3>4
  <2> QED
    BY <2>1, <2>2
<1>14. Untouched'
  BY <1>1 DEF Hoists, Untouched
<1> QED
  BY <1>6, <1>10, <1>11, <1>12, <1>13, <1>14 DEF Hoists

-----------------------------------------------------------------------------
(* The instructions move.                                                    *)
LEMMA HoistsMove ==
    ASSUME Linked, Marks, Hoists, Move
    PROVE  Hoists'
<1> DEFINE p == preheader[loop]
           S == ToSet(loop_invariant)
           D == DOMAIN inst
<1>1. /\ phase = "move" /\ phase' = "traverse" /\ loop_invariant' = <<>>
      /\ original' = original /\ inst' = inst /\ preheader' = preheader /\ before' = before /\ after' = after
      /\ loop \in Loops /\ p \in Added /\ p \in Now /\ Len(succ_bbs') = Len(succ_bbs)
      /\ code'[p] = loop_invariant
      /\ \A b \in Now \ {p} : code'[b] = without(code[b], S) /\ ToSet(code'[b]) = ToSet(code[b]) \ S
  BY MoveIs
<1>2. /\ Loops' = Loops /\ Rewired' = Rewired /\ Graph' = Graph /\ Now' = Now /\ Places' = Places /\ Added' = Added
  BY <1>1, LinkedMove DEF Graph, Places, Added, Count
<1>3. /\ Places \subseteq Now /\ Added = Now \ Places /\ IsLoopGraph(Graph) /\ Loops = Headers(Graph)
      /\ \A b \in Now : code[b] \in Seq(D)
  <2>1. \A b \in Now : code[b] \in Seq(D)
    BY Shape DEF Linked, CodeIs
  <2> QED
    BY <2>1, Shape DEF Linked, Tables
<1>4. /\ loop_invariant \in Seq(D) /\ IsInjective(loop_invariant) /\ S \subseteq Within(loop) /\ code[p] = <<>>
      /\ \A i \in S : Op(i) \notin {"store", "phi", "impure"}
  BY <1>1 DEF Linked, Found, Working
<1> HIDE DEF p, S
<1>5. Hoisted' = Hoisted \cup S
  <2>1. Hoisted' = UNION {ToSet(code'[b]) : b \in Added}
    BY <1>2 DEF Hoisted
  <2>2. \A b \in Added : ToSet(code'[b]) = IF b = p THEN S ELSE ToSet(code[b]) \ S
    BY <1>1, <1>3 DEF S
  <2>3. ToSet(code[p]) = {}
    BY <1>4 DEF ToSet
  <2>4. \A i : i \in UNION {ToSet(code'[b]) : b \in Added} <=> i \in S \/ \E b \in Added : i \in ToSet(code[b])
    <3> TAKE i
    <3>1. ASSUME i \in UNION {ToSet(code'[b]) : b \in Added} PROVE i \in S \/ \E b \in Added : i \in ToSet(code[b])
      BY <2>2, <3>1
    <3>2. ASSUME i \in S PROVE i \in UNION {ToSet(code'[b]) : b \in Added}
      BY <1>1, <2>2, <3>2
    <3>3. ASSUME NEW b \in Added, i \in ToSet(code[b]), i \notin S PROVE i \in UNION {ToSet(code'[c]) : c \in Added}
      <4>1. b # p
        BY <2>3, <3>3
      <4> QED
        BY <2>2, <3>3, <4>1
    <3> QED
      BY <3>1, <3>2, <3>3
  <2>5. Hoisted = UNION {ToSet(code[b]) : b \in Added}
    BY DEF Hoisted
  <2> QED
    BY <2>1, <2>4, <2>5
<1>6. CodeWas'
  <2>1. ASSUME NEW b \in Places PROVE code'[b] = without(original.code[b], Hoisted \cup S)
    <3>1. code'[b] = without(code[b], S)
      BY <1>1, <1>3
    <3>2. code[b] = without(original.code[b], Hoisted)
      BY DEF Hoists, CodeWas
    <3>3. original.code[b] \in Seq(D)
      BY CodeOf
    <3> QED
      BY <3>1, <3>2, <3>3, WithoutTwice
  <2> QED
    BY <1>1, <1>2, <1>5, <2>1 DEF CodeWas
<1>7. InOrder'
  <2>1. ASSUME NEW b \in Added PROVE Ordered(code'[b])
    <3>1. CASE b = p
      <4>1. ASSUME NEW j \in DOMAIN loop_invariant, NEW k \in DOMAIN loop_invariant, loop_invariant[j] \in Args(loop_invariant[k])
            PROVE  j < k
        <5>1. loop_invariant[j] \in Within(loop)
          BY <1>4 DEF S, ToSet
        <5>2. loop_invariant[j] \in {loop_invariant[a] : a \in 1 .. k - 1}
          BY <4>1, <5>1 DEF Hoists, FoundInOrder
        <5>3. PICK a \in 1 .. k - 1 : loop_invariant[j] = loop_invariant[a]
          BY <5>2
        <5>4. k \in Nat /\ j \in Nat /\ a \in DOMAIN loop_invariant /\ a < k
          BY <1>4
        <5>5. a = j
          BY <1>4, <5>3, <5>4 DEF IsInjective
        <5> QED
          BY <5>4, <5>5
      <4> QED
        BY <1>1, <3>1, <4>1 DEF Ordered
    <3>2. CASE b # p
      <4>1. b \in Now \ {p} /\ code[b] \in Seq(D) /\ Ordered(code[b])
        BY <1>3, <3>2 DEF Hoists, InOrder
      <4> QED
        BY <1>1, <4>1, WithoutOrdered
    <3> QED
      BY <3>1, <3>2
  <2> QED
    BY <1>1, <1>2, <2>1 DEF InOrder, Ordered, Args
<1>8. FoundInOrder'
  BY <1>1 DEF FoundInOrder
<1>9. ASSUME NEW h \in Loops PROVE Within(h)' \subseteq Within(h) /\ (h = loop => Within(h)' \cap S = {})
  <2>1. Within(h)' = IF loop \in Natural(Graph, h) \ {h} THEN (Within(h) \ S) \cup S ELSE Within(h) \ S
    BY WithinMoved DEF S
  <2>2. CASE loop \in Natural(Graph, h) /\ loop # h
    <3>1. loop \in inner(h)
      BY <1>1, <1>3, <2>2, BodyIs DEF Linked, Nested
    <3>2. Within(loop) \subseteq Within(h)
      BY <3>1, BodyInside DEF Linked
    <3> QED
      BY <1>4, <2>1, <2>2, <3>2
  <2>3. CASE ~(loop \in Natural(Graph, h) /\ loop # h)
    BY <2>1, <2>3
  <2> QED
    BY <2>2, <2>3
<1>10. ASSUME NEW i \in S PROVE HasLeft(loop, i)' /\ Harmless(loop)'
  <2>1. i \in Within(loop) /\ loop \in Loops
    BY <1>1, <1>4
  <2>2. PICK b \in Natural(Graph, loop) : i \in ToSet(original.code[b])
    BY <2>1, WithinWas DEF Hoists
  <2>3. Args(i) \cap Within(loop) \subseteq S
    <3>1. PICK k \in DOMAIN loop_invariant : i = loop_invariant[k]
      BY DEF S, ToSet
    <3>2. Args(i) \cap Within(loop) \subseteq {loop_invariant[j] : j \in 1 .. k - 1}
      BY <3>1 DEF Hoists, FoundInOrder
    <3>3. \A j \in 1 .. k - 1 : j \in DOMAIN loop_invariant
      BY <1>4
    <3> QED
      BY <3>2, <3>3 DEF S, ToSet
  <2>4. Within(loop)' = Within(loop) \ S
    <3>1. PICK h \in Loops : h = loop /\ h = loop'
      BY <2>1, MoveIs
    <3>2. Within(h)' = Within(h) \ S
      BY <3>1, WithinMoved DEF S
    <3>3. Within(loop)' = Within(h)'
      BY <3>1 DEF Within, Body, inner, Loops
    <3> QED
      BY <3>1, <3>2, <3>3
  <2>5. Args(i) \cap Within(loop)' = {}
    BY <2>3, <2>4
  <2>6. \A j \in Within(loop) : Op(j) # "impure"
    <3>1. loop_invariant # <<>>
      BY <1>1 DEF Marks
    <3> QED
      BY <3>1 DEF Marks
  <2>7. ASSUME NEW c \in Natural(Graph, loop), NEW j \in ToSet(original.code[c]) PROVE original.inst[j].op # "impure"
    <3>1. c \in Places /\ c \in Body(loop)
      BY <1>1, BodyIs DEF Linked
    <3>2. original.code[c] \in Seq(D)
      BY <3>1, CodeOf
    <3>3. j \in D /\ original.inst[j].op = Op(j)
      <4>1. j \in D
        BY <3>2 DEF ToSet
      <4> QED
        BY <4>1, InstIs
    <3>4. CASE j \in Hoisted
      <4>1. PICK h \in Rewired : HasLeft(h, j)
        BY <3>4, HoistedFrom DEF Hoists
      <4> QED
        BY <3>3, <4>1 DEF HasLeft
    <3>5. CASE j \notin Hoisted
      <4>1. j \in ToSet(code[c])
        BY <3>1, <3>5, CodeNow DEF Hoists
      <4>2. j \in Within(loop)
        BY <3>1, <4>1 DEF Within
      <4> QED
        BY <2>6, <3>3, <4>2
    <3> QED
      BY <3>4, <3>5
  <2>8. loop' = loop
    BY MoveIs
  <2>9. Within(loop)' = {j \in Within(loop) : j \notin S}
    BY <2>4
  <2>10. HasLeft(loop, i)'
    BY <1>1, <1>2, <1>4, <2>2, <2>5, <2>8 DEF HasLeft, Op, Args
  <2>11. Harmless(loop)'
    BY <1>1, <1>2, <2>7, <2>8 DEF Harmless
  <2> QED
    BY <2>10, <2>11
<1>11. ASSUME NEW h \in Loops, h # loop, preheader[h] # NoBlock, NEW i \in ToSet(code'[preheader[h]])
       PROVE  HasLeft(h, i)' /\ Harmless(h)'
  <2>1. preheader[h] \in Now \ {p}
    BY <1>1, <1>3, <1>11 DEF Linked, Tables, p
  <2>2. i \in ToSet(code[preheader[h]])
    BY <1>1, <1>11, <2>1
  <2>3. HasLeft(h, i) /\ Harmless(h)
    BY <1>11, <2>2 DEF Hoists, Left
  <2>4. Within(h)' \subseteq Within(h)
    BY <1>9
  <2> QED
    BY <1>1, <1>2, <2>3, <2>4 DEF HasLeft, Harmless, Op, Args
<1>12. Left'
  <2> SUFFICES ASSUME NEW h \in Loops, preheader[h] # NoBlock, NEW i \in ToSet(code'[preheader[h]])
               PROVE  HasLeft(h, i)' /\ Harmless(h)'
    BY <1>1, <1>2 DEF Left
  <2>1. CASE h = loop
    <3>1. i \in S
      BY <1>1, <2>1 DEF p, S
    <3>2. HasLeft(loop, i)' /\ Harmless(loop)' /\ loop' = loop
      BY <1>10, <3>1, MoveIs
    <3> QED
      BY <2>1, <3>2 DEF HasLeft, Harmless, Within, Body, inner
  <2>2. CASE h # loop
    BY <1>11, <2>2
  <2> QED
    BY <2>1, <2>2
<1>13. PhisWere'
  <2> SUFFICES ASSUME NEW b \in Places, NEW i \in ToSet(code'[b]), Op(i) = "phi"
               PROVE  ToSet(inst[i].args) = {<<a[1], Source(b, a[2])'>> : a \in ToSet(original.inst[i].args)}
    BY <1>1, <1>2 DEF PhisWere, Source, Op
  <2>1. b \in Now \ {p}
    BY <1>1, <1>3
  <2>2. i \in ToSet(code[b])
    BY <1>1, <2>1
  <2>3. ToSet(inst[i].args) = {<<a[1], Source(b, a[2])>> : a \in ToSet(original.inst[i].args)}
    BY <2>2 DEF Hoists, PhisWere
  <2>4. \A c : Source(b, c)' = Source(b, c)
    BY <1>1, <1>2 DEF Source
  <2> QED
    BY <2>3, <2>4
<1>14. Untouched'
  BY <1>1 DEF Hoists, Untouched
<1> QED
  BY <1>6, <1>7, <1>8, <1>12, <1>13, <1>14 DEF Hoists

-----------------------------------------------------------------------------
(* The machine before the call, and the block it stands before.              *)
LEMMA MachineIs ==
    ASSUME NEW ins
    PROVE  LET m == Machine(ins)
           IN  IsMachine(m, DOMAIN ins) /\ m.at = 1 /\ m.from = NoBlock
<1> DEFINE n == Cardinality(Cells)
           T == 0 .. n - 1
           f == CHOOSE f \in [Cells -> 0 .. Modulus - 1] : IsInjective(f)
           m == Machine(ins)
<1>1. IsFiniteSet(Cells) /\ n \in Nat /\ n <= Modulus /\ Modulus \in Nat
  BY LicmAssumption, FS_CardinalityType
<1>2. IsFiniteSet(T) /\ Cardinality(T) = n
  <2>1. 0 \in Int /\ n - 1 \in Int
    BY <1>1
  <2>2. IsFiniteSet(T) /\ Cardinality(T) = IF 0 > n - 1 THEN 0 ELSE (n - 1) - 0 + 1
    BY <2>1, FS_Interval
  <2> QED
    BY <1>1, <2>2
<1> HIDE DEF n
<1>3. PICK b \in Bijection(Cells, T) : TRUE
  <2>1. ExistsBijection(Cells, T)
    BY <1>1, <1>2, FS_SameCardinalityBij DEF n
  <2> QED
    BY <2>1 DEF ExistsBijection
<1>4. b \in [Cells -> T] /\ IsInjective(b)
  BY <1>3 DEF Bijection, Injection
<1>5. T \subseteq 0 .. Modulus - 1
  BY <1>1
<1>6. b \in [Cells -> 0 .. Modulus - 1]
  BY <1>4, <1>5
<1>7. f \in [Cells -> 0 .. Modulus - 1]
  BY <1>4, <1>6
<1>8. m = [at |-> 1, from |-> NoBlock, env |-> [i \in DOMAIN ins |-> 0], mem |-> f, given |-> 0]
  BY DEF Machine
<1> HIDE DEF f, m
<1>9. m.at = 1 /\ m.from = NoBlock /\ m.env = [i \in DOMAIN ins |-> 0] /\ m.mem = f /\ m.given = 0
  BY <1>8
<1>10. IsMachine(m, DOMAIN ins)
  BY <1>7, <1>8, <1>9 DEF IsMachine
<1> QED
  BY <1>9, <1>10 DEF m

LEMMA FirstIsOutside ==
    ASSUME NEW g, IsLoopGraph(g), NEW h \in Headers(g)
    PROVE  1 \notin Natural(g, h)
<1> SUFFICES ASSUME 1 \in Natural(g, h) PROVE FALSE
  OBVIOUS
<1> DEFINE dom == DominatedBy(g, 1)
<1>1. IsFlowGraph(g, 1) /\ h \in All(g, 1) /\ 1 \in dom[h]
  BY HeaderFacts DEF IsLoopGraph
<1>2. h = 1
  BY <1>1, DomValue, Avoiding
<1>3. Entry(g, h) \in All(g, 1) /\ Entry(g, h) \notin dom[h]
  BY EntryFacts DEF IsLoopGraph
<1> QED
  BY <1>1, <1>2, <1>3, DomValue

LEMMA CallAlong ==
    ASSUME Linked, Hoists, phase = "traverse"
    PROVE  Along(before, after)
<1>1. before = Machine(original.inst) /\ after = before
  BY DEF Hoists, Untouched
<1>2. DOMAIN inst = DOMAIN original.inst
  BY DEF Linked, CodeIs
<1>3. IsMachine(before, DOMAIN inst) /\ before.at = 1 /\ before.from = NoBlock
  BY <1>1, <1>2, MachineIs
<1>4. /\ IsLoopGraph(Graph) /\ 1 \in Places /\ NoBlock \notin Places /\ DOMAIN Graph = Places
      /\ Rewired \subseteq Headers(Graph)
  <2>1. /\ IsLoopGraph(Graph) /\ Count \in Nat /\ Count >= 1 /\ NoBlock \notin Now /\ Places \subseteq Now
        /\ Loops = Headers(Graph) /\ DOMAIN Graph = Places /\ Len(Graph) = Count
    BY Shape DEF Linked, Tables
  <2> QED
    BY <2>1 DEF Places, Rewired
<1>5. \A h \in Loops : ~Entering(before, h)
  <2> SUFFICES ASSUME NEW h \in Rewired PROVE NoBlock # Entry(Graph, h)
    BY <1>3 DEF Entering
  <2>1. Entry(Graph, h) \in Places
    BY <1>4, EntryFacts
  <2> QED
    BY <1>4, <2>1
<1>6. Beside(before, after)
  BY <1>1, <1>5 DEF Beside
<1>7. OnTheWay(before, after)
  BY <1>1, <1>3, <1>4 DEF OnTheWay
<1>8. \A h \in Rewired : before.at \notin Natural(Graph, h)
  BY <1>3, <1>4, FirstIsOutside
<1> QED
  BY <1>1, <1>3, <1>6, <1>7, <1>8 DEF Along, SameValues

-----------------------------------------------------------------------------
(* The two functions side by side.                                           *)
LEMMA SimulatesNext ==
    ASSUME Linked, Marks, Hoists, Simulates, Quiet(original), [Next]_vars
    PROVE  Simulates'
<1>1. CASE Licm /\ ~Call
  BY <1>1 DEF Licm, TraverseLoop, Mark, Marked, Rewire, Move, Simulates
<1>2. CASE Call
  <2>1. phase = "traverse" /\ UNCHANGED <<original, ir_vars, loop_vars>> /\ before' = before /\ after' = after
    BY <1>2 DEF Call
  <2>2. PICK u, v : u = before' /\ v = after'
    OBVIOUS
  <2>3. Along(u, v)
    BY <2>1, <2>2, CallAlong
  <2> QED
    BY <2>1, <2>2, <2>3, AlongStays DEF Simulates
<1>3. ASSUME NEW k \in 1 .. 2, Block(k) PROVE Simulates'
  <2> DEFINE b == before.at
  <2>1. /\ phase = "execute" /\ b = after.at /\ k \in DOMAIN targets(original.term[b])
        /\ before' = Leave(before, original.code[b], original.inst, original.term[b], k)
        /\ after' = Leave(after, code[b], inst, term[b], k)
        /\ UNCHANGED <<original, ir_vars, loop_vars>>
    BY <1>3 DEF Block
  <2>2. PICK u, v : u = before' /\ v = after'
    OBVIOUS
  <2>3. Along(u, v)
    BY <2>1, <2>2, BlockAlong DEF Hoists
  <2> QED
    BY <2>1, <2>2, <2>3, AlongStays DEF Simulates
<1>4. CASE Preheader
  <2>1. /\ phase = "execute" /\ after.at > Count
        /\ after' = [Leave(after, code[after.at], inst, term[after.at], 1) EXCEPT !.given = after.given]
        /\ before' = before /\ UNCHANGED <<original, ir_vars, loop_vars>>
    BY <1>4 DEF Preheader
  <2>2. PICK u, v : u = before' /\ v = after'
    OBVIOUS
  <2>3. Along(u, v)
    BY <2>1, <2>2, PreheaderAlong DEF Hoists
  <2> QED
    BY <2>1, <2>2, <2>3, AlongStays DEF Simulates
<1>5. CASE Return
  BY <1>5 DEF Return, Simulates
<1>6. CASE UNCHANGED vars
  <2>1. UNCHANGED <<original, ir_vars, loop_vars>> /\ phase' = phase /\ before' = before /\ after' = after
    BY <1>6 DEF vars
  <2>2. PICK u, v : u = before' /\ v = after'
    OBVIOUS
  <2>3. phase' = "execute" => Along(u, v)
    BY <2>1, <2>2 DEF Simulates
  <2> QED
    BY <2>1, <2>2, <2>3, AlongStays DEF Simulates
<1> QED
  BY <1>1, <1>2, <1>3, <1>4, <1>5, <1>6 DEF Next

LEMMA ReturnedNext ==
    ASSUME Linked, Hoists, Simulates, Returned, Quiet(original), [Next]_vars
    PROVE  Returned'
<1>1. CASE Return
  <2> DEFINE b == before.at
             w == Run(original.inst, original.code[b], Entered(original.inst, original.code[b], before))
             z == Run(inst, code[b], Entered(inst, code[b], after))
             D == DOMAIN inst
  <2>1. /\ phase = "execute" /\ b = after.at /\ original.term[b].op = "ret"
        /\ before' = Executed(original.inst, original.code[b], original.term[b], before)
        /\ after' = Executed(inst, code[b], term[b], after)
    BY <1>1 DEF Return
  <2>2. b \in Places
    BY <2>1, CameFrom
  <2>3. Alike(w, z, b, Mute \cup Above(b))
    BY <2>1, <2>2, EnterAlike, BlockSame DEF Hoists
  <2>4. /\ IsMachine(w, D) /\ IsMachine(z, D) /\ w.mem = z.mem /\ w.at = z.at /\ SameValues(w, z, Above(b))
    BY <2>3 DEF Alike, SameValues
  <2>5. /\ Leaves(w, before', Leave(before, original.code[b], original.inst, original.term[b], 1), original.term[b], before, D, 1)
        /\ Leaves(z, after', Leave(after, code[b], inst, term[b], 1), term[b], after, D, 1)
    BY <2>1, <2>4, LeaveIs
  <2> HIDE DEF w, z
  <2>6. /\ before'.mem = w.mem /\ before'.at = w.at /\ before'.given = Given(original.term[b], w)
        /\ after'.mem = z.mem /\ after'.at = z.at /\ after'.given = Given(term[b], z)
    BY <2>5 DEF Leaves
  <2>7. Given(original.term[b], w) = Given(term[b], z)
    BY <2>1, <2>2, <2>4, GivenSame
  <2> QED
    BY <2>4, <2>6, <2>7 DEF Returned
<1>2. CASE Licm \/ (\E k \in 1 .. 2 : Block(k)) \/ Preheader
  <2>1. phase' # "returned"
    BY <1>2 DEF Licm, TraverseLoop, Mark, Marked, Rewire, Move, Call, Block, Preheader
  <2> QED
    BY <2>1 DEF Returned
<1>3. CASE UNCHANGED vars
  BY <1>3 DEF vars, Returned
<1> QED
  BY <1>1, <1>2, <1>3 DEF Next

LEMMA HoistsNext ==
    ASSUME Linked, Marks, Hoists, [Next]_vars
    PROVE  Hoists'
<1>1. ASSUME NEW h \in Loops, TraverseLoop(h) PROVE Hoists'
  BY <1>1, HoistsTraverse
<1>2. ASSUME NEW i \in DOMAIN inst, Mark(i) PROVE Hoists'
  BY <1>2, HoistsMark
<1>3. CASE Marked
  BY <1>3, HoistsMarked
<1>4. CASE Rewire
  BY <1>4, HoistsRewire
<1>5. CASE Move
  BY <1>5, HoistsMove
<1>6. CASE Call \/ (\E k \in 1 .. 2 : Block(k)) \/ Preheader \/ Return \/ UNCHANGED vars
  BY <1>6, HoistsAfter
<1> QED
  BY <1>1, <1>2, <1>3, <1>4, <1>5, <1>6 DEF Next, Licm

LEMMA SameEffectsFollow ==
    ASSUME Linked, Hoists, Simulates, Returned
    PROVE  SameEffects
<1>1. CASE phase \notin {"execute", "returned"}
  BY <1>1 DEF Hoists, Untouched, SameEffects
<1>2. CASE phase = "returned"
  BY <1>2 DEF Returned, SameEffects
<1>3. CASE phase = "execute"
  <2>1. before.mem = after.mem /\ before.given = after.given /\ Beside(before, after)
    BY <1>3 DEF Simulates, Along
  <2>2. CASE after.at = before.at
    BY <2>1, <2>2 DEF SameEffects
  <2>3. CASE \E h \in Loops : Entering(before, h) /\ after.at = preheader[h]
    <3>1. PICK h \in Loops : h \in Rewired /\ before.at = h /\ after.at = preheader[h]
      BY <2>3 DEF Entering
    <3>2. preheader[h] # NoBlock /\ preheader[h] \in Added
      BY <3>1 DEF Rewired, Linked, Tables
    <3>3. after.at > Count
      <4>1. Count \in Nat
        BY Shape DEF Linked
      <4> QED
        BY <3>1, <3>2, <4>1 DEF Added
    <3>4. \A l \in Loops : preheader[l] = after.at => l = h
      BY <3>1, <3>2 DEF Linked, Tables
    <3>5. h = CHOOSE l \in Loops : preheader[l] = after.at
      BY <3>1, <3>4
    <3> QED
      BY <2>1, <3>1, <3>3, <3>5 DEF SameEffects
  <2> QED
    BY <2>1, <2>2, <2>3 DEF Beside
<1> QED
  BY <1>1, <1>2, <1>3

(* Moving the instructions changes nothing that can be seen, however often   *)
(* and on whichever path the loops are gone through, if no loop stores what  *)
(* a load of that loop reads.                                                *)
THEOREM EffectsAlwaysSame ==
    ASSUME \A p \in Programs : Quiet(p)
    PROVE  Spec => []SameEffects
<1> DEFINE Inv == Hoists /\ Simulates /\ Returned
<1>1. Init => Inv
  <2> SUFFICES ASSUME Init PROVE Inv
    OBVIOUS
  <2>1. phase = "traverse"
    BY DEF Init
  <2> QED
    BY <2>1, HoistsInit DEF Simulates, Returned
<1>2. Linked /\ Marks /\ Inv /\ [Next]_vars => Inv'
  <2> SUFFICES ASSUME Linked, Marks, Inv, [Next]_vars PROVE Inv'
    OBVIOUS
  <2>1. Quiet(original)
    BY DEF Linked, Types
  <2>2. Hoists'
    BY HoistsNext
  <2>3. Simulates'
    BY <2>1, SimulatesNext
  <2>4. Returned'
    BY <2>1, ReturnedNext
  <2> QED
    BY <2>2, <2>3, <2>4
<1>3. Linked /\ Marks /\ Inv => SameEffects
  BY SameEffectsFollow
<1>4. Spec => [](Linked /\ Marks)
  BY IsSettled
<1> QED
  BY <1>1, <1>2, <1>3, <1>4, PTL DEF Spec
=============================================================================
