------------------------------- MODULE MapProofs -------------------------------
(***************************************************************************)
(* Proofs about MindMaps, TreeDrawing and FlowDrawing: a mind map is a     *)
(* tree and what is drawn of it can be read.  The drawing as a tree: each  *)
(* child has a band of its own beside its parent's box, so boxes do not    *)
(* touch; no line is too wide and a cut is said.  As a flowchart: the walk *)
(* over the arrows is a depth-first one, the order in which it leaves the  *)
(* symbols is a height that falls along all arrows but those of a cycle,   *)
(* so each symbol has a layer; a packed layer keeps its slots apart.  The  *)
(* map: each node has a height that falls on the way up, an import numbers *)
(* a parent before its children, and every node arrives under its parent.  *)
(***************************************************************************)
EXTENDS MindMaps, TreeDrawing, FlowDrawing, FiniteSetTheorems, SequenceTheorems, WellFoundedInduction, TLAPS

-----------------------------------------------------------------------------
(* Least elements, counting up, and iterated functions.                    *)

(* A set of numbers that is not empty has a least one.                     *)
LEMMA LeastOne ==
  ASSUME NEW S \in SUBSET Nat, S # {}
  PROVE  \E t \in S : \A s \in S : t <= s
<1>1. PICK t \in S : \A s \in S : ~(<<s, t>> \in OpToRel(<, Nat))
  BY NatLessThanWellFounded, WFMin, ZenonT(30)
<1>2. \A s \in S : t <= s
  <2> TAKE s \in S
  <2>1. ~(<<s, t>> \in {p \in Nat \X Nat : p[1] < p[2]})
    BY <1>1, Zenon DEF OpToRel
  <2>2. s \in Nat /\ t \in Nat /\ ~(s < t)
    BY <2>1
  <2> QED BY <2>2
<1> QED BY <1>2

(* What holds of 0 and goes on from each number holds of all.              *)
LEMMA CountingUp ==
  ASSUME NEW S \in SUBSET Nat, 0 \in S, \A n \in S : n + 1 \in S
  PROVE  S = Nat
<1>1. SUFFICES ASSUME Nat \ S # {} PROVE FALSE
  OBVIOUS
<1>2. PICK t \in Nat \ S : \A s \in Nat \ S : t <= s
  BY <1>1, LeastOne
<1>3. t # 0 /\ t - 1 \in Nat /\ ~(t <= t - 1) /\ (t - 1) + 1 = t
  OBVIOUS
<1> QED BY <1>2, <1>3

(* A function on the first n numbers is a sequence of that length.         *)
LEMMA FunctionIsSeq ==
  ASSUME NEW S, NEW n \in Nat, NEW f \in [1 .. n -> S]
  PROVE  f \in Seq(S) /\ Len(f) = n
<1>1. f \in Seq(S)
  <2>1. [1 .. n -> S] \in {[1 .. m -> S] : m \in Nat}
    OBVIOUS
  <2>2. f \in UNION {[1 .. m -> S] : m \in Nat}
    BY <2>1
  <2> QED BY <2>2, SeqDef
<1>2. 1 .. Len(f) = 1 .. n /\ Len(f) \in Nat
  BY <1>1, LenProperties
<1> QED BY <1>1, <1>2

Iterated(p, v0, N, G) == p[0] = v0 /\ \A k \in 1 .. N : p[k] = G[<<k, p[k - 1]>>]

(* A step that can be taken from anywhere can be taken N times.            *)
LEMMA PathExists ==
  ASSUME NEW V, NEW v0 \in V, NEW N \in Nat, NEW G \in [(1 .. N) \X V -> V]
  PROVE  \E p \in [0 .. N -> V] : Iterated(p, v0, N, G)
<1> DEFINE Follows(p, n) == p[0] = v0 /\ \A k \in 1 .. n : p[k] = G[<<k, p[k - 1]>>]
           S == {n \in Nat : n <= N => \E p \in [0 .. n -> V] : Follows(p, n)}
<1>1. 0 \in S
  <2>1. [k \in 0 .. 0 |-> v0] \in [0 .. 0 -> V] /\ Follows([k \in 0 .. 0 |-> v0], 0)
    OBVIOUS
  <2> QED BY <2>1
<1>2. ASSUME NEW n \in S PROVE n + 1 \in S
  <2> SUFFICES ASSUME n + 1 <= N PROVE \E p \in [0 .. n + 1 -> V] : Follows(p, n + 1)
    OBVIOUS
  <2>1. n \in Nat /\ n <= N /\ n + 1 \in 1 .. N
    OBVIOUS
  <2>2. PICK p \in [0 .. n -> V] : Follows(p, n)
    BY <2>1
  <2> DEFINE q == [k \in 0 .. n + 1 |-> IF k = n + 1 THEN G[<<n + 1, p[n]>>] ELSE p[k]]
  <2>3. p[n] \in V /\ G[<<n + 1, p[n]>>] \in V
    BY <2>1
  <2>4. q \in [0 .. n + 1 -> V]
    BY <2>1, <2>3
  <2>5. Follows(q, n + 1)
    <3>1. q[0] = v0
      BY <2>1, <2>2
    <3>2. ASSUME NEW k \in 1 .. n + 1 PROVE q[k] = G[<<k, q[k - 1]>>]
      <4>1. CASE k = n + 1
        <5>1. q[k] = G[<<n + 1, p[n]>>] /\ q[k - 1] = p[n]
          BY <4>1, <2>1
        <5> QED BY <5>1, <4>1
      <4>2. CASE k # n + 1
        <5>1. k \in 1 .. n /\ q[k] = p[k] /\ q[k - 1] = p[k - 1]
          BY <4>2, <2>1
        <5> QED BY <5>1, <2>2
      <4> QED BY <4>1, <4>2
    <3> QED BY <3>1, <3>2
  <2> HIDE DEF q
  <2> QED BY <2>4, <2>5
<1>3. S \in SUBSET Nat
  OBVIOUS
<1> HIDE DEF S
<1>4. N \in S
  BY <1>1, <1>2, <1>3, CountingUp
<1> QED BY <1>4 DEF S, Iterated

(* Every bounded set of numbers that is not empty has its largest: turned  *)
(* round, it is a set of numbers with a least one.                         *)
LEMMA LargestIsLargest ==
  ASSUME NEW N \in Nat, NEW S \in SUBSET (0 .. N), S # {}
  PROVE  Max(S) \in S /\ \A v \in S : v <= Max(S)
<1> DEFINE T == {N - u : u \in S}
<1>1. \A u \in S : u \in Int /\ N - u \in Nat
  OBVIOUS
<1>2. T \subseteq Nat /\ T # {}
  BY <1>1
<1>3. PICK t \in T : \A s \in T : ~(<<s, t>> \in OpToRel(<, Nat))
  BY <1>2, NatLessThanWellFounded, WFMin, ZenonT(30)
<1>4. \A s \in T : t <= s
  <2> TAKE s \in T
  <2>1. ~(<<s, t>> \in {p \in Nat \X Nat : p[1] < p[2]})
    BY <1>3, Zenon DEF OpToRel
  <2>2. s \in Nat /\ t \in Nat /\ ~(s < t)
    BY <2>1, <1>2
  <2> QED BY <2>2
<1>5. PICK u \in S : t = N - u
  OBVIOUS
<1>6. \A v \in S : v <= u
  <2> TAKE v \in S
  <2>1. N - u <= N - v
    BY <1>4, <1>5
  <2>2. u \in Int /\ v \in Int
    BY <1>1
  <2> HIDE DEF T
  <2> QED BY <2>1, <2>2, SMT
<1> QED BY <1>1, <1>6 DEF Max

-----------------------------------------------------------------------------
(* What is defined by recursion, and sums over finite sets.                *)

(* A function that is defined by recursion along a rank exists: applied as *)
(* often as there are ranks, what defines it has settled.                  *)
Descends(D, V, G, rank) ==
    \A g, h \in [D -> V], d \in D : (\A e \in D : rank[e] < rank[d] => g[e] = h[e]) => G[g][d] = G[h][d]

Fixes(g, G) == G[g] = g

(* A function by recursion: where the value at d hangs on values of lower  *)
(* rank only, applying the definition often enough settles on a function   *)
(* that satisfies it.                                                      *)
LEMMA Settles ==
  ASSUME NEW D, NEW V, NEW G \in [[D -> V] -> [D -> V]], NEW rank \in [D -> Nat], NEW N \in Nat,
         \A d \in D : rank[d] <= N, NEW v0 \in V, Descends(D, V, G, rank)
  PROVE  \E g \in [D -> V] : Fixes(g, G)
<1> DEFINE M == N + 2
           H == [q \in (1 .. M) \X [D -> V] |-> G[q[2]]]
           g0 == [d \in D |-> v0]
<1>1. M \in Nat /\ H \in [(1 .. M) \X [D -> V] -> [D -> V]] /\ g0 \in [D -> V]
  OBVIOUS
<1>2. \A k \in 1 .. M, g \in [D -> V] : H[<<k, g>>] = G[g]
  OBVIOUS
<1> HIDE DEF H, g0
<1>3. PICK p \in [0 .. M -> [D -> V]] : Iterated(p, g0, M, H)
  BY <1>1, PathExists
<1>4. \A k \in 1 .. M : p[k - 1] \in [D -> V] /\ p[k] = G[p[k - 1]]
  <2> TAKE k \in 1 .. M
  <2>1. k - 1 \in 0 .. M
    BY <1>1
  <2>2. p[k - 1] \in [D -> V]
    BY <2>1
  <2> QED BY <2>2, <1>2, <1>3 DEF Iterated
<1> DEFINE S == {n \in Nat : n <= N + 1 => \A d \in D : rank[d] < n => p[n][d] = p[n + 1][d]}
<1>5. 0 \in S
  OBVIOUS
<1>6. ASSUME NEW n \in S PROVE n + 1 \in S
  <2> SUFFICES ASSUME n + 1 <= N + 1, NEW d \in D, rank[d] < n + 1 PROVE p[n + 1][d] = p[n + 2][d]
    OBVIOUS
  <2>1. n \in Nat /\ n + 1 \in 1 .. M /\ n + 2 \in 1 .. M /\ (n + 1) - 1 = n /\ (n + 2) - 1 = n + 1 /\ n <= N + 1
    OBVIOUS
  <2>2. p[n + 1] = G[p[n]] /\ p[n + 2] = G[p[n + 1]] /\ p[n] \in [D -> V] /\ p[n + 1] \in [D -> V]
    BY <1>4, <2>1
  <2>3. \A e \in D : rank[e] < rank[d] => p[n][e] = p[n + 1][e]
    <3> TAKE e \in D
    <3>1. rank[e] \in Nat /\ rank[d] \in Nat
      OBVIOUS
    <3>2. rank[e] < rank[d] => rank[e] < n
      BY <3>1, <2>1
    <3> QED BY <3>2, <2>1
  <2>4. G[p[n]][d] = G[p[n + 1]][d]
    BY <2>2, <2>3, Zenon DEF Descends
  <2> HIDE DEF S
  <2> QED BY <2>2, <2>4
<1>7. S \in SUBSET Nat
  OBVIOUS
<1>8. N + 1 \in S
  <2> HIDE DEF S
  <2>1. S = Nat
    BY <1>5, <1>6, <1>7, CountingUp
  <2> QED BY <2>1
<1>9. \A d \in D : p[N + 1][d] = p[N + 2][d]
  <2> TAKE d \in D
  <2>1. rank[d] \in Nat /\ rank[d] <= N
    OBVIOUS
  <2>2. rank[d] < N + 1 /\ N + 1 <= N + 1
    BY <2>1
  <2> QED BY <1>8, <2>2
<1>10. N + 1 \in 1 .. M /\ N + 2 \in 1 .. M /\ (N + 2) - 1 = N + 1 /\ N + 1 \in 0 .. M
  OBVIOUS
<1>11. p[N + 2] = G[p[N + 1]] /\ p[N + 1] \in [D -> V] /\ G[p[N + 1]] \in [D -> V]
  BY <1>4, <1>10
<1>12. G[p[N + 1]] = p[N + 1]
  <2> HIDE DEF S
  <2> QED BY <1>9, <1>11
<1> QED BY <1>11, <1>12 DEF Fixes

(* Sums over finite sets, as the model takes them.                         *)
Summed(f, S) ==
    CHOOSE sum : sum = [s \in SUBSET S |-> IF s = {} THEN 0
                                           ELSE f[CHOOSE x \in s : TRUE] + sum[s \ {CHOOSE x \in s : TRUE}]]

(* The library's sum over a set, by its recursion over the subsets.        *)
LEMMA SumIs ==
  ASSUME NEW f, NEW S
  PROVE  SumFunctionOnSet(f, S) = Summed(f, S)[S]
BY DEF SumFunctionOnSet, FoldFunctionOnSet, MapThenFoldSet, Summed

(* That recursion has a solution: a subset's sum hangs on that of a        *)
(* smaller one.                                                            *)
LEMMA SummedUnfolds ==
  ASSUME NEW S, IsFiniteSet(S), NEW f, \A k \in S : f[k] \in Int
  PROVE  /\ Summed(f, S)[{}] = 0
         /\ \A s \in SUBSET S : s # {} =>
               Summed(f, S)[s] = f[CHOOSE x \in s : TRUE] + Summed(f, S)[s \ {CHOOSE x \in s : TRUE}]
<1> DEFINE D == SUBSET S
           rank == [s \in D |-> Cardinality(s)]
           N == Cardinality(S)
           Chosen(s) == CHOOSE x \in s : TRUE
           G == [g \in [D -> Int] |-> [s \in D |-> IF s = {} THEN 0 ELSE f[Chosen(s)] + g[s \ {Chosen(s)}]]]
<1>1. \A s \in D : s # {} => Chosen(s) \in s /\ s \ {Chosen(s)} \in D
  OBVIOUS
<1> HIDE DEF Chosen
<1>2. \A s \in D : Cardinality(s) \in Nat /\ Cardinality(s) <= N
  <2> TAKE s \in D
  <2>1. IsFiniteSet(s) /\ Cardinality(s) <= N
    BY FS_Subset
  <2> QED BY <2>1, FS_CardinalityType
<1>3. \A s \in D : s # {} => Cardinality(s \ {Chosen(s)}) < Cardinality(s)
  <2> TAKE s \in D
  <2>1. IsFiniteSet(s)
    BY FS_Subset
  <2> HAVE s # {}
  <2>2. Cardinality(s \ {Chosen(s)}) = Cardinality(s) - 1
    BY <2>1, <1>1, FS_RemoveElement
  <2> QED BY <2>2, <1>2
<1>4. N \in Nat /\ rank \in [D -> Nat] /\ \A d \in D : rank[d] <= N
  BY <1>2, FS_CardinalityType
<1>5. ASSUME NEW g \in [D -> Int] PROVE G[g] \in [D -> Int]
  <2>1. ASSUME NEW s \in D, s # {} PROVE f[Chosen(s)] + g[s \ {Chosen(s)}] \in Int
    <3>1. f[Chosen(s)] \in Int /\ g[s \ {Chosen(s)}] \in Int
      BY <1>1, <2>1
    <3> QED BY <3>1
  <2> QED BY <2>1
<1>6. G \in [[D -> Int] -> [D -> Int]]
  BY <1>5
<1>7. ASSUME NEW g \in [D -> Int], NEW h \in [D -> Int], NEW d \in D,
             \A e \in D : rank[e] < rank[d] => g[e] = h[e]
      PROVE  G[g][d] = G[h][d]
  <2>1. d # {} => g[d \ {Chosen(d)}] = h[d \ {Chosen(d)}]
    BY <1>1, <1>3, <1>7
  <2> QED BY <2>1
<1>8. 0 \in Int
  OBVIOUS
<1> HIDE DEF D, rank, N, G
<1>9. Descends(D, Int, G, rank)
  BY <1>7, Zenon DEF Descends
<1>10. \E g \in [D -> Int] : Fixes(g, G)
  BY ONLY <1>4, <1>6, <1>8, <1>9, Settles
<1>11. PICK g \in [D -> Int] : G[g] = g
  BY <1>10 DEF Fixes
<1>12. \E sum : sum = [s \in D |-> IF s = {} THEN 0 ELSE f[Chosen(s)] + sum[s \ {Chosen(s)}]]
  BY <1>11 DEF G
<1>13. Summed(f, S) = [s \in D |-> IF s = {} THEN 0 ELSE f[Chosen(s)] + Summed(f, S)[s \ {Chosen(s)}]]
  BY <1>12 DEF Summed, D, Chosen
<1>14. {} \in D /\ D = SUBSET S
  BY DEF D
<1> HIDE DEF Summed
<1> QED BY <1>13, <1>14 DEF Chosen

(* What a finite set has if all smaller ones have it, all its subsets      *)
(* have.                                                                   *)
LEMMA SmallerFirst ==
  ASSUME NEW S, IsFiniteSet(S), NEW P,
         \A s \in SUBSET S : (\A t \in SUBSET s : t # s => t \in P) => s \in P
  PROVE  SUBSET S \subseteq P
<1> SUFFICES ASSUME NEW u \in SUBSET S, u \notin P PROVE FALSE
  OBVIOUS
<1> DEFINE C == {Cardinality(s) : s \in {t \in SUBSET S : t \notin P}}
<1>1. \A s \in SUBSET S : IsFiniteSet(s) /\ Cardinality(s) \in Nat
  BY FS_Subset, FS_CardinalityType
<1>2. C \in SUBSET Nat /\ C # {}
  BY <1>1
<1>3. PICK c \in C : \A d \in C : c <= d
  BY <1>2, LeastOne
<1>4. PICK s \in SUBSET S : s \notin P /\ c = Cardinality(s)
  OBVIOUS
<1>5. PICK t \in SUBSET s : t # s /\ t \notin P
  BY <1>4
<1>6. Cardinality(t) < Cardinality(s)
  <2>1. IsFiniteSet(s) /\ t \subseteq s
    BY <1>1
  <2>2. Cardinality(t) <= Cardinality(s) /\ (Cardinality(s) = Cardinality(t) => s = t)
    BY <2>1, FS_Subset
  <2> QED BY <2>2, <1>1, <1>5
<1>7. Cardinality(t) \in C /\ Cardinality(t) \in Nat /\ Cardinality(s) \in Nat
  BY <1>1, <1>5
<1> QED BY <1>3, <1>4, <1>6, <1>7

(* A sum of integers is one.                                               *)
LEMMA SummedInt ==
  ASSUME NEW S, IsFiniteSet(S), NEW f, \A k \in S : f[k] \in Int
  PROVE  \A s \in SUBSET S : Summed(f, S)[s] \in Int
<1> DEFINE P == {s \in SUBSET S : Summed(f, S)[s] \in Int}
<1>1. ASSUME NEW s \in SUBSET S, \A t \in SUBSET s : t # s => t \in P
      PROVE  s \in P
  <2> DEFINE x == CHOOSE x \in s : TRUE
  <2>1. CASE s = {}
    BY <2>1, SummedUnfolds
  <2>2. CASE s # {}
    <3>1. x \in s /\ s \ {x} \in SUBSET s /\ s \ {x} # s
      BY <2>2
    <3>2. Summed(f, S)[s] = f[x] + Summed(f, S)[s \ {x}]
      BY <2>2, SummedUnfolds
    <3>3. f[x] \in Int /\ Summed(f, S)[s \ {x}] \in Int
      BY <3>1, <1>1
    <3> QED BY <3>2, <3>3
  <2> QED BY <2>1, <2>2
<1> HIDE DEF P
<1>2. SUBSET S \subseteq P
  BY <1>1, SmallerFirst
<1> QED BY <1>2 DEF P

(* A sum may take any of its terms first.                                  *)
LEMMA SummedTakes ==
  ASSUME NEW S, IsFiniteSet(S), NEW f, \A k \in S : f[k] \in Int
  PROVE  \A s \in SUBSET S : \A a \in s : Summed(f, S)[s] = f[a] + Summed(f, S)[s \ {a}]
<1> DEFINE Q == Summed(f, S)
           P == {s \in SUBSET S : \A a \in s : Q[s] = f[a] + Q[s \ {a}]}
<1>0. \A s \in SUBSET S : Q[s] \in Int
  BY SummedInt
<1>1. ASSUME NEW s \in SUBSET S, \A t \in SUBSET s : t # s => t \in P
      PROVE  s \in P
  <2> SUFFICES ASSUME NEW a \in s PROVE Q[s] = f[a] + Q[s \ {a}]
    OBVIOUS
  <2> DEFINE x == CHOOSE x \in s : TRUE
  <2>1. x \in s
    OBVIOUS
  <2>2. Q[s] = f[x] + Q[s \ {x}]
    BY SummedUnfolds
  <2> HIDE DEF x, Q
  <2>3. CASE a # x
    <3>1. s \ {x} \in SUBSET s /\ s \ {x} # s /\ s \ {a} \in SUBSET s /\ s \ {a} # s /\ a \in s \ {x} /\ x \in s \ {a}
      BY <2>1, <2>3
    <3>2. Q[s \ {x}] = f[a] + Q[(s \ {x}) \ {a}] /\ Q[s \ {a}] = f[x] + Q[(s \ {a}) \ {x}]
      BY <3>1, <1>1
    <3>3. (s \ {x}) \ {a} = (s \ {a}) \ {x} /\ (s \ {a}) \ {x} \in SUBSET S
      OBVIOUS
    <3>4. f[a] \in Int /\ f[x] \in Int /\ Q[(s \ {a}) \ {x}] \in Int
      BY <1>0, <2>1, <3>3
    <3>5. Q[s] = f[x] + (f[a] + Q[(s \ {a}) \ {x}]) /\ Q[s \ {a}] = f[x] + Q[(s \ {a}) \ {x}]
      BY <2>2, <3>2, <3>3
    <3>6. \A i, j, k \in Int : i + (j + k) = j + (i + k)
      OBVIOUS
    <3> QED BY <3>4, <3>5, <3>6
  <2> QED BY <2>2, <2>3
<1> HIDE DEF P
<1>2. SUBSET S \subseteq P
  BY <1>1, SmallerFirst
<1> QED BY <1>2 DEF P

(* A sum does not look beyond its own terms.                               *)
LEMMA SummedAgrees ==
  ASSUME NEW S, IsFiniteSet(S), NEW f, \A k \in S : f[k] \in Int,
         NEW T \in SUBSET S, NEW g, \A k \in T : g[k] = f[k]
  PROVE  \A s \in SUBSET T : Summed(g, T)[s] = Summed(f, S)[s]
<1> DEFINE P == {s \in SUBSET T : Summed(g, T)[s] = Summed(f, S)[s]}
<1>0. IsFiniteSet(T) /\ \A k \in T : g[k] \in Int
  BY FS_Subset
<1>1. ASSUME NEW s \in SUBSET T, \A t \in SUBSET s : t # s => t \in P
      PROVE  s \in P
  <2> DEFINE x == CHOOSE x \in s : TRUE
  <2>1. CASE s = {}
    BY <2>1, <1>0, SummedUnfolds
  <2>2. CASE s # {}
    <3>1. x \in s /\ s \ {x} \in SUBSET s /\ s \ {x} # s
      BY <2>2
    <3>2. Summed(g, T)[s] = g[x] + Summed(g, T)[s \ {x}]
      <4>1. \A t \in SUBSET T : t # {} =>
               Summed(g, T)[t] = g[CHOOSE y \in t : TRUE] + Summed(g, T)[t \ {CHOOSE y \in t : TRUE}]
        BY <1>0, SummedUnfolds
      <4> QED BY <2>2, <4>1
    <3>3. Summed(f, S)[s] = f[x] + Summed(f, S)[s \ {x}]
      BY <2>2, SummedUnfolds
    <3>4. Summed(g, T)[s \ {x}] = Summed(f, S)[s \ {x}] /\ g[x] = f[x]
      BY <3>1, <1>1
    <3> QED BY <3>2, <3>3, <3>4
  <2> QED BY <2>1, <2>2
<1> HIDE DEF P
<1>2. SUBSET T \subseteq P
  BY <1>0, <1>1, SmallerFirst
<1> QED BY <1>2 DEF P

(* What the library's sum over a finite set of places returns.             *)
LEMMA SumFits ==
  ASSUME NEW S, IsFiniteSet(S), NEW f, \A k \in S : f[k] \in Int
  PROVE  /\ SumFunctionOnSet(f, S) \in Int
         /\ S = {} => SumFunctionOnSet(f, S) = 0
         /\ \A a \in S : SumFunctionOnSet(f, S) = f[a] + SumFunctionOnSet(f, S \ {a})
         /\ \A T \in SUBSET S : SumFunctionOnSet(f, T) = Summed(f, S)[T]
<1>1. SumFunctionOnSet(f, S) \in Int
  BY SumIs, SummedInt
<1>2. S = {} => SumFunctionOnSet(f, S) = 0
  BY SumIs, SummedUnfolds
<1>3. ASSUME NEW T \in SUBSET S PROVE SumFunctionOnSet(f, T) = Summed(f, S)[T]
  BY SumIs, SummedAgrees
<1>4. ASSUME NEW a \in S PROVE SumFunctionOnSet(f, S) = f[a] + SumFunctionOnSet(f, S \ {a})
  <2>1. SumFunctionOnSet(f, S \ {a}) = Summed(f, S)[S \ {a}]
    BY <1>3
  <2>2. Summed(f, S)[S] = f[a] + Summed(f, S)[S \ {a}]
    BY SummedTakes
  <2> QED BY <2>1, <2>2, SumIs
<1> QED BY <1>1, <1>2, <1>3, <1>4

(* Equal terms make equal sums.                                            *)
LEMMA SumAgrees ==
  ASSUME NEW S, IsFiniteSet(S), NEW f, \A k \in S : f[k] \in Int, NEW g, \A k \in S : g[k] = f[k]
  PROVE  SumFunctionOnSet(g, S) = SumFunctionOnSet(f, S)
<1>1. S \in SUBSET S
  OBVIOUS
<1>2. Summed(g, S)[S] = Summed(f, S)[S]
  BY <1>1, SummedAgrees
<1> QED BY <1>2, SumIs

(* More terms that are not negative make no smaller a sum.                 *)
LEMMA SumGrows ==
  ASSUME NEW S, IsFiniteSet(S), NEW f, \A k \in S : f[k] \in Nat, NEW T \in SUBSET S
  PROVE  /\ SumFunctionOnSet(f, T) \in Nat /\ SumFunctionOnSet(f, S) \in Nat
         /\ SumFunctionOnSet(f, T) <= SumFunctionOnSet(f, S)
<1> DEFINE Q == Summed(f, S)
           P == {s \in SUBSET S : Q[s] \in Nat /\ \A t \in SUBSET s : Q[t] \in Nat /\ Q[t] <= Q[s]}
<1>0. \A k \in S : f[k] \in Int
  OBVIOUS
<1>1. ASSUME NEW s \in SUBSET S, \A t \in SUBSET s : t # s => t \in P
      PROVE  s \in P
  <2>1. CASE s = {}
    <3>1. Q[s] = 0
      BY <2>1, <1>0, SummedUnfolds
    <3>2. \A t \in SUBSET s : t = s
      BY <2>1
    <3> QED BY <3>1, <3>2
  <2>2. CASE s # {}
    <3>0. \A a \in s : s \ {a} \in P /\ f[a] \in Nat /\ Q[s] = f[a] + Q[s \ {a}]
      BY <1>0, <1>1, SummedTakes
    <3> HIDE DEF Q
    <3>1. \A a \in s : Q[s \ {a}] \in Nat /\ \A t \in SUBSET (s \ {a}) : Q[t] \in Nat /\ Q[t] <= Q[s \ {a}]
      BY <3>0
    <3>2. Q[s] \in Nat
      <4>1. PICK a \in s : TRUE
        BY <2>2
      <4>2. Q[s \ {a}] \in Nat /\ f[a] \in Nat /\ Q[s] = f[a] + Q[s \ {a}]
        BY <3>0, <3>1
      <4> QED BY <4>2
    <3>3. ASSUME NEW t \in SUBSET s, t # s PROVE Q[t] \in Nat /\ Q[t] <= Q[s]
      <4>1. PICK a \in s : a \notin t
        BY <3>3
      <4>2. t \in SUBSET (s \ {a})
        BY <4>1
      <4>3. Q[t] \in Nat /\ Q[t] <= Q[s \ {a}] /\ Q[s \ {a}] \in Nat /\ f[a] \in Nat /\ Q[s] = f[a] + Q[s \ {a}]
        BY <3>0, <3>1, <4>2
      <4> QED BY <4>3
    <3> QED BY <3>2, <3>3
  <2> QED BY <2>1, <2>2
<1> HIDE DEF P
<1>2. SUBSET S \subseteq P
  BY <1>1, SmallerFirst
<1>3. Q[S] \in Nat /\ Q[T] \in Nat /\ Q[T] <= Q[S]
  BY <1>2 DEF P
<1>4. SumFunctionOnSet(f, T) = Q[T] /\ SumFunctionOnSet(f, S) = Q[S]
  BY <1>0, SumFits, SumIs
<1> QED BY <1>3, <1>4

(* The lesser of two is one of them.                                       *)
LEMMA LesserOfTwo ==
  ASSUME NEW a \in Int, NEW b \in Int
  PROVE  Min({a, b}) = IF a <= b THEN a ELSE b
<1> DEFINE m == IF a <= b THEN a ELSE b
<1>1. m \in {a, b} /\ \A y \in {a, b} : m <= y
  OBVIOUS
<1>2. \A x \in {a, b} : (\A y \in {a, b} : x <= y) => x = m
  OBVIOUS
<1> HIDE DEF m
<1>3. Min({a, b}) = m
  BY <1>1, <1>2 DEF Min
<1> QED BY <1>3 DEF m

(* So is the greater.                                                      *)
LEMMA GreaterOfTwo ==
  ASSUME NEW a \in Int, NEW b \in Int
  PROVE  Max({a, b}) = IF a >= b THEN a ELSE b
<1> DEFINE m == IF a >= b THEN a ELSE b
<1>1. m \in {a, b} /\ \A y \in {a, b} : m >= y
  OBVIOUS
<1>2. \A x \in {a, b} : (\A y \in {a, b} : x >= y) => x = m
  OBVIOUS
<1> HIDE DEF m
<1>3. Max({a, b}) = m
  BY <1>1, <1>2 DEF Max
<1> QED BY <1>3 DEF m

(* A row has finitely many places.                                         *)
LEMMA PlacesFinite ==
  ASSUME NEW n \in Nat
  PROVE  IsFiniteSet(1 .. n)
<1>1. 1 \in Int /\ n \in Int
  OBVIOUS
<1> QED BY <1>1, FS_Interval

(* A row's sum with one more at its end.                                   *)
LEMMA SumOfPlaces ==
  ASSUME NEW n \in Nat, NEW f, \A i \in 1 .. n + 1 : f[i] \in Int
  PROVE  SumFunctionOnSet(f, 1 .. n + 1) = SumFunctionOnSet(f, 1 .. n) + f[n + 1]
<1>1. (1 .. n + 1) \ {n + 1} = 1 .. n /\ n + 1 \in 1 .. n + 1 /\ n + 1 \in Nat /\ \A i \in 1 .. n : f[i] \in Int
  OBVIOUS
<1>2. IsFiniteSet(1 .. n + 1) /\ IsFiniteSet(1 .. n)
  BY <1>1, PlacesFinite
<1>3. SumFunctionOnSet(f, 1 .. n + 1) = f[n + 1] + SumFunctionOnSet(f, 1 .. n)
  BY <1>1, <1>2, SumFits
<1>4. SumFunctionOnSet(f, 1 .. n) \in Int /\ f[n + 1] \in Int
  BY <1>1, <1>2, SumFits
<1>5. \A i, j \in Int : i + j = j + i
  OBVIOUS
<1> QED BY <1>3, <1>4, <1>5

(* A text is its first word and the rest.                                  *)
LEMMA FirstWord ==
  ASSUME NEW t \in Seq(Nat), t # <<>>
  PROVE  /\ SumFunction(t) = Head(t) + SumFunction(Tail(t))
         /\ Head(t) \in Nat /\ SumFunction(Tail(t)) \in Nat
<1> DEFINE N == Len(t) - 1
           u == Tail(t)
           S == {n \in Nat : n <= N => SumFunctionOnSet(t, 1 .. n + 1) = t[1] + SumFunctionOnSet(u, 1 .. n)}
<1>1. N \in Nat /\ Len(t) = N + 1 /\ u \in Seq(Nat) /\ Len(u) = N /\ \A i \in 1 .. N : u[i] = t[i + 1]
  OBVIOUS
<1>2. \A i \in 1 .. N + 1 : t[i] \in Nat
  BY <1>1
<1> HIDE DEF u, N
<1>3. 0 \in S
  <2>1. 1 .. 0 = {} /\ 0 \in Nat /\ 0 + 1 \in 1 .. N + 1
    BY <1>1
  <2>2. SumFunctionOnSet(t, 1 .. 0 + 1) = SumFunctionOnSet(t, 1 .. 0) + t[0 + 1]
    <3>1. \A i \in 1 .. 0 + 1 : t[i] \in Int
      BY <1>2, <2>1
    <3> QED BY <2>1, <3>1, SumOfPlaces
  <2>3. SumFunctionOnSet(t, 1 .. 0) = 0 /\ SumFunctionOnSet(u, 1 .. 0) = 0
    BY <2>1, SumFits, FS_EmptySet
  <2>4. t[1] \in Nat /\ 0 + 1 = 1
    BY <1>2, <2>1
  <2> QED BY <2>2, <2>3, <2>4
<1>4. ASSUME NEW n \in S PROVE n + 1 \in S
  <2> SUFFICES ASSUME n + 1 <= N
               PROVE  SumFunctionOnSet(t, 1 .. n + 1 + 1) = t[1] + SumFunctionOnSet(u, 1 .. n + 1)
    OBVIOUS
  <2>1. n \in Nat /\ n <= N /\ n + 1 \in 1 .. N /\ n + 1 \in Nat /\ SumFunctionOnSet(t, 1 .. n + 1) = t[1] + SumFunctionOnSet(u, 1 .. n)
    BY <1>1
  <2> HIDE DEF S
  <2>2. (\A i \in 1 .. n + 1 + 1 : t[i] \in Int) /\ \A i \in 1 .. n + 1 : u[i] \in Int
    BY <1>1, <1>2, <2>1
  <2>3. SumFunctionOnSet(t, 1 .. n + 1 + 1) = SumFunctionOnSet(t, 1 .. n + 1) + t[n + 1 + 1]
    BY <2>1, <2>2, SumOfPlaces
  <2>4. SumFunctionOnSet(u, 1 .. n + 1) = SumFunctionOnSet(u, 1 .. n) + u[n + 1]
    BY <2>1, <2>2, SumOfPlaces
  <2>5. u[n + 1] = t[n + 1 + 1] /\ u[n + 1] \in Nat
    BY <1>1, <1>2, <2>1
  <2>6. SumFunctionOnSet(u, 1 .. n) \in Int /\ t[1] \in Int
    <3>1. IsFiniteSet(1 .. n) /\ \A i \in 1 .. n : u[i] \in Int
      BY <2>1, <2>2, PlacesFinite
    <3>2. 1 \in 1 .. N + 1
      BY <1>1
    <3>3. t[1] \in Nat
      BY <1>2, <3>2
    <3>4. SumFunctionOnSet(u, 1 .. n) \in Int
      BY <3>1, SumFits
    <3> QED BY <3>3, <3>4
  <2>7. \A i, j, k \in Int : (i + j) + k = i + (j + k)
    OBVIOUS
  <2> QED BY <2>1, <2>3, <2>4, <2>5, <2>6, <2>7
<1>5. S \in SUBSET Nat
  OBVIOUS
<1> HIDE DEF S
<1>6. N \in S
  BY <1>1, <1>3, <1>4, <1>5, CountingUp
<1>7. SumFunctionOnSet(t, 1 .. N + 1) = t[1] + SumFunctionOnSet(u, 1 .. N)
  BY <1>1, <1>6 DEF S
<1>8. SumFunctionOnSet(u, 1 .. N) \in Nat
  <2>1. IsFiniteSet(1 .. N) /\ \A i \in 1 .. N : u[i] \in Nat
    BY <1>1, PlacesFinite
  <2>2. 1 .. N \in SUBSET (1 .. N)
    OBVIOUS
  <2> QED BY <2>1, <2>2, SumGrows
<1>9. DOMAIN t = 1 .. N + 1 /\ DOMAIN u = 1 .. N /\ Head(t) = t[1] /\ t[1] \in Nat
  BY <1>1, <1>2
<1> QED BY <1>7, <1>8, <1>9 DEF SumFunction, u

Letters(ls) == SumFunction([i \in DOMAIN ls |-> ls[i].letters])

(* A line that is written adds its letters to those written before.        *)
LEMMA LineWritten ==
  ASSUME NEW ls \in Seq(Line), NEW l \in Line
  PROVE  /\ Letters(ls) \in Nat /\ Letters(Append(ls, l)) = Letters(ls) + l.letters
         /\ ls = <<>> => Letters(ls) = 0
<1> DEFINE n == Len(ls)
           m == Append(ls, l)
           f == [i \in DOMAIN ls |-> ls[i].letters]
           g == [i \in DOMAIN m |-> m[i].letters]
<1>1. n \in Nat /\ DOMAIN ls = 1 .. n /\ DOMAIN m = 1 .. n + 1 /\ m[n + 1] = l /\ l.letters \in Nat
      /\ (\A i \in 1 .. n : m[i] = ls[i] /\ ls[i].letters \in Nat)
  <2>1. n \in Nat /\ DOMAIN ls = 1 .. n /\ DOMAIN m = 1 .. n + 1 /\ m[n + 1] = l /\ \A i \in 1 .. n : m[i] = ls[i]
    OBVIOUS
  <2>2. \A i \in 1 .. n : ls[i] \in Line
    OBVIOUS
  <2>3. \A k \in Line : k.letters \in Nat
    BY DEF Line
  <2> QED BY <2>1, <2>2, <2>3
<1> HIDE DEF m, n
<1>2. /\ DOMAIN f = 1 .. n /\ DOMAIN g = 1 .. n + 1 /\ g[n + 1] = l.letters
      /\ \A i \in 1 .. n : f[i] \in Nat /\ g[i] = f[i]
  BY <1>1
<1> HIDE DEF f, g
<1>3. IsFiniteSet(1 .. n) /\ (\A i \in 1 .. n : f[i] \in Int) /\ \A i \in 1 .. n + 1 : g[i] \in Int
  BY <1>1, <1>2, PlacesFinite
<1>4. SumFunctionOnSet(g, 1 .. n + 1) = SumFunctionOnSet(g, 1 .. n) + g[n + 1]
  BY <1>1, <1>3, SumOfPlaces
<1>5. SumFunctionOnSet(g, 1 .. n) = SumFunctionOnSet(f, 1 .. n)
  BY <1>2, <1>3, SumAgrees
<1>6. SumFunctionOnSet(f, 1 .. n) \in Nat
  <2>1. 1 .. n \in SUBSET (1 .. n)
    OBVIOUS
  <2> QED BY <1>2, <1>3, <2>1, SumGrows
<1>7. ls = <<>> => 1 .. n = {}
  BY DEF n
<1>8. ls = <<>> => SumFunctionOnSet(f, 1 .. n) = 0
  BY <1>3, <1>7, SumFits
<1>9. Letters(ls) = SumFunctionOnSet(f, 1 .. n) /\ Letters(m) = SumFunctionOnSet(g, 1 .. n + 1)
  BY <1>2 DEF Letters, SumFunction, f, g
<1> QED BY <1>2, <1>4, <1>5, <1>6, <1>8, <1>9 DEF m

-----------------------------------------------------------------------------
(* Text: no line is too wide, and what is cut off is said.                 *)

(* The letters of a text are all somewhere: in words not taken, in the     *)
(* word in hand, in the line in hand, in the lines written.                *)
TextTypes ==
    /\ given \in Nat /\ text \in Seq(WordSizes) /\ remaining \in Nat /\ line \in Line /\ lines \in Seq(Line) /\ told \in BOOLEAN

LineFits(l) == l.letters > 0 /\ l.wide <= MaxWidth

AllThere ==
    /\ SumFunction(text) \in Nat
    /\ given = SumFunction(text) + (remaining + (line.letters + Letters(lines)))

TextInv ==
    /\ TextTypes
    /\ drawing \in {"nothing", "wrapping", "wrapped", "splitting", "placed"}
    /\ line # Blank => LineFits(line)
    /\ \A i \in 1 .. Len(lines) : lines[i].wide <= MaxWidth
    /\ drawing = "nothing" => line = Blank /\ lines = <<>> /\ remaining = 0 /\ told = FALSE
    /\ drawing = "wrapping" => AllThere /\ Len(lines) < MaxLines /\ told = FALSE
    /\ WrapTold

(* Before anything is wrapped, no text is lost.                            *)
LEMMA TextInitInv == TreeInit => TextInv
<1> SUFFICES ASSUME TreeInit PROVE TextInv
  OBVIOUS
<1>1. /\ drawing = "nothing" /\ given = 0 /\ text = <<>> /\ remaining = 0 /\ line = Blank /\ lines = <<>> /\ told = FALSE
  BY DEF TreeInit
<1>2. TextTypes
  <2>1. Blank \in Line
    BY DEF Line, Blank
  <2>2. text \in Seq(WordSizes) /\ lines \in Seq(Line)
    BY <1>1
  <2> QED BY <1>1, <2>1, <2>2 DEF TextTypes
<1>3. Len(lines) = 0
  BY <1>1
<1> QED BY <1>1, <1>2, <1>3 DEF TextInv, WrapTold

\* The text ends or no line is left for the rest of it.
(* When the wrapping ends, the letters say whether it told the truth.      *)
LEMMA EndTells ==
  ASSUME TextTypes', Len(lines') \in Nat,
         \A i \in 1 .. Len(lines') : lines'[i].wide <= MaxWidth,
         IF told' THEN MaxLines <= Len(lines') /\ Letters(lines') < given'
         ELSE Len(lines') <= MaxLines /\ Letters(lines') = given'
  PROVE  WrapTold'
<1> DEFINE n == Len(lines')
           m == IF n <= MaxLines THEN n ELSE MaxLines
           f == [i \in DOMAIN lines' |-> lines'[i].letters]
           g == [i \in 1 .. m |-> lines'[i].letters]
<1>0. MaxLines \in Nat \ {0} /\ MaxWidth \in Nat \ {0}
  BY TreeDrawingAssumption
<1>1. m \in Nat /\ m <= n /\ m <= MaxLines /\ 1 .. m \in SUBSET (1 .. n)
  BY <1>0
<1>2. Min({n, MaxLines}) = m
  BY <1>0, LesserOfTwo
<1>3. SubSeq(lines', 1, m) \in Seq(Line) /\ Len(SubSeq(lines', 1, m)) = m
      /\ \A i \in 1 .. m : SubSeq(lines', 1, m)[i] = lines'[i]
  BY <1>1 DEF TextTypes
<1>4. DOMAIN lines' = 1 .. n /\ \A i \in 1 .. n : lines'[i] \in Line
  BY DEF TextTypes
<1>5. \A i \in 1 .. n : lines'[i].letters \in Nat /\ lines'[i].wide \in Nat
  BY <1>4 DEF Line
<1> HIDE DEF m
<1> DEFINE kept == SubSeq(lines', 1, m)
<1>6. DOMAIN kept = 1 .. m /\ Len(kept) = m
  BY <1>1, <1>3
<1>7. Written' = [i \in 1 .. m |-> IF told' /\ i = m THEN Min({lines'[i].wide, MaxWidth - Ellipsis}) + Ellipsis
                                  ELSE lines'[i].wide]
  BY <1>2, <1>3, <1>6 DEF Written
<1>8. ASSUME NEW i \in 1 .. m PROVE Written'[i] <= MaxWidth
  <2>1. i \in 1 .. n /\ lines'[i].wide \in Int /\ MaxWidth - Ellipsis \in Int /\ lines'[i].wide <= MaxWidth
    BY <1>0, <1>1, <1>5 DEF Ellipsis
  <2>2. Min({lines'[i].wide, MaxWidth - Ellipsis}) =
          IF lines'[i].wide <= MaxWidth - Ellipsis THEN lines'[i].wide ELSE MaxWidth - Ellipsis
    BY <2>1, LesserOfTwo
  <2> QED BY <1>0, <1>7, <2>1, <2>2 DEF Ellipsis
<1>9. DOMAIN Written' = 1 .. m /\ Len(Written') = m
  <2>1. DOMAIN Written' = 1 .. m
    BY <1>7
  <2> QED BY <2>1, <1>1
<1>10. SumFunction(g) <= Letters(lines') /\ SumFunction(g) \in Nat /\ Letters(lines') \in Nat
       /\ (m = n => SumFunction(g) = Letters(lines'))
  <2>1. IsFiniteSet(1 .. n) /\ DOMAIN f = 1 .. n /\ DOMAIN g = 1 .. m /\ (\A i \in 1 .. n : f[i] \in Nat) /\ \A i \in 1 .. m : g[i] = f[i]
    BY <1>1, <1>4, <1>5, PlacesFinite
  <2> HIDE DEF f, g
  <2>2. IsFiniteSet(1 .. m)
    BY <1>1, PlacesFinite
  <2>3. SumFunctionOnSet(f, 1 .. m) \in Nat /\ SumFunctionOnSet(f, 1 .. n) \in Nat
        /\ SumFunctionOnSet(f, 1 .. m) <= SumFunctionOnSet(f, 1 .. n)
    BY <1>1, <2>1, SumGrows
  <2>4. SumFunctionOnSet(g, 1 .. m) = SumFunctionOnSet(f, 1 .. m)
    <3>1. \A i \in 1 .. m : f[i] \in Int
      BY <1>1, <2>1
    <3> QED BY <2>1, <2>2, <3>1, SumAgrees
  <2>5. SumFunction(g) = SumFunctionOnSet(g, 1 .. m) /\ Letters(lines') = SumFunctionOnSet(f, 1 .. n)
    BY <2>1 DEF SumFunction, Letters, f
  <2> QED BY <2>3, <2>4, <2>5
<1>11. [i \in DOMAIN Written' |-> lines'[i].letters] = g
  BY <1>9
<1> HIDE DEF g
<1>12. told' <=> SumFunction(g) < given'
  <2>1. CASE told'
    <3>1. Letters(lines') < given' /\ given' \in Nat
      BY <2>1 DEF TextTypes
    <3> QED BY <1>10, <2>1, <3>1
  <2>2. CASE ~told'
    <3>1. Letters(lines') = given' /\ m = n
      BY <2>2 DEF m
    <3> QED BY <1>10, <2>2, <3>1
  <2> QED BY <2>1, <2>2
<1> QED BY <1>1, <1>8, <1>9, <1>11, <1>12 DEF WrapTold

(* Every step of the wrapping keeps each letter accounted for.             *)
LEMMA TextKeeps ==
  ASSUME TextInv, [TreeNext]_treeVars
  PROVE  TextInv'
<1> USE TreeDrawingAssumption
<1>0. MaxLines \in Nat \ {0} /\ MaxWidth \in Nat \ {0} /\ WordSizes \subseteq Nat /\ Blank \in Line /\ Blank.letters = 0
  BY DEF Line, Blank
<1>7. ASSUME NEW t \in Seq(WordSizes) PROVE t \in Seq(Nat)
  <2>1. Len(t) \in Nat /\ t = [i \in 1 .. Len(t) |-> t[i]] /\ \A i \in 1 .. Len(t) : t[i] \in WordSizes
    OBVIOUS
  <2>2. t \in [1 .. Len(t) -> Nat]
    BY <1>0, <2>1
  <2> QED BY <2>1, <2>2
<1>1. ASSUME UNCHANGED <<given, text, remaining, line, lines, told>>,
             drawing' = drawing \/ drawing' \in {"splitting", "placed"}
      PROVE  TextInv'
  BY <1>1 DEF TextInv, TextTypes, AllThere, Letters, LineFits, WrapTold, Written
<1>2. CASE UNCHANGED treeVars \/ MeasureText \/ Split \/ PlaceBox
  BY <1>1, <1>2 DEF treeVars, MeasureText, Split, PlaceBox
<1>3. CASE NextWord
  <2>1. CASE drawing = "nothing"
    <3>1. text' \in Seq(Nat) /\ text' \in Seq(WordSizes)
      <4>1. text' \in BoundedSeq(WordSizes, MaxWords)
        BY <1>3, <2>1 DEF NextWord
      <4>2. PICK m \in 0 .. MaxWords : text' \in [1 .. m -> WordSizes]
        BY <4>1 DEF BoundedSeq, SeqOf
      <4>3. m \in Nat
        BY <4>2
      <4>4. text' \in Seq(WordSizes)
        BY <4>2, <4>3
      <4> QED BY <1>7, <4>4
    <3>2. SumFunction(text') \in Nat
      <4>1. CASE text' = <<>>
        <5>1. DOMAIN text' = {}
          BY <4>1
        <5> QED BY <5>1, SumFits, FS_EmptySet DEF SumFunction
      <4>2. CASE text' # <<>>
        <5>1. \A i, j \in Nat : i + j \in Nat
          OBVIOUS
        <5> QED BY <3>1, <4>2, <5>1, FirstWord
      <4> QED BY <4>1, <4>2
    <3>3. given' = SumFunction(text') /\ remaining' = 0 /\ line' = Blank /\ lines' = <<>> /\ told' = FALSE /\ drawing' = "wrapping"
      BY <1>3, <2>1 DEF NextWord, TextInv
    <3>4. lines' \in Seq(Line) /\ Len(lines') = 0
      BY <3>3
    <3>5. Letters(lines') = 0
      BY <1>0, <3>3, <3>4, LineWritten
    <3>6. AllThere'
      BY <1>0, <3>2, <3>3, <3>5 DEF AllThere
    <3>7. TextTypes'
      BY <1>0, <3>1, <3>2, <3>3, <3>4 DEF TextTypes
    <3> QED BY <1>0, <3>3, <3>4, <3>6, <3>7 DEF TextInv, WrapTold
  <2>2. CASE drawing = "wrapping" /\ remaining = 0 /\ text # <<>>
    <3>1. text' = Tail(text) /\ remaining' = Head(text) /\ UNCHANGED <<given, line, lines, told, drawing>>
      BY <1>3, <2>2 DEF NextWord
    <3>2. text \in Seq(Nat) /\ text' \in Seq(WordSizes)
      <4>1. text \in Seq(WordSizes)
        BY DEF TextInv, TextTypes
      <4>2. Tail(text) \in Seq(WordSizes)
        BY <2>2, <4>1
      <4>3. text \in Seq(Nat)
        BY <1>7, <4>1
      <4> QED BY <3>1, <4>2, <4>3
    <3>3. SumFunction(text) = remaining' + SumFunction(text') /\ remaining' \in Nat /\ SumFunction(text') \in Nat
      BY <2>2, <3>1, <3>2, FirstWord
    <3>4. line.letters \in Nat /\ Letters(lines) \in Nat
      BY <1>0, LineWritten DEF TextInv, TextTypes, Line
    <3>5. AllThere'
      <4>1. given = SumFunction(text) + (0 + (line.letters + Letters(lines)))
        BY <2>2 DEF TextInv, AllThere
      <4>2. line' = line /\ Letters(lines') = Letters(lines) /\ given' = given
        BY <3>1
      <4> QED BY <3>3, <3>4, <4>1, <4>2 DEF AllThere
    <3> QED BY <2>2, <3>1, <3>2, <3>3, <3>5 DEF TextInv, TextTypes, LineFits, WrapTold
  <2> QED BY <1>3, <2>1, <2>2 DEF NextWord
<1>4. CASE PutWord
  <2>1. /\ drawing = "wrapping" /\ remaining > 0 /\ Room <= MaxWidth /\ remaining' = 0
        /\ line' = [wide |-> Room, letters |-> line.letters + remaining]
        /\ UNCHANGED <<drawing, given, text, lines, told>>
    BY <1>4 DEF PutWord
  <2>2. line.letters \in Nat /\ line.wide \in Nat /\ remaining \in Nat /\ Letters(lines) \in Nat
    BY <1>0, LineWritten DEF TextInv, TextTypes, Line
  <2>3. line' \in Line /\ LineFits(line') /\ line'.letters = line.letters + remaining
    BY <2>1, <2>2 DEF Room, Line, LineFits
  <2>4. AllThere'
    <3>1. SumFunction(text) \in Nat /\ given = SumFunction(text) + (remaining + (line.letters + Letters(lines)))
      BY <2>1 DEF TextInv, AllThere
    <3>2. Letters(lines') = Letters(lines) /\ given' = given /\ SumFunction(text') = SumFunction(text)
      BY <2>1
    <3> QED BY <2>1, <2>2, <2>3, <3>1, <3>2 DEF AllThere
  <2> QED BY <2>1, <2>3, <2>4 DEF TextInv, TextTypes, WrapTold
<1>5. CASE EndLine
  <2> DEFINE l == IF line # Blank THEN line ELSE [wide |-> MaxWidth, letters |-> MaxWidth]
  <2>1. /\ drawing = "wrapping" /\ remaining > 0 /\ Room > MaxWidth /\ told' = (remaining' > 0 /\ Full(lines'))
        /\ drawing' = (IF told' THEN "wrapped" ELSE drawing) /\ UNCHANGED <<given, text>>
        /\ lines' = Append(lines, l) /\ line' = Blank
        /\ remaining' = IF line # Blank THEN remaining ELSE remaining - MaxWidth
    BY <1>5 DEF EndLine, Breaks
  <2>2. line.letters \in Nat /\ line.wide \in Nat /\ remaining \in Nat /\ Letters(lines) \in Nat /\ lines \in Seq(Line)
    BY <1>0, LineWritten DEF TextInv, TextTypes, Line
  <2>3. l \in Line /\ l.wide <= MaxWidth
    BY <1>0 DEF TextInv, TextTypes, Line, LineFits
  <2>4. remaining' \in Nat /\ remaining' > 0 /\ remaining' + l.letters = remaining + line.letters
    <3>1. CASE line # Blank
      BY <2>1, <2>2, <3>1
    <3>2. CASE line = Blank
      <4>1. Room = remaining /\ line.letters = 0
        BY <1>0, <3>2 DEF Room
      <4> QED BY <1>0, <2>1, <2>2, <3>2, <4>1
    <3> QED BY <3>1, <3>2
  <2> HIDE DEF l
  <2>5. Letters(lines') = Letters(lines) + l.letters /\ l.letters \in Nat
    BY <2>1, <2>2, <2>3, LineWritten DEF Line
  <2>6. lines' \in Seq(Line) /\ Len(lines') = Len(lines) + 1 /\ Len(lines) \in Nat
        /\ \A i \in 1 .. Len(lines') : lines'[i].wide <= MaxWidth
    BY <2>1, <2>2, <2>3 DEF TextInv
  <2>7. SumFunction(text) \in Nat /\ given = SumFunction(text) + (remaining + (line.letters + Letters(lines))) /\ Len(lines) < MaxLines
    BY <2>1 DEF TextInv, AllThere
  <2>8. AllThere'
    <3>1. line'.letters = 0 /\ given' = given /\ SumFunction(text') = SumFunction(text)
      BY <1>0, <2>1
    <3>3. given = SumFunction(text) + (remaining' + (0 + (Letters(lines) + l.letters)))
      <4>1. remaining + (line.letters + Letters(lines)) = (remaining + line.letters) + Letters(lines)
        <5>1. remaining \in Nat /\ line.letters \in Nat /\ Letters(lines) \in Nat
          BY <2>2, Zenon
        <5> QED BY ONLY <5>1
      <4>2. remaining' + (0 + (Letters(lines) + l.letters)) = (remaining' + l.letters) + Letters(lines)
        <5>1. remaining' \in Nat /\ l.letters \in Nat /\ Letters(lines) \in Nat
          BY <2>2, <2>4, <2>5, Zenon
        <5> QED BY ONLY <5>1
      <4> QED BY <2>4, <2>7, <4>1, <4>2, Zenon
    <3> QED BY <2>5, <2>7, <3>1, <3>3 DEF AllThere
  <2>9. TextTypes'
    BY <1>0, <2>1, <2>4, <2>6 DEF TextInv, TextTypes
  <2>10. CASE told'
    <3>1. MaxLines <= Len(lines')
      BY <2>1, <2>10 DEF Full
    <3>2. Letters(lines') < given'
      <4>1. \A x, y \in Nat : x + y \in Nat
        OBVIOUS
      <4>2. Letters(lines') \in Nat /\ remaining' \in Nat /\ SumFunction(text) \in Nat
        BY <2>2, <2>4, <2>5, <2>7, <4>1, Zenon
      <4>3. given' = SumFunction(text) + (remaining' + (0 + Letters(lines')))
        BY <1>0, <2>1, <2>8 DEF AllThere
      <4>4. \A t, u, v \in Nat : u > 0 => v < t + (u + (0 + v))
        OBVIOUS
      <4> QED BY <2>4, <4>2, <4>3, <4>4, Zenon
    <3>3. Len(lines)' \in Nat
      BY <2>6
    <3>4. WrapTold'
      BY <2>6, <2>9, <2>10, <3>1, <3>2, <3>3, EndTells
    <3> QED BY <2>1, <2>6, <2>9, <2>10, <3>4 DEF TextInv
  <2>11. CASE ~told'
    <3>0. ~Full(lines')
      BY <2>1, <2>4, <2>11, Zenon
    <3>1. Len(lines') < MaxLines
      BY <1>0, <2>6, <3>0 DEF Full
    <3>2. told' = FALSE
      BY <2>9, <2>11 DEF TextTypes
    <3> QED BY <2>1, <2>6, <2>8, <2>9, <3>1, <3>2 DEF TextInv, WrapTold
  <2> QED BY <2>10, <2>11
<1>6. CASE EndText
  <2>1. /\ drawing = "wrapping" /\ remaining = 0 /\ text = <<>> /\ told' = (line # Blank /\ Full(lines))
        /\ lines' = (IF line = Blank \/ told' THEN lines ELSE Append(lines, line))
        /\ line' = (IF told' THEN line ELSE Blank) /\ drawing' = "wrapped" /\ UNCHANGED <<given, text, remaining>>
    BY <1>6 DEF EndText
  <2>2. line \in Line /\ line.letters \in Nat /\ Letters(lines) \in Nat /\ lines \in Seq(Line) /\ Len(lines) \in Nat
    BY <1>0, LineWritten DEF TextInv, TextTypes, Line
  <2>3. ~told' /\ Len(lines) < MaxLines
    <3>1. Len(lines) < MaxLines
      BY <2>1 DEF TextInv
    <3>2. ~Full(lines)
      BY <1>0, <2>2, <3>1 DEF Full
    <3> QED BY <2>1, <3>1, <3>2, Zenon
  <2>4. given = line.letters + Letters(lines)
    <3>1. DOMAIN text = {}
      BY <2>1
    <3>2. SumFunction(text) = 0
      BY <3>1, SumFits, FS_EmptySet DEF SumFunction
    <3> QED BY <2>1, <2>2, <3>2 DEF TextInv, AllThere
  <2>5. Letters(lines') = given /\ lines' \in Seq(Line) /\ Len(lines') <= MaxLines /\ Len(lines') \in Nat
        /\ \A i \in 1 .. Len(lines') : lines'[i].wide <= MaxWidth
    <3>1. CASE line = Blank
      BY <1>0, <2>1, <2>2, <2>3, <2>4, <3>1 DEF TextInv
    <3>2. CASE line # Blank
      <4>1. lines' = Append(lines, line) /\ line.wide <= MaxWidth
        BY <2>1, <2>3, <3>2 DEF TextInv, LineFits
      <4>2. Letters(lines') = Letters(lines) + line.letters
        BY <2>2, <4>1, LineWritten
      <4>3. lines' \in Seq(Line) /\ Len(lines') = Len(lines) + 1 /\ \A i \in 1 .. Len(lines') : lines'[i].wide <= MaxWidth
        BY <2>2, <4>1 DEF TextInv
      <4> QED BY <1>0, <2>2, <2>3, <2>4, <4>2, <4>3
    <3> QED BY <3>1, <3>2
  <2>6. TextTypes'
    BY <1>0, <2>1, <2>2, <2>3, <2>5 DEF TextInv, TextTypes
  <2>7. given' = given
    BY <2>1
  <2>8. WrapTold'
    <3>1. Len(lines)' \in Nat /\ ~told' /\ Len(lines') <= MaxLines /\ Letters(lines') = given'
      BY <2>3, <2>5, <2>7
    <3> QED BY <2>5, <2>6, <3>1, EndTells
  <2> QED BY <1>0, <2>1, <2>3, <2>5, <2>6, <2>8 DEF TextInv
<1> QED BY <1>2, <1>3, <1>4, <1>5, <1>6 DEF TreeNext

-----------------------------------------------------------------------------
(* The boxes of a tree.                                                    *)

(* Finitely many arguments have finitely many values.                      *)
LEMMA ValuesFinite ==
  ASSUME NEW S, IsFiniteSet(S), NEW f
  PROVE  IsFiniteSet({f[x] : x \in S})
<1> DEFINE T == {f[x] : x \in S}
           g == [x \in S |-> f[x]]
<1>1. g \in Surjection(S, T)
  BY DEF Surjection
<1> HIDE DEF T, g
<1>2. IsFiniteSet(T)
  BY <1>1, FS_Surjection
<1> QED BY <1>2 DEF T

(* A finite set that is not empty has its largest.                         *)
LEMMA FiniteMost ==
  ASSUME NEW S, IsFiniteSet(S), S # {}, S \subseteq Int
  PROVE  Max(S) \in S /\ \A y \in S : y <= Max(S)
<1> DEFINE P == {s \in SUBSET S : s # {} => \E m \in s : \A y \in s : y <= m}
<1>1. ASSUME NEW s \in SUBSET S, \A t \in SUBSET s : t # s => t \in P
      PROVE  s \in P
  <2> SUFFICES ASSUME NEW x \in s PROVE \E m \in s : \A y \in s : y <= m
    OBVIOUS
  <2> DEFINE t == s \ {x}
  <2>1. t \in P /\ x \in Int
    BY <1>1
  <2>2. CASE t = {}
    <3>1. \A y \in s : y = x
      BY <2>2
    <3> QED BY <2>1, <3>1
  <2>3. CASE t # {}
    <3>1. PICK m \in t : \A y \in t : y <= m
      BY <2>1, <2>3
    <3>2. m \in Int /\ m \in s /\ \A y \in s : y \in Int /\ (y = x \/ y \in t)
      OBVIOUS
    <3>3. CASE x <= m
      BY <3>1, <3>2, <3>3
    <3>4. CASE ~(x <= m)
      <4>1. \A y \in s : y <= x
        BY <2>1, <3>1, <3>2, <3>4
      <4> QED BY <4>1
    <3> QED BY <3>3, <3>4
  <2> QED BY <2>2, <2>3
<1> HIDE DEF P
<1>2. SUBSET S \subseteq P
  BY <1>1, SmallerFirst
<1>3. PICK m \in S : \A y \in S : y <= m
  BY <1>2 DEF P
<1>4. \A y \in S : m >= y
  BY <1>3
<1>5. Max(S) \in S /\ \A y \in S : Max(S) >= y
  BY <1>4 DEF Max
<1> QED BY <1>5

(* A gap after each of a stack's boxes adds up.                            *)
LEMMA SumPlus ==
  ASSUME NEW S, IsFiniteSet(S), NEW f, \A k \in S : f[k] \in Nat
  PROVE  SumFunctionOnSet([k \in S |-> f[k] + VGap], S) = SumFunctionOnSet(f, S) + VGap * Cardinality(S)
<1> DEFINE g == [k \in S |-> f[k] + VGap]
           P == {s \in SUBSET S : SumFunctionOnSet(g, s) = SumFunctionOnSet(f, s) + VGap * Cardinality(s)}
<1>0. (\A k \in S : g[k] = f[k] + VGap /\ g[k] \in Int /\ f[k] \in Int) /\ VGap = 14
  BY DEF VGap
<1>1. ASSUME NEW s \in SUBSET S, \A t \in SUBSET s : t # s => t \in P
      PROVE  s \in P
  <2>0. IsFiniteSet(s) /\ Cardinality(s) \in Nat
    BY FS_Subset, FS_CardinalityType
  <2>1. CASE s = {}
    <3>1. SumFunctionOnSet(g, s) = 0 /\ SumFunctionOnSet(f, s) = 0 /\ Cardinality(s) = 0
      BY <2>1, SumFits, FS_EmptySet
    <3> QED BY <1>0, <3>1
  <2>2. CASE s # {}
    <3>1. PICK x \in s : TRUE
      BY <2>2
    <3> DEFINE t == s \ {x}
    <3>a. t \in P
      BY <1>1
    <3>b. IsFiniteSet(t) /\ Cardinality(t) = Cardinality(s) - 1
      BY <2>0, FS_RemoveElement
    <3>c. Cardinality(t) \in Nat
      BY <3>b, FS_CardinalityType
    <3>2. t \in P /\ IsFiniteSet(t) /\ Cardinality(s) = Cardinality(t) + 1 /\ Cardinality(t) \in Nat
      BY <2>0, <3>a, <3>b, <3>c
    <3>3. SumFunctionOnSet(g, s) = g[x] + SumFunctionOnSet(g, t) /\ SumFunctionOnSet(f, s) = f[x] + SumFunctionOnSet(f, t)
      BY <1>0, <2>0, SumFits
    <3>4. SumFunctionOnSet(f, t) \in Int /\ f[x] \in Int /\ g[x] = f[x] + VGap
      BY <1>0, <3>2, SumFits
    <3> HIDE DEF t, g
    <3>5. SumFunctionOnSet(g, t) = SumFunctionOnSet(f, t) + VGap * Cardinality(t)
      BY <3>2
    <3>6. \A a, b \in Int, c \in Nat : (a + 14) + (b + 14 * c) = (a + b) + 14 * (c + 1)
      OBVIOUS
    <3>7. (f[x] + 14) + (SumFunctionOnSet(f, t) + 14 * Cardinality(t))
            = (f[x] + SumFunctionOnSet(f, t)) + 14 * (Cardinality(t) + 1)
      BY <3>2, <3>4, <3>6
    <3>8. SumFunctionOnSet(g, s) = SumFunctionOnSet(f, s) + VGap * Cardinality(s)
      BY <1>0, <3>2, <3>3, <3>4, <3>5, <3>7
    <3> QED BY <3>8
  <2> QED BY <2>1, <2>2
<1> HIDE DEF P, g
<1>2. S \in P
  BY <1>1, SmallerFirst
<1> QED BY <1>2 DEF P, g

(* Bands one above the other: where the band of k begins.                  *)
BeginsAt(h, k) == SumFunction([j \in {i \in DOMAIN h : i < k} |-> h[j] + VGap])

(* Boxes stacked by their numbers lie in the stack, a gap apart.           *)
LEMMA StackedApart ==
  ASSUME NEW S, IsFiniteSet(S), S \subseteq Int, NEW h \in [S -> Nat]
  PROVE  /\ Stacked(h) \in Nat
         /\ \A k \in S : BeginsAt(h, k) \in Nat /\ BeginsAt(h, k) + h[k] <= Stacked(h)
         /\ \A k, m \in S : k < m => BeginsAt(h, k) + h[k] + VGap <= BeginsAt(h, m)
<1> DEFINE f == [j \in S |-> h[j] + VGap]
           Up(k) == {i \in S : i < k}
<1>0. VGap = 14 /\ DOMAIN h = S
  BY DEF VGap
<1>1. \A j \in S : h[j] \in Nat /\ f[j] = h[j] + VGap /\ f[j] \in Nat
  BY <1>0
<1>2. ASSUME NEW T \in SUBSET S PROVE SumFunction([j \in T |-> h[j] + VGap]) = SumFunctionOnSet(f, T)
  <2> DEFINE g == [j \in T |-> h[j] + VGap]
  <2>0. IsFiniteSet(T)
    BY FS_Subset
  <2>1. DOMAIN g = T /\ (\A k \in T : f[k] \in Int) /\ \A k \in T : g[k] = f[k]
    BY <1>1
  <2> HIDE DEF g
  <2>2. SumFunctionOnSet(g, T) = SumFunctionOnSet(f, T)
    BY <2>0, <2>1, SumAgrees
  <2> QED BY <2>1, <2>2 DEF SumFunction, g
<1>3. \A k \in S : BeginsAt(h, k) = SumFunctionOnSet(f, Up(k)) /\ Up(k) \in SUBSET S
  BY <1>0, <1>2 DEF BeginsAt
<1>4. SumFunctionOnSet(f, S) = SumFunctionOnSet(h, S) + VGap * Cardinality(S)
  BY <1>1, SumPlus
<1> HIDE DEF f
<1>5. ASSUME NEW T \in SUBSET S, NEW U \in SUBSET T, NEW k \in T, k \notin U
      PROVE  /\ SumFunctionOnSet(f, U) \in Nat /\ SumFunctionOnSet(f, T) \in Nat
             /\ SumFunctionOnSet(f, U) + f[k] <= SumFunctionOnSet(f, T)
  <2> DEFINE W == U \cup {k}
  <2>0. W \in SUBSET T /\ W \in SUBSET S /\ W \ {k} = U /\ k \in W
    BY <1>5
  <2>1. IsFiniteSet(T) /\ IsFiniteSet(W) /\ W \in SUBSET T /\ W \ {k} = U /\ k \in W
    <3>1. IsFiniteSet(T)
      BY FS_Subset
    <3>2. IsFiniteSet(W)
      BY <2>0, FS_Subset
    <3> QED BY <2>0, <3>1, <3>2
  <2>2. (\A j \in T : f[j] \in Nat) /\ \A j \in W : f[j] \in Int
    BY <1>1, <2>1
  <2> HIDE DEF W
  <2>3. SumFunctionOnSet(f, W) \in Nat /\ SumFunctionOnSet(f, T) \in Nat /\ SumFunctionOnSet(f, W) <= SumFunctionOnSet(f, T)
    BY <2>1, <2>2, SumGrows
  <2>4. SumFunctionOnSet(f, W) = f[k] + SumFunctionOnSet(f, U)
    BY <2>1, <2>2, SumFits
  <2>5. SumFunctionOnSet(f, U) \in Nat /\ f[k] \in Nat
    BY <2>1, <2>2, SumGrows
  <2> QED BY <2>3, <2>4, <2>5, SMTT(30)
<1>6. SumFunctionOnSet(h, S) \in Nat /\ Stacked(h) \in Nat /\ (S # {} => Stacked(h) + VGap = SumFunctionOnSet(f, S))
  <2>1. SumFunctionOnSet(h, S) \in Nat
    <3>1. S \in SUBSET S
      OBVIOUS
    <3> QED BY <1>1, <3>1, SumGrows
  <2>2. Stacked(h) = SumFunctionOnSet(h, S) + VGap * (IF S = {} THEN 0 ELSE Cardinality(S) - 1)
    BY <1>0 DEF Stacked, SumFunction
  <2>3. Cardinality(S) \in Nat /\ (S # {} => Cardinality(S) # 0)
    BY FS_CardinalityType, FS_EmptySet
  <2>4. CASE S = {}
    <3>1. Stacked(h) = SumFunctionOnSet(h, S)
      BY <1>0, <2>1, <2>2, <2>4
    <3> QED BY <2>1, <2>4, <3>1
  <2>5. CASE S # {}
    <3>1. Stacked(h) = SumFunctionOnSet(h, S) + 14 * (Cardinality(S) - 1)
      BY <1>0, <2>2, <2>5
    <3>2. SumFunctionOnSet(f, S) = SumFunctionOnSet(h, S) + 14 * Cardinality(S)
      BY <1>0, <1>4
    <3>3. \A a, c \in Nat : c # 0 => a + 14 * (c - 1) \in Nat /\ (a + 14 * (c - 1)) + 14 = a + 14 * c
      OBVIOUS
    <3>4. SumFunctionOnSet(h, S) + 14 * (Cardinality(S) - 1) \in Nat
          /\ (SumFunctionOnSet(h, S) + 14 * (Cardinality(S) - 1)) + 14 = SumFunctionOnSet(h, S) + 14 * Cardinality(S)
      BY <2>1, <2>3, <2>5, <3>3
    <3> QED BY <1>0, <2>1, <3>1, <3>2, <3>4
  <2> QED BY <2>4, <2>5
<1>7. ASSUME NEW k \in S PROVE BeginsAt(h, k) \in Nat /\ BeginsAt(h, k) + h[k] <= Stacked(h)
  <2>1. Up(k) \in SUBSET S /\ k \notin Up(k) /\ S \in SUBSET S
    OBVIOUS
  <2>2. SumFunctionOnSet(f, Up(k)) \in Nat /\ SumFunctionOnSet(f, Up(k)) + f[k] <= SumFunctionOnSet(f, S)
    BY <1>5, <2>1
  <2>3. BeginsAt(h, k) = SumFunctionOnSet(f, Up(k)) /\ f[k] = h[k] + VGap /\ h[k] \in Nat /\ Stacked(h) + VGap = SumFunctionOnSet(f, S)
    BY <1>1, <1>3, <1>6
  <2> HIDE DEF Up
  <2> QED BY <1>0, <1>6, <2>2, <2>3
<1>8. ASSUME NEW k \in S, NEW m \in S, k < m PROVE BeginsAt(h, k) + h[k] + VGap <= BeginsAt(h, m)
  <2>a. k \in Int /\ m \in Int /\ \A i \in S : i \in Int
    OBVIOUS
  <2>b. \A i \in S : i < k => i < m
    BY <2>a, <1>8
  <2>c. ~(k < k)
    BY <2>a
  <2>1. Up(m) \in SUBSET S /\ Up(k) \in SUBSET Up(m) /\ k \notin Up(k) /\ k \in Up(m)
    BY <1>8, <2>b, <2>c
  <2>2. SumFunctionOnSet(f, Up(k)) \in Nat /\ SumFunctionOnSet(f, Up(m)) \in Nat
        /\ SumFunctionOnSet(f, Up(k)) + f[k] <= SumFunctionOnSet(f, Up(m))
    BY <1>5, <2>1
  <2>3. BeginsAt(h, k) = SumFunctionOnSet(f, Up(k)) /\ BeginsAt(h, m) = SumFunctionOnSet(f, Up(m)) /\ f[k] = h[k] + VGap /\ h[k] \in Nat
    BY <1>1, <1>3
  <2> HIDE DEF Up
  <2> QED BY <1>0, <2>2, <2>3
<1> QED BY <1>6, <1>7, <1>8

(* What holds of an element if it holds of those of lower rank holds of    *)
(* all.                                                                    *)
LEMMA ByRank ==
  ASSUME NEW D, NEW rank \in [D -> Nat], NEW P,
         \A d \in D : (\A e \in D : rank[e] < rank[d] => e \in P) => d \in P
  PROVE  D \subseteq P
<1> DEFINE S == {n \in Nat : \A d \in D : rank[d] < n => d \in P}
<1>0. \A d \in D : rank[d] \in Nat
  OBVIOUS
<1>1. 0 \in S
  BY <1>0
<1>2. ASSUME NEW n \in S PROVE n + 1 \in S
  <2>1. n \in Nat
    OBVIOUS
  <2> SUFFICES ASSUME NEW d \in D, rank[d] < n + 1 PROVE d \in P
    BY <2>1
  <2>2. \A e \in D : rank[e] < rank[d] => rank[e] < n
    BY <1>0, <2>1
  <2> QED BY <2>2
<1>3. S \in SUBSET Nat
  OBVIOUS
<1> HIDE DEF S
<1>4. S = Nat
  BY <1>1, <1>2, <1>3, CountingUp
<1>5. \A d \in D : rank[d] + 1 \in S /\ rank[d] < rank[d] + 1
  BY <1>0, <1>4
<1> QED BY <1>5 DEF S

(* A map measured: parents before their children.                          *)
Laid(n) ==
    /\ n \in Nat \ {0} /\ box \in [1 .. n -> NodeSizes]
    /\ up \in [2 .. n -> 1 .. n] /\ \A i \in 2 .. n : up[i] < i

(* Children come after their parent, so there are fewer and fewer of them. *)
LEMMA KidsLaid ==
  ASSUME NEW n, Laid(n)
  PROVE  /\ TreeNodes = 1 .. n /\ DOMAIN up = 2 .. n /\ Topic \in 1 .. n
         /\ \A i \in 1 .. n : /\ Kids(i) \subseteq 2 .. n /\ Kids(i) \subseteq 1 .. n /\ Kids(i) \subseteq Int
                              /\ IsFiniteSet(Kids(i)) /\ box[i].h \in Nat /\ box[i].w \in Nat
                              /\ \A k \in Kids(i) : n - k < n - i /\ up[k] = i
         /\ \A i \in 2 .. n : i \in 1 .. n /\ i # Topic /\ up[i] \in 1 .. n /\ up[i] < i /\ (up[i] # Topic => up[i] \in 2 .. n)
         /\ \A i \in 1 .. n : i # Topic => i \in 2 .. n
<1>1. n \in Nat \ {0} /\ TreeNodes = 1 .. n /\ DOMAIN up = 2 .. n
  BY DEF Laid, TreeNodes
<1>2. IsFiniteSet(1 .. n)
  BY <1>1, PlacesFinite
<1>3. ASSUME NEW i \in 1 .. n
      PROVE  Kids(i) \subseteq 2 .. n /\ Kids(i) \subseteq 1 .. n /\ Kids(i) \subseteq Int
             /\ \A k \in Kids(i) : n - k < n - i /\ up[k] = i
  <2>1. Kids(i) \subseteq 2 .. n
    BY <1>1 DEF Kids
  <2>2. \A k \in Kids(i) : k \in 2 .. n /\ up[k] = i /\ i < k
    BY <1>1, <2>1 DEF Kids, Laid
  <2>3. \A k \in 2 .. n : k \in 1 .. n /\ k \in Int /\ (i < k => n - k < n - i)
    BY <1>1
  <2> QED BY <2>1, <2>2, <2>3
<1>4. \A i \in 1 .. n : IsFiniteSet(Kids(i))
  BY <1>2, <1>3, FS_Subset
<1>5. \A i \in 1 .. n : box[i].h \in Nat /\ box[i].w \in Nat
  BY TreeDrawingAssumption DEF Laid
<1>6. \A i \in 2 .. n : i \in 1 .. n /\ i # Topic /\ up[i] \in 1 .. n /\ up[i] < i /\ (up[i] # Topic => up[i] \in 2 .. n)
  BY <1>1 DEF Laid, Topic
<1>7. Topic \in 1 .. n /\ \A i \in 1 .. n : i # Topic => i \in 2 .. n
  BY <1>1 DEF Topic
<1> QED BY <1>1, <1>3, <1>4, <1>5, <1>6, <1>7

(* A band is as tall as the box and as the children.                       *)
LEMMA TallIs ==
  ASSUME NEW a \in Nat, NEW b \in Nat
  PROVE  Tall(a, b) \in Nat /\ Tall(a, b) >= a /\ Tall(a, b) >= b
<1>1. Tall(a, b) = IF a >= b THEN a ELSE b
  BY GreaterOfTwo DEF Tall
<1> QED BY <1>1

Hung(i) == [k \in Kids(i) |-> Band[k]]

(* The bands are what their recursion says.                                *)
LEMMA BandIs ==
  ASSUME NEW n, Laid(n)
  PROVE  /\ Band \in [1 .. n -> Nat]
         /\ \A i \in 1 .. n : /\ Band[i] >= box[i].h /\ Band[i] >= KidsTall(i)
                              /\ Hung(i) \in [Kids(i) -> Nat] /\ KidsTall(i) = Stacked(Hung(i))
<1> DEFINE D == 1 .. n
           rank == [i \in D |-> n - i]
           G == [g \in [D -> Nat] |-> [i \in D |-> Tall(box[i].h, Stacked([k \in Kids(i) |-> g[k]]))]]
<1>1. n \in Nat /\ TreeNodes = D /\ rank \in [D -> Nat] /\ \A d \in D : rank[d] <= n
  BY KidsLaid DEF Laid
<1>2. \A i \in D : /\ Kids(i) \subseteq D /\ Kids(i) \subseteq Int /\ IsFiniteSet(Kids(i)) /\ box[i].h \in Nat
                   /\ \A k \in Kids(i) : rank[k] < rank[i]
  BY KidsLaid
<1> HIDE DEF D, rank
<1>3. ASSUME NEW i \in D, NEW h \in [Kids(i) -> Nat] PROVE Stacked(h) \in Nat
  BY <1>2, StackedApart
<1>4. ASSUME NEW g \in [D -> Nat] PROVE G[g] \in [D -> Nat]
  <2>1. ASSUME NEW i \in D PROVE Tall(box[i].h, Stacked([k \in Kids(i) |-> g[k]])) \in Nat
    <3>1. [k \in Kids(i) |-> g[k]] \in [Kids(i) -> Nat]
      BY <1>2
    <3> QED BY <1>2, <1>3, <3>1, TallIs
  <2> QED BY <2>1
<1>5. G \in [[D -> Nat] -> [D -> Nat]]
  BY <1>4
<1>6. ASSUME NEW g \in [D -> Nat], NEW h \in [D -> Nat], NEW d \in D,
             \A e \in D : rank[e] < rank[d] => g[e] = h[e]
      PROVE  G[g][d] = G[h][d]
  <2>1. [k \in Kids(d) |-> g[k]] = [k \in Kids(d) |-> h[k]]
    BY <1>2, <1>6
  <2> QED BY <2>1
<1>7. 0 \in Nat
  OBVIOUS
<1> HIDE DEF G
<1>8. Descends(D, Nat, G, rank)
  BY <1>6, Zenon DEF Descends
<1>9. \E g \in [D -> Nat] : Fixes(g, G)
  BY ONLY <1>1, <1>5, <1>7, <1>8, Settles
<1>10. PICK g \in [D -> Nat] : G[g] = g
  BY <1>9 DEF Fixes
<1>11. \E f : f = [i \in TreeNodes |-> Tall(box[i].h, Stacked([k \in Kids(i) |-> f[k]]))]
  BY <1>1, <1>10 DEF G
<1>12. Band = [i \in D |-> Tall(box[i].h, Stacked([k \in Kids(i) |-> Band[k]]))]
  BY <1>1, <1>11 DEF Band
<1> DEFINE P == {i \in D : Band[i] \in Nat}
<1>13. ASSUME NEW d \in D, \A e \in D : rank[e] < rank[d] => e \in P
       PROVE  Band[d] \in Nat /\ Band[d] >= box[d].h /\ Band[d] >= KidsTall(d) /\ Hung(d) \in [Kids(d) -> Nat] /\ d \in P
  <2>1. \A k \in Kids(d) : Band[k] \in Nat
    BY <1>2, <1>13
  <2>2. Hung(d) \in [Kids(d) -> Nat] /\ KidsTall(d) = Stacked(Hung(d))
    BY <2>1 DEF Hung, KidsTall
  <2>3. Band[d] = Tall(box[d].h, Stacked(Hung(d)))
    BY <1>12 DEF Hung
  <2>4. Stacked(Hung(d)) \in Nat /\ box[d].h \in Nat
    BY <1>2, <1>3, <2>2
  <2>5. Band[d] \in Nat /\ Band[d] >= box[d].h /\ Band[d] >= Stacked(Hung(d))
    BY <2>3, <2>4, TallIs
  <2> QED BY <2>2, <2>5
<1>14. \A d \in D : (\A e \in D : rank[e] < rank[d] => e \in P) => d \in P
  BY <1>13
<1>15. D \subseteq P
  <2> HIDE DEF P
  <2> QED BY ONLY <1>1, <1>14, ByRank
<1>16. \A i \in D : Band[i] \in Nat /\ Band[i] >= box[i].h /\ Band[i] >= KidsTall(i) /\ Hung(i) \in [Kids(i) -> Nat]
  BY <1>13, <1>15
<1>17. Band \in [D -> Nat]
  BY <1>12, <1>16
<1>18. \A i : KidsTall(i) = Stacked(Hung(i))
  BY DEF KidsTall, Hung
<1> QED BY <1>16, <1>17, <1>18 DEF D

(* So are the depths.                                                      *)
LEMMA DepthIs ==
  ASSUME NEW n, Laid(n)
  PROVE  /\ Depth \in [1 .. n -> Nat] /\ Depth[Topic] = 0
         /\ \A i \in 2 .. n : Depth[i] = Depth[up[i]] + 1
<1> DEFINE D == 1 .. n
           rank == [i \in D |-> i]
           G == [g \in [D -> Nat] |-> [i \in D |-> IF i = Topic THEN 0 ELSE g[up[i]] + 1]]
<1>1. n \in Nat /\ TreeNodes = D /\ rank \in [D -> Nat] /\ \A d \in D : rank[d] <= n
  BY KidsLaid DEF Laid
<1>2. \A i \in D : i # Topic => up[i] \in D /\ rank[up[i]] < rank[i]
  BY KidsLaid
<1>3. Topic \in D /\ \A i \in 2 .. n : i \in D /\ i # Topic
  BY KidsLaid
<1> HIDE DEF D, rank
<1>4. ASSUME NEW g \in [D -> Nat] PROVE G[g] \in [D -> Nat]
  <2>1. \A i \in D : i # Topic => g[up[i]] \in Nat
    BY <1>2
  <2> QED BY <2>1
<1>5. G \in [[D -> Nat] -> [D -> Nat]]
  BY <1>4
<1>6. ASSUME NEW g \in [D -> Nat], NEW h \in [D -> Nat], NEW d \in D,
             \A e \in D : rank[e] < rank[d] => g[e] = h[e]
      PROVE  G[g][d] = G[h][d]
  <2>1. d # Topic => g[up[d]] = h[up[d]]
    BY <1>2, <1>6
  <2> QED BY <2>1
<1>7. 0 \in Nat
  OBVIOUS
<1> HIDE DEF G
<1>8. Descends(D, Nat, G, rank)
  BY <1>6, Zenon DEF Descends
<1>9. \E g \in [D -> Nat] : Fixes(g, G)
  BY ONLY <1>1, <1>5, <1>7, <1>8, Settles
<1>10. PICK g \in [D -> Nat] : G[g] = g
  BY <1>9 DEF Fixes
<1>11. \E f : f = [i \in TreeNodes |-> IF i = Topic THEN 0 ELSE f[up[i]] + 1]
  BY <1>1, <1>10 DEF G
<1>12. Depth = [i \in D |-> IF i = Topic THEN 0 ELSE Depth[up[i]] + 1]
  BY <1>1, <1>11 DEF Depth
<1> DEFINE P == {i \in D : Depth[i] \in Nat}
<1>13. ASSUME NEW d \in D, \A e \in D : rank[e] < rank[d] => e \in P PROVE d \in P
  <2>1. d # Topic => Depth[up[d]] \in Nat
    BY <1>2, <1>13
  <2> QED BY <1>12, <2>1
<1>14. D \subseteq P
  <2> HIDE DEF P
  <2> QED BY ONLY <1>1, <1>13, ByRank
<1>15. Depth \in [D -> Nat]
  BY <1>12, <1>14
<1> QED BY <1>3, <1>12, <1>15 DEF D

(* Its branches split over the two sides.                                  *)
Sided(n) == Laid(n) /\ side \in [Kids(Topic) -> {-1, 1}]

(* So are the sides, and every node but the topic has one.                 *)
LEMMA SideIs ==
  ASSUME NEW n, Sided(n)
  PROVE  /\ SideOf \in [1 .. n -> {-1, 0, 1}]
         /\ \A i \in 2 .. n : SideOf[i] \in {-1, 1} /\ SideOf[i] = IF up[i] = Topic THEN side[i] ELSE SideOf[up[i]]
<1> DEFINE D == 1 .. n
           V == {-1, 0, 1}
           rank == [i \in D |-> i]
           G == [g \in [D -> V] |-> [i \in D |-> IF i = Topic THEN 0 ELSE IF up[i] = Topic THEN side[i] ELSE g[up[i]]]]
<1>0. Laid(n)
  BY DEF Sided
<1>1. n \in Nat /\ TreeNodes = D /\ rank \in [D -> Nat] /\ \A d \in D : rank[d] <= n
  BY <1>0, KidsLaid DEF Laid
<1>2. \A i \in D : i # Topic => up[i] \in D /\ rank[up[i]] < rank[i] /\ i \in DOMAIN up
  BY <1>0, KidsLaid
<1>3. Topic \in D /\ \A i \in 2 .. n : i \in D /\ i # Topic
  BY <1>0, KidsLaid
<1>a. \A i \in D : i # Topic /\ up[i] = Topic => side[i] \in {-1, 1}
  BY <1>2 DEF Sided, Kids
<1> HIDE DEF D, rank
<1>4. ASSUME NEW g \in [D -> V] PROVE G[g] \in [D -> V]
  <2>1. \A i \in D : i # Topic => g[up[i]] \in V
    BY <1>2
  <2> QED BY <1>a, <2>1
<1>5. G \in [[D -> V] -> [D -> V]]
  BY <1>4
<1>6. ASSUME NEW g \in [D -> V], NEW h \in [D -> V], NEW d \in D,
             \A e \in D : rank[e] < rank[d] => g[e] = h[e]
      PROVE  G[g][d] = G[h][d]
  <2>1. d # Topic => g[up[d]] = h[up[d]]
    BY <1>2, <1>6
  <2> QED BY <2>1
<1>7. 0 \in V
  OBVIOUS
<1> HIDE DEF G, V
<1>8. Descends(D, V, G, rank)
  BY <1>6, Zenon DEF Descends
<1>9. \E g \in [D -> V] : Fixes(g, G)
  BY ONLY <1>1, <1>5, <1>7, <1>8, Settles
<1>10. PICK g \in [D -> V] : G[g] = g
  BY <1>9 DEF Fixes
<1>11. \E f : f = [i \in TreeNodes |-> IF i = Topic THEN 0 ELSE IF up[i] = Topic THEN side[i] ELSE f[up[i]]]
  BY <1>1, <1>10 DEF G
<1>12. SideOf = [i \in D |-> IF i = Topic THEN 0 ELSE IF up[i] = Topic THEN side[i] ELSE SideOf[up[i]]]
  BY <1>1, <1>11 DEF SideOf
<1> DEFINE P == {i \in D : SideOf[i] \in V /\ (i # Topic => SideOf[i] \in {-1, 1})}
<1>13. ASSUME NEW d \in D, \A e \in D : rank[e] < rank[d] => e \in P PROVE d \in P
  <2>1. CASE d = Topic
    BY <1>12, <2>1 DEF V
  <2>2. CASE d # Topic /\ up[d] = Topic
    BY <1>a, <1>12, <2>2 DEF V
  <2>3. CASE d # Topic /\ up[d] # Topic
    BY <1>2, <1>12, <1>13, <2>3
  <2> QED BY <2>1, <2>2, <2>3
<1>14. D \subseteq P
  <2> HIDE DEF P
  <2> QED BY ONLY <1>1, <1>13, ByRank
<1>15. SideOf \in [D -> V]
  BY <1>12, <1>14
<1> QED BY <1>3, <1>12, <1>14, <1>15 DEF D, V

(* The bands of a symbol's siblings, the topic's those of its own side.    *)
Peers(i) == IF up[i] = Topic THEN OnSide(side[i]) ELSE Kids(up[i])
PeerBands(i) == [k \in Peers(i) |-> Band[k]]
BandsFrom(i) == IF up[i] = Topic THEN -(Stacked(PeerBands(i)) \div 2)
                ELSE Top[up[i]] + ((Band[up[i]] - KidsTall(up[i])) \div 2)

(* A node is among those it is stacked with.                               *)
LEMMA PeersLaid ==
  ASSUME NEW n, Sided(n), NEW i \in 2 .. n
  PROVE  /\ i \in Peers(i) /\ Peers(i) \subseteq Kids(up[i]) /\ Peers(i) \subseteq Int /\ IsFiniteSet(Peers(i))
         /\ PeerBands(i) \in [Peers(i) -> Nat] /\ Stacked(PeerBands(i)) \in Nat
         /\ BeginsAt(PeerBands(i), i) \in Nat
         /\ up[i] # Topic => Peers(i) = Kids(up[i]) /\ Stacked(PeerBands(i)) = KidsTall(up[i])
<1>0. Laid(n) /\ DOMAIN side = Kids(Topic)
  BY DEF Sided
<1>1. i \in 1 .. n /\ up[i] \in 1 .. n /\ DOMAIN up = 2 .. n
  BY <1>0, KidsLaid
<1>2. i \in Peers(i) /\ Peers(i) \subseteq Kids(up[i])
  BY <1>0, <1>1 DEF Peers, OnSide, Kids
<1>3. Kids(up[i]) \subseteq 1 .. n /\ Kids(up[i]) \subseteq Int /\ IsFiniteSet(Kids(up[i]))
  BY <1>0, <1>1, KidsLaid
<1>4. Peers(i) \subseteq Int /\ IsFiniteSet(Peers(i))
  BY <1>2, <1>3, FS_Subset
<1>5. \A k \in Peers(i) : Band[k] \in Nat
  BY <1>0, <1>2, <1>3, BandIs
<1>6. PeerBands(i) \in [Peers(i) -> Nat]
  BY <1>5 DEF PeerBands
<1>7. Stacked(PeerBands(i)) \in Nat /\ BeginsAt(PeerBands(i), i) \in Nat
  BY <1>2, <1>4, <1>6, StackedApart
<1>8. up[i] # Topic => Peers(i) = Kids(up[i]) /\ Stacked(PeerBands(i)) = KidsTall(up[i])
  BY DEF Peers, PeerBands, KidsTall
<1> QED BY <1>2, <1>4, <1>6, <1>7, <1>8

(* A band begins where its peers' bands begin, as far down as it is        *)
(* stacked.                                                                *)
LEMMA TopIs ==
  ASSUME NEW n, Sided(n)
  PROVE  /\ Top \in [2 .. n -> Int]
         /\ \A i \in 2 .. n : Top[i] = BandsFrom(i) + BeginsAt(PeerBands(i), i) /\ BandsFrom(i) \in Int
<1> DEFINE D == 2 .. n
           rank == [i \in D |-> i]
           Base(g, i) == IF up[i] = Topic THEN -(Stacked(PeerBands(i)) \div 2)
                         ELSE g[up[i]] + ((Band[up[i]] - KidsTall(up[i])) \div 2)
           G == [g \in [D -> Int] |-> [i \in D |-> Base(g, i) + BeginsAt(PeerBands(i), i)]]
<1>0. Laid(n)
  BY DEF Sided
<1>1. n \in Nat /\ DOMAIN up = D /\ rank \in [D -> Nat] /\ \A d \in D : rank[d] <= n
  BY <1>0, KidsLaid DEF Laid
<1>2. \A i \in D : up[i] \in 1 .. n /\ (up[i] # Topic => up[i] \in D /\ rank[up[i]] < rank[i])
  BY <1>0, KidsLaid
<1>3. \A i \in D : Stacked(PeerBands(i)) \in Nat /\ BeginsAt(PeerBands(i), i) \in Nat
  BY PeersLaid
<1>a. Band \in [1 .. n -> Nat]
  BY <1>0, BandIs
<1>b. \A i \in D : up[i] # Topic => Stacked(PeerBands(i)) = KidsTall(up[i])
  BY PeersLaid
<1>4. \A i \in D : Band[up[i]] \in Nat /\ (up[i] # Topic => KidsTall(up[i]) \in Nat)
  <2> TAKE i \in D
  <2>1. up[i] \in 1 .. n
    BY <1>2
  <2>2. Band[up[i]] \in Nat
    BY <1>a, <2>1
  <2>3. Stacked(PeerBands(i)) \in Nat
    BY <1>3
  <2>4. up[i] # Topic => KidsTall(up[i]) \in Nat
    BY <1>b, <2>3, Zenon
  <2> QED BY <2>2, <2>4
<1> HIDE DEF D, rank
<1>5. ASSUME NEW g, NEW i \in D, up[i] # Topic => g[up[i]] \in Int PROVE Base(g, i) \in Int /\ Base(g, i) + BeginsAt(PeerBands(i), i) \in Int
  <2>1. CASE up[i] = Topic
    BY <1>3, <2>1
  <2>2. CASE up[i] # Topic
    <3>1. g[up[i]] \in Int /\ Band[up[i]] \in Nat /\ KidsTall(up[i]) \in Nat
      BY <1>4, <1>5, <2>2
    <3> QED BY <1>3, <2>2, <3>1
  <2> QED BY <2>1, <2>2
<1>6. ASSUME NEW g \in [D -> Int] PROVE G[g] \in [D -> Int]
  <2>1. \A i \in D : up[i] # Topic => g[up[i]] \in Int
    BY <1>2
  <2>2. \A i \in D : Base(g, i) + BeginsAt(PeerBands(i), i) \in Int
    BY <1>5, <2>1
  <2> HIDE DEF Base
  <2> QED BY <2>2
<1>7. G \in [[D -> Int] -> [D -> Int]]
  BY <1>6
<1>8. ASSUME NEW g \in [D -> Int], NEW h \in [D -> Int], NEW d \in D,
             \A e \in D : rank[e] < rank[d] => g[e] = h[e]
      PROVE  G[g][d] = G[h][d]
  <2>1. up[d] # Topic => g[up[d]] = h[up[d]]
    BY <1>2, <1>8
  <2>2. Base(g, d) = Base(h, d)
    BY <2>1
  <2> QED BY <2>2
<1>9. 0 \in Int
  OBVIOUS
<1> HIDE DEF G
<1>10. Descends(D, Int, G, rank)
  BY <1>8, Zenon DEF Descends
<1>11. \E g \in [D -> Int] : Fixes(g, G)
  BY ONLY <1>1, <1>7, <1>9, <1>10, Settles
<1>12. PICK g \in [D -> Int] : G[g] = g
  BY <1>11 DEF Fixes
<1> DEFINE Eq(f, i) ==
      IF up[i] = Topic
      THEN LET peers == OnSide(side[i])
           IN  -(Stacked([k \in peers |-> Band[k]]) \div 2)
               + SumFunction([k \in {j \in peers : j < i} |-> Band[k] + VGap])
      ELSE f[up[i]] + ((Band[up[i]] - KidsTall(up[i])) \div 2)
               + SumFunction([k \in Before(i) |-> Band[k] + VGap])
<1>13. ASSUME NEW f, NEW i PROVE Base(f, i) + BeginsAt(PeerBands(i), i) = Eq(f, i)
  <2>1. DOMAIN PeerBands(i) = Peers(i) /\ {k \in DOMAIN PeerBands(i) : k < i} = {k \in Peers(i) : k < i}
    BY DEF PeerBands
  <2>2. \A k \in Peers(i) : PeerBands(i)[k] = Band[k]
    BY DEF PeerBands
  <2>3. [k \in {j \in DOMAIN PeerBands(i) : j < i} |-> PeerBands(i)[k] + VGap] = [k \in {j \in Peers(i) : j < i} |-> Band[k] + VGap]
    BY <2>1, <2>2
  <2>4. BeginsAt(PeerBands(i), i) = SumFunction([k \in {j \in Peers(i) : j < i} |-> Band[k] + VGap])
    BY <2>3 DEF BeginsAt
  <2>5. CASE up[i] = Topic
    <3>1. Peers(i) = OnSide(side[i])
      BY <2>5 DEF Peers
    <3> QED BY <2>4, <2>5, <3>1 DEF PeerBands
  <2>6. CASE up[i] # Topic
    <3>1. Before(i) = {j \in Peers(i) : j < i}
      BY <2>6 DEF Peers, Before
    <3> QED BY <2>4, <2>6, <3>1
  <2> QED BY <2>5, <2>6
<1> HIDE DEF Eq, Base
<1>14. \E f : f = [i \in DOMAIN up |-> Eq(f, i)]
  <2>1. g = [i \in D |-> Base(g, i) + BeginsAt(PeerBands(i), i)]
    BY <1>12 DEF G
  <2> QED BY <1>1, <1>13, <2>1
<1>15. Top = [i \in D |-> Eq(Top, i)]
  BY <1>1, <1>14 DEF Top, Eq
<1>16. Top = [i \in D |-> Base(Top, i) + BeginsAt(PeerBands(i), i)]
  BY <1>13, <1>15
<1> DEFINE P == {i \in D : Top[i] \in Int}
<1>17. ASSUME NEW d \in D, \A e \in D : rank[e] < rank[d] => e \in P PROVE d \in P
  <2>1. up[d] # Topic => Top[up[d]] \in Int
    BY <1>2, <1>17
  <2> QED BY <1>5, <1>16, <2>1
<1>18. D \subseteq P
  <2> HIDE DEF P
  <2> QED BY ONLY <1>1, <1>17, ByRank
<1>19. Top \in [D -> Int]
  BY <1>16, <1>18
<1>20. \A i \in D : Base(Top, i) = BandsFrom(i) /\ BandsFrom(i) \in Int
  <2> TAKE i \in D
  <2>1. up[i] # Topic => Top[up[i]] \in Int
    BY <1>2, <1>18
  <2>2. Base(Top, i) \in Int
    BY <1>5, <2>1
  <2> QED BY <2>2 DEF Base, BandsFrom
<1> QED BY <1>16, <1>19, <1>20 DEF D

(* A subtree's band is in its parent's, apart from its siblings'.          *)
LEMMA InParentsBand ==
  ASSUME NEW n, Sided(n), NEW i \in 2 .. n, up[i] # Topic
  PROVE  Top[up[i]] <= Top[i] /\ Top[i] + Band[i] <= Top[up[i]] + Band[up[i]]
<1>0. Laid(n)
  BY DEF Sided
<1>1. i \in 1 .. n /\ up[i] \in 1 .. n /\ up[i] \in 2 .. n
  BY <1>0, KidsLaid
<1>2. Band[i] \in Nat /\ Band[up[i]] \in Nat /\ Band[up[i]] >= KidsTall(up[i])
  BY <1>0, <1>1, BandIs
<1>3. i \in Peers(i) /\ Peers(i) \subseteq Int /\ IsFiniteSet(Peers(i)) /\ PeerBands(i) \in [Peers(i) -> Nat]
      /\ KidsTall(up[i]) = Stacked(PeerBands(i)) /\ KidsTall(up[i]) \in Nat
  BY PeersLaid
<1>4. PeerBands(i)[i] = Band[i]
  BY <1>3 DEF PeerBands
<1>5. BeginsAt(PeerBands(i), i) \in Nat /\ BeginsAt(PeerBands(i), i) + Band[i] <= KidsTall(up[i])
  BY <1>3, <1>4, StackedApart
<1>6. Top[i] = Top[up[i]] + ((Band[up[i]] - KidsTall(up[i])) \div 2) + BeginsAt(PeerBands(i), i) /\ Top[up[i]] \in Int
  BY <1>1, TopIs DEF BandsFrom
<1>7. \A t \in Int, b, k, s, c \in Nat : b >= k /\ s + c <= k =>
        t <= (t + ((b - k) \div 2)) + s /\ ((t + ((b - k) \div 2)) + s) + c <= t + b
  OBVIOUS
<1> QED BY <1>2, <1>3, <1>5, <1>6, <1>7

(* Bands under one parent, on one side, lie one below the other.           *)
LEMMA SiblingsApart ==
  ASSUME NEW n, Sided(n), NEW i \in 2 .. n, NEW j \in 2 .. n, up[i] = up[j], SideOf[i] = SideOf[j], i < j
  PROVE  Top[i] + Band[i] + VGap <= Top[j]
<1>0. Laid(n)
  BY DEF Sided
<1>1. up[i] = Topic => side[i] = side[j]
  BY SideIs
<1>2. Peers(i) = Peers(j) /\ PeerBands(i) = PeerBands(j) /\ BandsFrom(i) = BandsFrom(j)
  BY <1>1 DEF Peers, PeerBands, BandsFrom
<1>3. i \in Peers(i) /\ j \in Peers(i) /\ Peers(i) \subseteq Int /\ IsFiniteSet(Peers(i)) /\ PeerBands(i) \in [Peers(i) -> Nat]
  BY <1>2, PeersLaid
<1>4. PeerBands(i)[i] = Band[i] /\ Band[i] \in Nat
  BY <1>0, <1>3, KidsLaid, BandIs DEF PeerBands
<1>5. BeginsAt(PeerBands(i), i) \in Nat /\ BeginsAt(PeerBands(i), j) \in Nat
      /\ BeginsAt(PeerBands(i), i) + Band[i] + VGap <= BeginsAt(PeerBands(i), j)
  BY <1>3, <1>4, StackedApart
<1>6. Top[i] = BandsFrom(i) + BeginsAt(PeerBands(i), i) /\ Top[j] = BandsFrom(i) + BeginsAt(PeerBands(i), j) /\ BandsFrom(i) \in Int
  BY <1>2, TopIs
<1> QED BY <1>4, <1>5, <1>6 DEF VGap

BandsApart(i, j) == Top[i] + Band[i] + VGap <= Top[j] \/ Top[j] + Band[j] + VGap <= Top[i]

(* So do the bands of all nodes of one side and depth: each lies in its    *)
(* parent's.                                                               *)
LEMMA ColumnsApart ==
  ASSUME NEW n, Sided(n)
  PROVE  \A i, j \in 2 .. n : i # j /\ SideOf[i] = SideOf[j] /\ Depth[i] = Depth[j] => BandsApart(i, j)
<1> DEFINE S == {d \in Nat : \A i, j \in 2 .. n : i # j /\ SideOf[i] = SideOf[j] /\ Depth[i] = d /\ Depth[j] = d => BandsApart(i, j)}
<1>0. Laid(n)
  BY DEF Sided
<1>a. Depth \in [1 .. n -> Nat] /\ Band \in [1 .. n -> Nat] /\ Top \in [2 .. n -> Int]
  BY <1>0, DepthIs, BandIs, TopIs
<1>b. \A i \in 2 .. n : Depth[i] = Depth[up[i]] + 1 /\ (up[i] # Topic => SideOf[i] = SideOf[up[i]])
  BY <1>0, DepthIs, SideIs
<1>c. \A i \in 2 .. n : i \in Nat /\ i \in 1 .. n /\ up[i] \in 1 .. n /\ (up[i] # Topic => up[i] \in 2 .. n)
  BY <1>0, KidsLaid
<1>1. \A i \in 2 .. n : /\ i \in Nat /\ i \in 1 .. n /\ up[i] \in 1 .. n /\ (up[i] # Topic => up[i] \in 2 .. n)
                        /\ Depth[i] \in Nat /\ Depth[up[i]] \in Nat /\ Depth[i] = Depth[up[i]] + 1
                        /\ (up[i] # Topic => SideOf[i] = SideOf[up[i]])
                        /\ Top[i] \in Int /\ Band[i] \in Nat
  BY <1>a, <1>b, <1>c
<1>2. Depth[Topic] = 0 /\ \A i \in 2 .. n : Depth[i] # 0
  BY <1>0, <1>1, DepthIs
<1>3. 0 \in S
  BY <1>2
<1>4. ASSUME NEW d \in S PROVE d + 1 \in S
  <2> SUFFICES ASSUME NEW i \in 2 .. n, NEW j \in 2 .. n, i # j, SideOf[i] = SideOf[j], Depth[i] = d + 1, Depth[j] = d + 1
               PROVE  BandsApart(i, j)
    OBVIOUS
  <2>1. d \in Nat /\ Depth[up[i]] = d /\ Depth[up[j]] = d
    BY <1>1
  <2>2. CASE up[i] = up[j]
    <3>1. i < j \/ j < i
      BY <1>1
    <3> QED BY <2>2, <3>1, SiblingsApart DEF BandsApart
  <2>3. CASE up[i] # up[j]
    <3>1. up[i] # Topic /\ up[j] # Topic
      BY <1>1, <1>2, <2>1, <2>3
    <3>2. BandsApart(up[i], up[j])
      BY <1>1, <2>1, <2>3, <3>1
    <3>3. Top[up[i]] <= Top[i] /\ Top[i] + Band[i] <= Top[up[i]] + Band[up[i]]
      BY <3>1, InParentsBand
    <3>4. Top[up[j]] <= Top[j] /\ Top[j] + Band[j] <= Top[up[j]] + Band[up[j]]
      BY <3>1, InParentsBand
    <3>5. /\ Top[i] \in Int /\ Top[j] \in Int /\ Top[up[i]] \in Int /\ Top[up[j]] \in Int
          /\ Band[i] \in Nat /\ Band[j] \in Nat /\ Band[up[i]] \in Nat /\ Band[up[j]] \in Nat
      BY <1>0, <1>1, <3>1, BandIs
    <3> HIDE DEF S
    <3> QED BY <3>2, <3>3, <3>4, <3>5 DEF BandsApart, VGap
  <2> QED BY <2>2, <2>3
<1>5. S \in SUBSET Nat
  OBVIOUS
<1> HIDE DEF S
<1>6. S = Nat
  BY <1>3, <1>4, <1>5, CountingUp
<1>7. \A i \in 2 .. n : Depth[i] \in S
  BY <1>1, <1>6
<1> QED BY <1>7 DEF S

(* Columns: one for each depth and side.                                   *)
LEMMA WidestIs ==
  ASSUME NEW n, Laid(n), NEW s, NEW d
  PROVE  /\ Widest(s, d) \in Nat
         /\ \A i \in 1 .. n : SideOf[i] = s /\ Depth[i] = d => box[i].w <= Widest(s, d)
<1> DEFINE C == {j \in TreeNodes : SideOf[j] = s /\ Depth[j] = d}
           W == {box[i].w : i \in C}
<1>1. TreeNodes = 1 .. n /\ IsFiniteSet(1 .. n) /\ \A i \in 1 .. n : box[i].w \in Nat
  BY KidsLaid, PlacesFinite DEF Laid
<1>2. IsFiniteSet(C)
  BY <1>1, FS_Subset
<1> HIDE DEF C
<1>3. IsFiniteSet(W)
  <2> DEFINE f == [i \in C |-> box[i].w]
  <2>1. {f[i] : i \in C} = W
    OBVIOUS
  <2> HIDE DEF f, W
  <2>2. IsFiniteSet({f[i] : i \in C})
    BY <1>2, ValuesFinite
  <2> QED BY <2>1, <2>2
<1>4. \A i \in C : i \in 1 .. n
  BY <1>1 DEF C
<1>5. W \cup {0} \subseteq Nat
  BY <1>1, <1>4
<1>6. IsFiniteSet(W \cup {0})
  BY <1>3, FS_AddElement
<1>7. Widest(s, d) = Max(W \cup {0})
  BY DEF Widest, C
<1>8. \A i \in 1 .. n : SideOf[i] = s /\ Depth[i] = d => box[i].w \in W
  BY <1>1 DEF C
<1> HIDE DEF W
<1>9. Max(W \cup {0}) \in W \cup {0} /\ \A y \in W \cup {0} : y <= Max(W \cup {0})
  <2>1. W \cup {0} # {} /\ W \cup {0} \subseteq Int
    BY <1>5
  <2> QED BY <1>6, <2>1, FiniteMost
<1> QED BY <1>5, <1>7, <1>8, <1>9

(* The columns lie further out the deeper they are, a gap past the widest  *)
(* box.                                                                    *)
LEMMA EdgesApart ==
  ASSUME NEW n, Laid(n), NEW s, NEW d \in Nat \ {0}
  PROVE  /\ Edge(s, d) \in Nat /\ Edge(s, d) >= (box[Topic].w \div 2) + HGap
         /\ \A e \in Nat : d < e => Edge(s, d) + Widest(s, d) + HGap <= Edge(s, e)
<1> DEFINE w == box[Topic].w \div 2
           PlaceAt(e) == [k \in 1 .. e - 1 |-> Widest(s, k) + HGap]
           Sum(e) == SumFunctionOnSet(PlaceAt(e), 1 .. e - 1)
<1>1. w \in Nat
  BY KidsLaid
<1>2. \A k : Widest(s, k) \in Nat /\ Widest(s, k) + HGap \in Nat
  BY WidestIs DEF HGap
<1>3. ASSUME NEW e \in Nat \ {0} PROVE Edge(s, e) = w + HGap + Sum(e) /\ Sum(e) \in Nat /\ IsFiniteSet(1 .. e - 1)
  <2>1. e - 1 \in Nat
    OBVIOUS
  <2>2. IsFiniteSet(1 .. e - 1)
    BY <2>1, PlacesFinite
  <2>3. Edge(s, e) = w + HGap + Sum(e)
    BY DEF Edge, SumFunction
  <2>4. \A k \in 1 .. e - 1 : PlaceAt(e)[k] \in Nat
    BY <1>2
  <2>5. 1 .. e - 1 \in SUBSET (1 .. e - 1)
    OBVIOUS
  <2> HIDE DEF PlaceAt
  <2>6. Sum(e) \in Nat
    BY <2>2, <2>4, <2>5, SumGrows
  <2> QED BY <2>2, <2>3, <2>6
<1>4. ASSUME NEW e \in Nat, d < e PROVE Sum(d) + (Widest(s, d) + HGap) <= Sum(e)
  <2>1. e \in Nat \ {0} /\ 1 .. d \in SUBSET (1 .. e - 1) /\ (d - 1) + 1 = d /\ d - 1 \in Nat
    BY <1>4
  <2>2. \A k \in 1 .. e - 1 : PlaceAt(e)[k] \in Nat
    BY <1>2
  <2>3. (\A k \in 1 .. d : PlaceAt(e)[k] \in Int) /\ PlaceAt(e)[d] = Widest(s, d) + HGap
    BY <1>2, <2>1
  <2>4. \A k \in 1 .. d - 1 : PlaceAt(d)[k] = PlaceAt(e)[k] /\ PlaceAt(e)[k] \in Int
    BY <1>2, <2>1
  <2>5. IsFiniteSet(1 .. e - 1) /\ IsFiniteSet(1 .. d - 1)
    BY <1>3, <2>1
  <2> HIDE DEF PlaceAt
  <2>6. SumFunctionOnSet(PlaceAt(e), 1 .. d) <= SumFunctionOnSet(PlaceAt(e), 1 .. e - 1) /\ SumFunctionOnSet(PlaceAt(e), 1 .. d) \in Nat
    BY <2>1, <2>2, <2>5, SumGrows
  <2>7. SumFunctionOnSet(PlaceAt(e), 1 .. (d - 1) + 1) = SumFunctionOnSet(PlaceAt(e), 1 .. d - 1) + PlaceAt(e)[(d - 1) + 1]
    BY <2>1, <2>3, SumOfPlaces
  <2>8. SumFunctionOnSet(PlaceAt(d), 1 .. d - 1) = SumFunctionOnSet(PlaceAt(e), 1 .. d - 1)
    BY <2>4, <2>5, SumAgrees
  <2> QED BY <2>1, <2>3, <2>6, <2>7, <2>8
<1> HIDE DEF w, Sum
<1>5. \A e \in Nat : d < e => e \in Nat \ {0}
  OBVIOUS
<1>6. Edge(s, d) = w + HGap + Sum(d) /\ Sum(d) \in Nat
  BY <1>3
<1>7. \A e \in Nat : d < e => Edge(s, e) = w + HGap + Sum(e) /\ Sum(e) \in Nat /\ Sum(d) + (Widest(s, d) + HGap) <= Sum(e)
  BY <1>3, <1>4, <1>5
<1>8. HGap = 64
  BY DEF HGap
<1>9. \A x, a, b, c \in Nat : x + 64 + a \in Nat /\ x + 64 + a >= x + 64
                             /\ (a + (c + 64) <= b => (x + 64 + a) + c + 64 <= x + 64 + b)
  OBVIOUS
<1>10. Edge(s, d) \in Nat /\ Edge(s, d) >= w + HGap
  BY <1>1, <1>6, <1>8, <1>9
<1>11. ASSUME NEW e \in Nat, d < e PROVE Edge(s, d) + Widest(s, d) + HGap <= Edge(s, e)
  <2>1. Edge(s, e) = w + HGap + Sum(e) /\ Sum(e) \in Nat /\ Sum(d) + (Widest(s, d) + HGap) <= Sum(e) /\ Widest(s, d) \in Nat
    BY <1>2, <1>7, <1>11
  <2> QED BY <1>1, <1>6, <1>8, <1>9, <2>1
<1> QED BY <1>10, <1>11 DEF w

(* How far apart two are, along one axis.                                  *)
LEMMA Distance ==
  ASSUME NEW a \in Int, NEW b \in Int
  PROVE  Max({a - b, b - a}) \in Int /\ Max({a - b, b - a}) >= a - b /\ Max({a - b, b - a}) >= b - a
<1>1. a - b \in Int /\ b - a \in Int
  OBVIOUS
<1>2. Max({a - b, b - a}) = IF a - b >= b - a THEN a - b ELSE b - a
  BY <1>1, GreaterOfTwo
<1> QED BY <1>1, <1>2

Beside(i, j) == 2 * Max({X(i) - X(j), X(j) - X(i)}) >= box[i].w + box[j].w
Over(i, j) == 2 * Max({Y(i) - Y(j), Y(j) - Y(i)}) >= box[i].h + box[j].h

(* Boxes of two columns lie beside each other.                             *)
LEMMA SidesApart ==
  ASSUME NEW n, Sided(n), NEW i \in 2 .. n, NEW j \in 2 .. n, SideOf[i] # SideOf[j] \/ Depth[i] < Depth[j]
  PROVE  Beside(i, j) /\ Beside(j, i)
<1> DEFINE s == SideOf[i]
           t == SideOf[j]
           d == Depth[i]
           e == Depth[j]
<1>0. Laid(n)
  BY DEF Sided
<1>1. i \in 1 .. n /\ j \in 1 .. n /\ i # Topic /\ j # Topic /\ Topic \in 1 .. n
  BY <1>0, KidsLaid
<1>2. s \in {-1, 1} /\ t \in {-1, 1}
  BY SideIs
<1>3. d \in Nat \ {0} /\ e \in Nat \ {0}
  <2>1. up[i] \in 1 .. n /\ up[j] \in 1 .. n
    BY <1>0, KidsLaid
  <2>2. Depth \in [1 .. n -> Nat] /\ Depth[i] = Depth[up[i]] + 1 /\ Depth[j] = Depth[up[j]] + 1
    BY <1>0, DepthIs
  <2>3. Depth[up[i]] \in Nat /\ Depth[up[j]] \in Nat
    BY <2>1, <2>2
  <2> QED BY <2>2, <2>3
<1>4. box[i].w \in Nat /\ box[j].w \in Nat /\ box[i].w <= Widest(s, d) /\ box[j].w <= Widest(t, e)
      /\ Widest(s, d) \in Nat /\ Widest(t, e) \in Nat /\ box[Topic].w \in Nat
  BY <1>0, <1>1, KidsLaid, WidestIs
<1>5. X(i) = s * (Edge(s, d) + (Widest(s, d) \div 2)) /\ X(j) = t * (Edge(t, e) + (Widest(t, e) \div 2))
  BY <1>1 DEF X
<1> HIDE DEF s, t, d, e
<1>6. Edge(s, d) \in Nat /\ Edge(t, e) \in Nat /\ Edge(s, d) >= (box[Topic].w \div 2) + HGap /\ Edge(t, e) >= (box[Topic].w \div 2) + HGap
  BY <1>0, <1>3, EdgesApart
<1>7. s = t => d < e /\ Edge(s, d) + Widest(s, d) + HGap <= Edge(t, e)
  BY <1>0, <1>3, EdgesApart DEF s, t, d, e
<1>a. (box[Topic].w \div 2) \in Nat
  BY <1>4
<1>8. Edge(s, d) >= 64 /\ Edge(t, e) >= 64
  BY <1>6, <1>a DEF HGap
<1>9. X(i) \in Int /\ X(j) \in Int
  BY <1>2, <1>4, <1>5, <1>6
<1>10. 2 * (X(i) - X(j)) >= box[i].w + box[j].w \/ 2 * (X(j) - X(i)) >= box[i].w + box[j].w
  <2>1. CASE s = t
    <3>1. Edge(s, d) + Widest(s, d) + 64 <= Edge(t, e)
      BY <1>7, <2>1 DEF HGap
    <3>2. CASE s = 1
      <4>1. X(i) = Edge(s, d) + (Widest(s, d) \div 2) /\ X(j) = Edge(t, e) + (Widest(t, e) \div 2)
        BY <1>4, <1>5, <1>6, <2>1, <3>2
      <4>2. 2 * (X(j) - X(i)) >= box[i].w + box[j].w
        BY <1>4, <1>6, <3>1, <4>1
      <4> QED BY <4>2
    <3>3. CASE s = -1
      <4>1. X(i) = -(Edge(s, d) + (Widest(s, d) \div 2)) /\ X(j) = -(Edge(t, e) + (Widest(t, e) \div 2))
        BY <1>4, <1>5, <1>6, <2>1, <3>3
      <4>2. 2 * (X(i) - X(j)) >= box[i].w + box[j].w
        BY <1>4, <1>6, <3>1, <4>1
      <4> QED BY <4>2
    <3> QED BY <1>2, <3>2, <3>3
  <2>2. CASE s = 1 /\ t = -1
    <3>1. X(i) = Edge(s, d) + (Widest(s, d) \div 2) /\ X(j) = -(Edge(t, e) + (Widest(t, e) \div 2))
      BY <1>4, <1>5, <1>6, <2>2
    <3>2. 2 * (X(i) - X(j)) >= box[i].w + box[j].w
      BY <1>4, <1>6, <1>8, <3>1
    <3> QED BY <3>2
  <2>3. CASE s = -1 /\ t = 1
    <3>1. X(i) = -(Edge(s, d) + (Widest(s, d) \div 2)) /\ X(j) = Edge(t, e) + (Widest(t, e) \div 2)
      BY <1>4, <1>5, <1>6, <2>3
    <3>2. 2 * (X(j) - X(i)) >= box[i].w + box[j].w
      BY <1>4, <1>6, <1>8, <3>1
    <3> QED BY <3>2
  <2> QED BY <1>2, <2>1, <2>2, <2>3
<1>11. Max({X(i) - X(j), X(j) - X(i)}) \in Int /\ Max({X(i) - X(j), X(j) - X(i)}) >= X(i) - X(j) /\ Max({X(i) - X(j), X(j) - X(i)}) >= X(j) - X(i)
       /\ {X(i) - X(j), X(j) - X(i)} = {X(j) - X(i), X(i) - X(j)}
  BY <1>9, Distance
<1>12. 2 * Max({X(i) - X(j), X(j) - X(i)}) >= box[i].w + box[j].w
  <2>1. \A m, a, b, w, v \in Int : m >= a - b /\ m >= b - a /\ (2 * (a - b) >= w + v \/ 2 * (b - a) >= w + v) => 2 * m >= w + v
    OBVIOUS
  <2>2. box[i].w \in Int /\ box[j].w \in Int
    BY <1>4
  <2> QED BY <1>9, <1>10, <1>11, <2>1, <2>2
<1>13. box[i].w + box[j].w = box[j].w + box[i].w
  BY <1>4
<1> QED BY <1>11, <1>12, <1>13 DEF Beside

(* The topic lies beside all.                                              *)
LEMMA FromTopic ==
  ASSUME NEW n, Sided(n), NEW j \in 2 .. n
  PROVE  Beside(Topic, j) /\ Beside(j, Topic)
<1> DEFINE s == SideOf[j]
           d == Depth[j]
           w == box[Topic].w
<1>0. Laid(n)
  BY DEF Sided
<1>1. j \in 1 .. n /\ j # Topic /\ Topic \in 1 .. n
  BY <1>0, KidsLaid
<1>2. s \in {-1, 1}
  BY SideIs
<1>3. d \in Nat \ {0}
  <2>1. up[j] \in 1 .. n
    BY <1>0, KidsLaid
  <2>2. Depth \in [1 .. n -> Nat] /\ Depth[j] = Depth[up[j]] + 1
    BY <1>0, DepthIs
  <2>3. Depth[up[j]] \in Nat
    BY <2>1, <2>2
  <2> QED BY <2>2, <2>3
<1>4. box[j].w \in Nat /\ box[j].w <= Widest(s, d) /\ Widest(s, d) \in Nat /\ w \in Nat
  BY <1>0, <1>1, KidsLaid, WidestIs
<1>5. X(j) = s * (Edge(s, d) + (Widest(s, d) \div 2)) /\ X(Topic) = 0
  BY <1>1 DEF X
<1>6. Edge(s, d) \in Nat /\ Edge(s, d) >= (w \div 2) + 64
  BY <1>0, <1>3, EdgesApart DEF HGap
<1> HIDE DEF s, d, w
<1>7. X(j) \in Int /\ X(Topic) \in Int
  BY <1>2, <1>4, <1>5, <1>6
<1>8. 2 * (X(Topic) - X(j)) >= w + box[j].w \/ 2 * (X(j) - X(Topic)) >= w + box[j].w
  <2>1. 2 * (Edge(s, d) + (Widest(s, d) \div 2)) >= w + box[j].w
    BY <1>4, <1>6
  <2>2. CASE s = 1
    <3>1. X(j) - X(Topic) = Edge(s, d) + (Widest(s, d) \div 2)
      BY <1>4, <1>5, <1>6, <2>2
    <3> QED BY <2>1, <3>1
  <2>3. CASE s = -1
    <3>1. X(Topic) - X(j) = Edge(s, d) + (Widest(s, d) \div 2)
      BY <1>4, <1>5, <1>6, <2>3
    <3> QED BY <2>1, <3>1
  <2> QED BY <1>2, <2>2, <2>3
<1>9. /\ Max({X(Topic) - X(j), X(j) - X(Topic)}) \in Int
      /\ Max({X(Topic) - X(j), X(j) - X(Topic)}) >= X(Topic) - X(j)
      /\ Max({X(Topic) - X(j), X(j) - X(Topic)}) >= X(j) - X(Topic)
      /\ {X(Topic) - X(j), X(j) - X(Topic)} = {X(j) - X(Topic), X(Topic) - X(j)}
  BY <1>7, Distance
<1>10. 2 * Max({X(Topic) - X(j), X(j) - X(Topic)}) >= w + box[j].w
  <2>1. \A m, a, b, x, v \in Int : m >= a - b /\ m >= b - a /\ (2 * (a - b) >= x + v \/ 2 * (b - a) >= x + v) => 2 * m >= x + v
    OBVIOUS
  <2>2. box[j].w \in Int /\ w \in Int
    BY <1>4
  <2> QED BY <1>7, <1>8, <1>9, <2>1, <2>2
<1>11. w + box[j].w = box[j].w + w
  BY <1>4
<1> QED BY <1>9, <1>10, <1>11 DEF Beside, w

(* Boxes of one column lie one below the other, as their bands do.         *)
LEMMA InColumnApart ==
  ASSUME NEW n, Sided(n), NEW i \in 2 .. n, NEW j \in 2 .. n, i # j, SideOf[i] = SideOf[j], Depth[i] = Depth[j]
  PROVE  Over(i, j)
<1>0. Laid(n)
  BY DEF Sided
<1>1. i \in 1 .. n /\ j \in 1 .. n /\ i # Topic /\ j # Topic
  BY <1>0, KidsLaid
<1>2. BandsApart(i, j)
  BY ColumnsApart
<1>3. /\ Band[i] \in Nat /\ Band[j] \in Nat /\ Band[i] >= box[i].h /\ Band[j] >= box[j].h
      /\ box[i].h \in Nat /\ box[j].h \in Nat /\ Top[i] \in Int /\ Top[j] \in Int
  <2>1. Band \in [1 .. n -> Nat] /\ Band[i] >= box[i].h /\ Band[j] >= box[j].h
    BY <1>0, <1>1, BandIs
  <2>2. box[i].h \in Nat /\ box[j].h \in Nat
    BY <1>0, <1>1, KidsLaid
  <2>3. Top \in [2 .. n -> Int]
    BY TopIs
  <2> QED BY <1>1, <2>1, <2>2, <2>3
<1>4. Y(i) = Top[i] + (Band[i] \div 2) /\ Y(j) = Top[j] + (Band[j] \div 2)
  BY <1>1 DEF Y
<1>5. Y(i) \in Int /\ Y(j) \in Int
  BY <1>3, <1>4
<1>6. 2 * (Y(i) - Y(j)) >= box[i].h + box[j].h \/ 2 * (Y(j) - Y(i)) >= box[i].h + box[j].h
  <2>1. CASE Top[i] + Band[i] + VGap <= Top[j]
    <3>1. 2 * (Y(j) - Y(i)) >= box[i].h + box[j].h
      BY <1>3, <1>4, <2>1 DEF VGap
    <3> QED BY <3>1
  <2>2. CASE Top[j] + Band[j] + VGap <= Top[i]
    <3>1. 2 * (Y(i) - Y(j)) >= box[i].h + box[j].h
      BY <1>3, <1>4, <2>2 DEF VGap
    <3> QED BY <3>1
  <2> QED BY <1>2, <2>1, <2>2 DEF BandsApart
<1>7. /\ Max({Y(i) - Y(j), Y(j) - Y(i)}) \in Int
      /\ Max({Y(i) - Y(j), Y(j) - Y(i)}) >= Y(i) - Y(j) /\ Max({Y(i) - Y(j), Y(j) - Y(i)}) >= Y(j) - Y(i)
  BY <1>5, Distance
<1>8. \A m, a, b, x, v \in Int : m >= a - b /\ m >= b - a /\ (2 * (a - b) >= x + v \/ 2 * (b - a) >= x + v) => 2 * m >= x + v
  OBVIOUS
<1>9. box[i].h \in Int /\ box[j].h \in Int
  BY <1>3
<1>10. 2 * Max({Y(i) - Y(j), Y(j) - Y(i)}) >= box[i].h + box[j].h
  BY <1>5, <1>6, <1>7, <1>8, <1>9
<1> QED BY <1>10 DEF Over

(* So no two boxes touch.                                                  *)
LEMMA PlacedApart ==
  ASSUME NEW n, Sided(n)
  PROVE  \A i, j \in TreeNodes : i < j => Beside(i, j) \/ Over(i, j)
<1>0. Laid(n)
  BY DEF Sided
<1>1. TreeNodes = 1 .. n /\ \A i \in 1 .. n : i # Topic => i \in 2 .. n
  BY <1>0, KidsLaid
<1> TAKE i, j \in TreeNodes
<1> HAVE i < j
<1>2. i \in Int /\ j \in Int /\ i # j
  BY <1>0, <1>1
<1>3. CASE i = Topic
  BY <1>1, <1>2, <1>3, FromTopic
<1>4. CASE j = Topic
  BY <1>1, <1>2, <1>4, FromTopic
<1>5. CASE i # Topic /\ j # Topic
  <2>1. i \in 2 .. n /\ j \in 2 .. n
    BY <1>1, <1>5
  <2>2. CASE SideOf[i] # SideOf[j]
    BY <2>1, <2>2, SidesApart
  <2>3. CASE SideOf[i] = SideOf[j] /\ Depth[i] = Depth[j]
    BY <1>2, <2>1, <2>3, InColumnApart
  <2>4. CASE Depth[i] # Depth[j]
    <3>1. Depth[i] \in Nat /\ Depth[j] \in Nat
      BY <1>0, <1>1, DepthIs
    <3>2. Depth[i] < Depth[j] \/ Depth[j] < Depth[i]
      BY <2>4, <3>1
    <3> QED BY <2>1, <3>2, SidesApart
  <2> QED BY <2>2, <2>3, <2>4
<1> QED BY <1>3, <1>4, <1>5

(* What the steps keep of a map's layout.                                  *)
Laying == \E n \in Nat \ {0} : Laid(n) /\ side \in [DOMAIN side -> {-1, 1}] /\ DOMAIN side \subseteq Kids(Topic)

PlacesInv ==
    /\ drawing \in {"splitting", "placed"} => Laying
    /\ drawing \notin {"splitting", "placed"} => side = <<>>
    /\ drawing = "placed" => Unsplit = {}

(* Nothing is laid out at first.                                           *)
LEMMA PlacesStart == TreeInit => PlacesInv
BY DEF TreeInit, PlacesInv

(* A node is laid out under an earlier one, and each child of the topic    *)
(* gets its side.                                                          *)
LEMMA PlacesKeep == PlacesInv /\ [TreeNext]_treeVars => PlacesInv'
<1> SUFFICES ASSUME PlacesInv, [TreeNext]_treeVars PROVE PlacesInv'
  OBVIOUS
<1>1. CASE UNCHANGED treeVars
  BY <1>1 DEF treeVars, PlacesInv, Laying, Laid, Unsplit, Kids
<1>2. CASE NextWord \/ PutWord \/ EndLine \/ EndText
  <2>1. UNCHANGED <<up, box, side>> /\ drawing \notin {"splitting", "placed"}
    BY <1>2 DEF NextWord, PutWord, EndLine, Breaks, EndText
  <2>2. drawing' \in {"wrapping", "wrapped"}
    BY <1>2 DEF NextWord, PutWord, EndLine, Breaks, EndText
  <2> QED BY <2>1, <2>2 DEF PlacesInv
<1>3. CASE MeasureText
  <2>1. PICK n \in 1 .. MaxNodes : box' \in [1 .. n -> NodeSizes]
                                   /\ up' \in {u \in [2 .. n -> 1 .. n] : \A i \in 2 .. n : u[i] < i}
    BY <1>3 DEF MeasureText
  <2>2. drawing' = "splitting" /\ side' = <<>>
    BY <1>3 DEF MeasureText, PlacesInv
  <2>3. n \in Nat \ {0}
    BY TreeDrawingAssumption
  <2>4. Laid(n)'
    BY <2>1, <2>3 DEF Laid
  <2>5. side' \in [DOMAIN side' -> {-1, 1}] /\ DOMAIN side' = {}
    BY <2>2
  <2> QED BY <2>2, <2>3, <2>4, <2>5 DEF PlacesInv, Laying
<1>4. CASE Split
  <2> DEFINE k == Min(Unsplit)
  <2>1. drawing = "splitting" /\ Unsplit # {} /\ UNCHANGED <<drawing, up, box>>
        /\ side' = [j \in DOMAIN side \cup {k} |->
                        IF j # k THEN side[j] ELSE IF Filled(1) <= Filled(-1) THEN 1 ELSE -1]
    BY <1>4 DEF Split
  <2>2. PICK n \in Nat \ {0} : Laid(n) /\ side \in [DOMAIN side -> {-1, 1}] /\ DOMAIN side \subseteq Kids(Topic)
    BY <2>1 DEF PlacesInv, Laying
  <2>3. Laid(n)' /\ Kids(Topic)' = Kids(Topic)
    BY <2>1, <2>2 DEF Laid, Kids
  <2>4. k \in Kids(Topic)
    <3>1. Kids(Topic) \subseteq 1 .. n
      BY <2>2, KidsLaid
    <3>2. Unsplit \in SUBSET Nat /\ Unsplit \subseteq Kids(Topic)
      BY <3>1 DEF Unsplit
    <3>3. \E t \in Unsplit : \A s \in Unsplit : t <= s
      BY <2>1, <3>2, LeastOne
    <3>4. k \in Unsplit
      BY <3>3 DEF Min
    <3> QED BY <3>2, <3>4
  <2> HIDE DEF k
  <2>5. side' \in [DOMAIN side' -> {-1, 1}] /\ DOMAIN side' \subseteq Kids(Topic)
    BY <2>1, <2>2, <2>4
  <2> QED BY <2>1, <2>2, <2>3, <2>5 DEF PlacesInv, Laying
<1>5. CASE PlaceBox
  <2>1. UNCHANGED <<up, box, side>> /\ Unsplit = {} /\ drawing = "splitting" /\ drawing' = "placed"
    BY <1>5 DEF PlaceBox
  <2>2. Laying' /\ Unsplit' = {}
    BY <2>1 DEF PlacesInv, Laying, Laid, Unsplit, Kids
  <2> QED BY <2>1, <2>2 DEF PlacesInv
<1> QED BY <1>1, <1>2, <1>3, <1>4, <1>5 DEF TreeNext

(* Hence the boxes of a tree that is placed do not touch.                  *)
LEMMA PlacesTell == PlacesInv => BoxesApart
<1> SUFFICES ASSUME PlacesInv, drawing = "placed"
             PROVE  \A i, j \in TreeNodes : i < j => Beside(i, j) \/ Over(i, j)
  BY DEF BoxesApart, Beside, Over
<1>1. PICK n \in Nat \ {0} : Laid(n) /\ side \in [DOMAIN side -> {-1, 1}] /\ DOMAIN side \subseteq Kids(Topic)
  BY DEF PlacesInv, Laying
<1>2. Kids(Topic) = DOMAIN side
  BY <1>1 DEF PlacesInv, Unsplit
<1>3. Sided(n)
  BY <1>1, <1>2 DEF Sided
<1> QED BY <1>3, PlacedApart

(* A drawn map can be read: no box over another, no text cut unsaid.       *)
THEOREM TreesStayApart == TreeSpec => []TreeDrawn
<1>1. TreeInit => TextInv /\ PlacesInv
  BY TextInitInv, PlacesStart
<1>2. (TextInv /\ PlacesInv) /\ [TreeNext]_treeVars => (TextInv /\ PlacesInv)'
  BY TextKeeps, PlacesKeep
<1>3. TextInv /\ PlacesInv => TreeDrawn
  BY PlacesTell DEF TextInv, TreeDrawn
<1> QED BY <1>1, <1>2, <1>3, PTL DEF TreeSpec

-----------------------------------------------------------------------------
(* Which arrows of a flowchart close a cycle: depth-first.                 *)

(* A row of a set names each of its members once.                          *)
LEMMA InRow ==
  ASSUME NEW S, IsFiniteSet(S), NEW q \in SetToSeqs(S)
  PROVE  /\ q \in Seq(S) /\ q \in [1 .. Len(q) -> S] /\ Len(q) = Cardinality(S) /\ Len(q) \in Nat /\ DOMAIN q = 1 .. Len(q)
         /\ \A x \in S : \E i \in 1 .. Len(q) : q[i] = x
         /\ \A i, j \in 1 .. Len(q) : i # j => q[i] # q[j]
<1> DEFINE n == Cardinality(S)
<1>1. n \in Nat
  BY FS_CardinalityType
<1>2. q \in [1 .. n -> S] /\ \A i, j \in 1 .. n : i # j => q[i] # q[j]
  BY DEF SetToSeqs
<1>3. Cardinality(1 .. n) = n
  <2>1. 1 \in Int /\ n \in Int
    BY <1>1
  <2>2. Cardinality(1 .. n) = IF 1 > n THEN 0 ELSE n - 1 + 1
    BY <2>1, FS_Interval
  <2> QED BY <1>1, <2>2
<1>4. q \in Injection(1 .. n, S)
  BY <1>2 DEF Injection, IsInjective
<1>5. q \in Surjection(1 .. n, S)
  <2> HIDE DEF n
  <2>1. (Cardinality(1 .. n) = Cardinality(S)) <=> q \in Surjection(1 .. n, S)
    BY <1>4, FS_Injection
  <2> QED BY <1>3, <2>1 DEF n
<1>6. \A x \in S : \E i \in 1 .. n : q[i] = x
  BY <1>5 DEF Surjection
<1> HIDE DEF n
<1>7. q \in Seq(S) /\ Len(q) = n /\ DOMAIN q = 1 .. n
  BY <1>1, <1>2
<1> QED BY <1>1, <1>2, <1>6, <1>7 DEF n

(* A stack whose top is replaced is the same below it.                     *)
LEMMA TopChanged ==
  ASSUME NEW S, NEW s \in Seq(S), s # <<>>, NEW e \in S
  PROVE  /\ Len(s) \in Nat \ {0} /\ Last(s) = s[Len(s)] /\ Last(s) \in S
         /\ Front(s) \in Seq(S) /\ Len(Front(s)) = Len(s) - 1 /\ \A k \in 1 .. Len(s) - 1 : Front(s)[k] = s[k]
         /\ Append(Front(s), e) \in Seq(S) /\ Len(Append(Front(s), e)) = Len(s)
         /\ Append(Front(s), e)[Len(s)] = e /\ \A k \in 1 .. Len(s) - 1 : Append(Front(s), e)[k] = s[k]
<1>1. Len(s) \in Nat \ {0} /\ Last(s) = s[Len(s)] /\ Last(s) \in S
  BY DEF Last
<1>2. Front(s) \in Seq(S) /\ Len(Front(s)) = Len(s) - 1 /\ \A k \in 1 .. Len(s) - 1 : Front(s)[k] = s[k]
  <2>1. Len(s) - 1 \in Nat /\ Len(s) - 1 <= Len(s)
    BY <1>1
  <2>2. \A m \in Nat : m <= Len(s) => SubSeq(s, 1, m) \in Seq(S) /\ Len(SubSeq(s, 1, m)) = m /\ \A k \in 1 .. m : SubSeq(s, 1, m)[k] = s[k]
    OBVIOUS
  <2> QED BY <2>1, <2>2, Zenon DEF Front
<1>3. Append(Front(s), e) \in Seq(S) /\ Len(Append(Front(s), e)) = Len(s)
  BY <1>1, <1>2
<1>4. Append(Front(s), e)[Len(s)] = e
  BY <1>1, <1>2
<1>5. \A k \in 1 .. Len(s) - 1 : Append(Front(s), e)[k] = s[k]
  BY <1>1, <1>2
<1> QED BY <1>1, <1>2, <1>3, <1>4, <1>5

StackEntries == Symbols \X (1 .. MaxArrows + 1)

Stages == {"waiting", "marking", "layering", "packing", "drawn"}

FlowTypes ==
    /\ arrows \in Seq(Arrow) /\ Len(arrows) <= MaxArrows
    /\ \A i \in DOMAIN arrows : arrows[i].from # arrows[i].to
    /\ stage \in Stages
    /\ mark \in [Symbols -> 0 .. 2] /\ stack \in Seq(StackEntries)
    /\ back \subseteq Symbols \X Symbols
    /\ layer \in [Symbols -> Nat] /\ indeg \in [Symbols -> Nat] /\ queue \in Seq(Symbols)

(* What the types say of each entry and each arrow.                        *)
LEMMA FlowTypesSay ==
  ASSUME FlowTypes
  PROVE  /\ Len(stack) \in Nat /\ DOMAIN stack = 1 .. Len(stack)
         /\ \A k \in 1 .. Len(stack) : stack[k][1] \in Symbols /\ stack[k][2] \in Nat \ {0} /\ stack[k] = <<stack[k][1], stack[k][2]>>
         /\ Len(arrows) \in Nat /\ Len(arrows) <= MaxArrows /\ DOMAIN arrows = 1 .. Len(arrows)
         /\ \A i \in 1 .. Len(arrows) : arrows[i].from \in Symbols /\ arrows[i].to \in Symbols /\ arrows[i].from # arrows[i].to
         /\ MaxArrows \in Nat
<1>1. MaxArrows \in Nat
  BY FlowDrawingAssumption
<1>2. Len(stack) \in Nat /\ DOMAIN stack = 1 .. Len(stack) /\ \A k \in 1 .. Len(stack) : stack[k] \in StackEntries
  BY DEF FlowTypes
<1>3. \A p \in StackEntries : p[1] \in Symbols /\ p[2] \in Nat \ {0} /\ p = <<p[1], p[2]>>
  BY <1>1 DEF StackEntries
<1>4. Len(arrows) \in Nat /\ Len(arrows) <= MaxArrows /\ DOMAIN arrows = 1 .. Len(arrows)
  BY DEF FlowTypes
<1>5. \A i \in 1 .. Len(arrows) : arrows[i] \in Arrow /\ arrows[i].from # arrows[i].to
  <2>1. \A i \in 1 .. Len(arrows) : arrows[i] \in Arrow
    BY DEF FlowTypes
  <2>2. \A i \in 1 .. Len(arrows) : arrows[i].from # arrows[i].to
    BY <1>4, Zenon DEF FlowTypes
  <2> QED BY <2>1, <2>2
<1>6. \A i \in 1 .. Len(arrows) : arrows[i].from \in Symbols /\ arrows[i].to \in Symbols
  BY <1>5 DEF Arrow
<1> QED BY <1>1, <1>2, <1>3, <1>4, <1>5, <1>6

(* Depth-first: when each symbol was done, what is on the stack, where     *)
(* arrows that close a cycle and the others lead.                          *)
Finished(fin, c) ==
    /\ fin \in [Symbols -> Nat] /\ c \in Nat
    /\ \A s \in Symbols : mark[s] = 2 => fin[s] < c

OnStack(s) == \E k \in 1 .. Len(stack) : stack[k][1] = s

StackMarked ==
    /\ \A k, m \in 1 .. Len(stack) : stack[k][1] = stack[m][1] => k = m
    /\ \A s \in Symbols : mark[s] = 1 <=> OnStack(s)

BackLeads(fin) ==
    \A v, w \in Symbols : <<v, w>> \in back =>
        /\ mark[v] # 0
        /\ mark[v] = 2 => mark[w] = 1 \/ (mark[w] = 2 /\ fin[v] < fin[w])
        /\ \A k \in 1 .. Len(stack) : stack[k][1] = v => \E m \in 1 .. Len(stack) : m < k /\ stack[m][1] = w

OthersLead(fin) ==
    \A i \in 1 .. Len(arrows) : Pair(arrows[i]) \notin back =>
        /\ mark[arrows[i].from] = 2 => mark[arrows[i].to] = 2 /\ fin[arrows[i].to] < fin[arrows[i].from]
        /\ \A k \in 1 .. Len(stack) : stack[k][1] = arrows[i].from /\ i < stack[k][2] =>
               \/ mark[arrows[i].to] = 2
               \/ k < Len(stack) /\ stack[k + 1][1] = arrows[i].to

Searched(fin, c) == Finished(fin, c) /\ StackMarked /\ BackLeads(fin) /\ OthersLead(fin)

(* A walk starts at a symbol nobody has come to.                           *)
LEMMA StartKeeps ==
  ASSUME FlowTypes, StartMarking, NEW fin, NEW c, Searched(fin, c)
  PROVE  FlowTypes' /\ Searched(fin, c)'
<1> DEFINE s == Min(Open)
<1>0. /\ stack = <<>> /\ Open # {} /\ mark' = [mark EXCEPT ![s] = 1] /\ stack' = <<<<s, 1>>>>
      /\ UNCHANGED <<arrows, size, stage, back, layer, indeg, queue, drawnIn, across>>
  BY DEF StartMarking
<1>1. s \in Symbols /\ mark[s] = 0
  <2>1. Open \in SUBSET Nat
    BY FlowDrawingAssumption DEF Open
  <2>2. \E t \in Open : \A u \in Open : t <= u
    BY <1>0, <2>1, LeastOne
  <2>3. s \in Open
    BY <2>2 DEF Min
  <2> QED BY <2>3 DEF Open
<1> HIDE DEF s
<1>2. mark \in [Symbols -> 0 .. 2] /\ Len(stack) = 0
  BY <1>0 DEF FlowTypes
<1>3. mark'[s] = 1 /\ \A t \in Symbols : t # s => mark'[t] = mark[t]
  BY <1>0, <1>1, <1>2
<1>4. Len(stack') = 1 /\ stack'[1] = <<s, 1>> /\ stack'[1][1] = s /\ stack'[1][2] = 1
  BY <1>0
<1>5. FlowTypes'
  <2>1. mark' \in [Symbols -> 0 .. 2]
    BY <1>0, <1>1, <1>2
  <2>2. <<s, 1>> \in StackEntries
    BY <1>1, FlowDrawingAssumption DEF StackEntries
  <2>3. stack' \in Seq(StackEntries)
    BY <1>0, <2>2
  <2> QED BY <1>0, <2>1, <2>3 DEF FlowTypes
<1>6. Finished(fin, c)'
  BY <1>3 DEF Searched, Finished
<1>7. \A t \in Symbols : mark[t] # 1
  BY <1>2 DEF Searched, StackMarked, OnStack
<1>8. \A k \in 1 .. Len(stack') : k = 1
  BY <1>4
<1>9. StackMarked'
  <2>1. \A t \in Symbols : mark'[t] = 1 <=> t = s
    BY <1>3, <1>7
  <2>2. 1 \in 1 .. Len(stack')
    BY <1>4
  <2>3. \A t \in Symbols : OnStack(t)' <=> t = s
    BY <1>4, <1>8, <2>2 DEF OnStack
  <2> QED BY <1>4, <1>8, <2>1, <2>3 DEF StackMarked
<1>10. BackLeads(fin)'
  <2> SUFFICES ASSUME NEW v \in Symbols, NEW w \in Symbols, <<v, w>> \in back
               PROVE  /\ mark'[v] # 0
                      /\ mark'[v] = 2 => mark'[w] = 1 \/ (mark'[w] = 2 /\ fin[v] < fin[w])
                      /\ \A k \in 1 .. Len(stack') : stack'[k][1] = v => \E m \in 1 .. Len(stack') : m < k /\ stack'[m][1] = w
    BY <1>0 DEF BackLeads
  <2>1. mark[v] # 0 /\ (mark[v] = 2 => mark[w] = 1 \/ (mark[w] = 2 /\ fin[v] < fin[w]))
    BY DEF Searched, BackLeads
  <2>2. v # s
    BY <1>1, <2>1
  <2> QED BY <1>1, <1>3, <1>4, <1>7, <1>8, <2>1, <2>2
<1>11. OthersLead(fin)'
  <2> SUFFICES ASSUME NEW i \in 1 .. Len(arrows), Pair(arrows[i]) \notin back
               PROVE  /\ mark'[arrows[i].from] = 2 => mark'[arrows[i].to] = 2 /\ fin[arrows[i].to] < fin[arrows[i].from]
                      /\ \A k \in 1 .. Len(stack') : ~(i < stack'[k][2])
    BY <1>0 DEF OthersLead, Pair
  <2>1. mark[arrows[i].from] = 2 => mark[arrows[i].to] = 2 /\ fin[arrows[i].to] < fin[arrows[i].from]
    BY DEF Searched, OthersLead
  <2>2. arrows[i].from \in Symbols /\ arrows[i].to \in Symbols /\ i \in Nat /\ ~(i < 1)
    BY FlowTypesSay
  <2> QED BY <1>1, <1>3, <1>4, <1>8, <2>1, <2>2
<1> QED BY <1>5, <1>6, <1>9, <1>10, <1>11 DEF Searched

TopOf == stack[Len(stack)][1]
TriedTo == stack[Len(stack)][2]
NextPlace == Min(Out(TopOf, TriedTo))
NextTo == arrows[NextPlace].to
Going == Append(Front(stack), <<TopOf, NextPlace + 1>>)

(* The steps of the walk: leave a symbol, find a cycle, pass an arrow to   *)
(* what is left already, or go down.                                       *)
LEMMA MarkSteps ==
  ASSUME MarkStep
  PROVE  /\ stage = "marking" /\ stack # <<>>
         /\ UNCHANGED <<arrows, size, stage, layer, indeg, queue, drawnIn, across>>
         /\ \/ /\ Out(TopOf, TriedTo) = {}
               /\ mark' = [mark EXCEPT ![TopOf] = 2] /\ stack' = Front(stack) /\ back' = back
            \/ /\ Out(TopOf, TriedTo) # {} /\ mark[NextTo] = 1
               /\ back' = back \cup {<<TopOf, NextTo>>} /\ stack' = Going /\ mark' = mark
            \/ /\ Out(TopOf, TriedTo) # {} /\ mark[NextTo] # 1 /\ mark[NextTo] # 0
               /\ stack' = Going /\ mark' = mark /\ back' = back
            \/ /\ Out(TopOf, TriedTo) # {} /\ mark[NextTo] = 0
               /\ mark' = [mark EXCEPT ![NextTo] = 1]
               /\ stack' = Append(Going, <<NextTo, 1>>) /\ back' = back
BY Zenon DEF MarkStep, Last, Closes, TopOf, TriedTo, NextPlace, NextTo, Going

(* The top of the stack is a symbol on it.                                 *)
LEMMA TopIsOn ==
  ASSUME FlowTypes, stack # <<>>
  PROVE  /\ Len(stack) \in Nat \ {0} /\ TopOf \in Symbols /\ TriedTo \in Nat \ {0}
         /\ Front(stack) \in Seq(StackEntries) /\ Len(Front(stack)) = Len(stack) - 1
         /\ \A k \in 1 .. Len(stack) - 1 : Front(stack)[k] = stack[k]
<1>1. stack \in Seq(StackEntries)
  BY DEF FlowTypes
<1>2. Len(stack) \in Nat \ {0}
  BY <1>1
<1>3. PICK e \in StackEntries : TRUE
  BY <1>1, <1>2
<1>4. /\ Front(stack) \in Seq(StackEntries) /\ Len(Front(stack)) = Len(stack) - 1
      /\ \A k \in 1 .. Len(stack) - 1 : Front(stack)[k] = stack[k]
  BY ONLY <1>1, <1>3, stack # <<>>, TopChanged, Zenon
<1>5. Len(stack) \in 1 .. Len(stack)
  BY <1>2
<1>6. TopOf \in Symbols /\ TriedTo \in Nat \ {0}
  BY <1>5, FlowTypesSay DEF TopOf, TriedTo
<1> QED BY <1>2, <1>4, <1>6

(* The next arrow out of the top is one not tried yet, and the last to be. *)
LEMMA NextArrow ==
  ASSUME FlowTypes, stack # <<>>, Out(TopOf, TriedTo) # {}
  PROVE  /\ NextPlace \in 1 .. Len(arrows) /\ TriedTo <= NextPlace /\ arrows[NextPlace].from = TopOf
         /\ NextTo \in Symbols /\ NextTo # TopOf
         /\ \A j \in 1 .. Len(arrows) : arrows[j].from = TopOf /\ j < NextPlace + 1 => j < TriedTo \/ j = NextPlace
         /\ Going \in Seq(StackEntries) /\ Len(Going) = Len(stack)
         /\ \A k \in 1 .. Len(stack) : Going[k][1] = stack[k][1]
         /\ \A k \in 1 .. Len(stack) : k # Len(stack) => Going[k][2] = stack[k][2]
         /\ Going[Len(stack)][2] = NextPlace + 1
<1> DEFINE left == Out(TopOf, TriedTo)
<1>1. Len(arrows) \in Nat /\ DOMAIN arrows = 1 .. Len(arrows) /\ MaxArrows \in Nat /\ Len(arrows) <= MaxArrows
  BY FlowTypesSay
<1>2. left \in SUBSET Nat /\ \A j : j \in left <=> j \in 1 .. Len(arrows) /\ TriedTo <= j /\ arrows[j].from = TopOf
  BY <1>1 DEF Out
<1>3. \E t \in left : \A u \in left : t <= u
  BY <1>2, LeastOne
<1>4. NextPlace \in left /\ \A u \in left : NextPlace <= u
  BY <1>3 DEF NextPlace, Min
<1>5. NextPlace \in 1 .. Len(arrows) /\ TriedTo <= NextPlace /\ arrows[NextPlace].from = TopOf
  BY <1>2, <1>4
<1>6. NextTo \in Symbols /\ NextTo # TopOf
  BY <1>5, FlowTypesSay DEF NextTo
<1>7. TopOf \in Symbols /\ TriedTo \in Nat \ {0} /\ Len(stack) \in Nat \ {0}
  BY TopIsOn
<1>8. ASSUME NEW j \in 1 .. Len(arrows), arrows[j].from = TopOf, j < NextPlace + 1 PROVE j < TriedTo \/ j = NextPlace
  <2>1. TriedTo <= j => NextPlace <= j
    BY <1>2, <1>4, <1>8
  <2> QED BY <1>1, <1>5, <1>7, <1>8, <2>1
<1>9. <<TopOf, NextPlace + 1>> \in StackEntries
  BY <1>1, <1>5, <1>7 DEF StackEntries
<1>10. stack \in Seq(StackEntries)
  BY DEF FlowTypes
<1>11. /\ Going \in Seq(StackEntries) /\ Len(Going) = Len(stack)
       /\ Going[Len(stack)] = <<TopOf, NextPlace + 1>> /\ \A k \in 1 .. Len(stack) - 1 : Going[k] = stack[k]
  <2> DEFINE e == <<TopOf, NextPlace + 1>>
  <2>1. e \in StackEntries
    BY <1>9
  <2> HIDE DEF e
  <2>2. /\ Append(Front(stack), e) \in Seq(StackEntries) /\ Len(Append(Front(stack), e)) = Len(stack)
        /\ Append(Front(stack), e)[Len(stack)] = e /\ \A k \in 1 .. Len(stack) - 1 : Append(Front(stack), e)[k] = stack[k]
    BY <1>10, <2>1, TopChanged
  <2>3. Going = Append(Front(stack), e)
    BY DEF Going, e
  <2> QED BY <2>2, <2>3 DEF e
<1>12. \A k \in 1 .. Len(stack) : k \in 1 .. Len(stack) - 1 \/ k = Len(stack)
  BY <1>7
<1>13. \A k \in 1 .. Len(stack) : Going[k][1] = stack[k][1]
  BY <1>11, <1>12 DEF TopOf
<1>14. \A k \in 1 .. Len(stack) : k # Len(stack) => Going[k][2] = stack[k][2]
  BY <1>11, <1>12
<1>15. Going[Len(stack)][2] = NextPlace + 1
  BY <1>11
<1> QED BY <1>5, <1>6, <1>8, <1>11, <1>13, <1>14, <1>15

(* An arrow that is skipped or closes a cycle.                             *)
LEMMA TriedKeeps ==
  ASSUME FlowTypes, MarkStep, NEW fin, NEW c, Searched(fin, c), stack' = Going, mark' = mark,
         Out(TopOf, TriedTo) # {},
         \/ mark[NextTo] = 1 /\ back' = back \cup {<<TopOf, NextTo>>}
         \/ mark[NextTo] = 2 /\ back' = back
  PROVE  FlowTypes' /\ Searched(fin, c)'
<1> DEFINE n == Len(stack)
<1>0. stack # <<>> /\ UNCHANGED <<arrows, stage, layer, indeg, queue>>
  BY MarkSteps
<1>1. /\ NextPlace \in 1 .. Len(arrows) /\ arrows[NextPlace].from = TopOf
      /\ NextTo \in Symbols /\ NextTo # TopOf
      /\ \A j \in 1 .. Len(arrows) : arrows[j].from = TopOf /\ j < NextPlace + 1 => j < TriedTo \/ j = NextPlace
      /\ stack' \in Seq(StackEntries) /\ Len(stack') = n
  BY <1>0, NextArrow
<1>2. /\ \A k \in 1 .. n : stack'[k][1] = stack[k][1]
      /\ \A k \in 1 .. n : k # n => stack'[k][2] = stack[k][2]
      /\ stack'[n][2] = NextPlace + 1
  BY <1>0, NextArrow
<1>3. n \in Nat \ {0} /\ TopOf \in Symbols /\ n \in 1 .. n
  BY <1>0, TopIsOn
<1>4. FlowTypes'
  BY <1>0, <1>1, <1>3 DEF FlowTypes
<1>5. Finished(fin, c)'
  BY DEF Searched, Finished
<1>6. StackMarked'
  <2>1. /\ \A k, m \in 1 .. n : stack[k][1] = stack[m][1] => k = m
        /\ \A t \in Symbols : mark[t] = 1 <=> \E k \in 1 .. n : stack[k][1] = t
    BY DEF Searched, StackMarked, OnStack
  <2>2. Len(stack') = n /\ mark' = mark /\ \A k \in 1 .. n : stack'[k][1] = stack[k][1]
    BY <1>1, <1>2
  <2>3. \A k, m \in 1 .. Len(stack') : stack'[k][1] = stack'[m][1] => k = m
    BY ONLY <2>1, <2>2
  <2>4. \A t \in Symbols : mark'[t] = 1 <=> \E k \in 1 .. Len(stack') : stack'[k][1] = t
    BY ONLY <2>1, <2>2
  <2> QED BY <2>3, <2>4 DEF StackMarked, OnStack
<1>7. BackLeads(fin)'
  <2> SUFFICES ASSUME NEW v \in Symbols, NEW w \in Symbols, <<v, w>> \in back'
               PROVE  /\ mark'[v] # 0
                      /\ mark'[v] = 2 => mark'[w] = 1 \/ (mark'[w] = 2 /\ fin[v] < fin[w])
                      /\ \A k \in 1 .. Len(stack') : stack'[k][1] = v => \E m \in 1 .. Len(stack') : m < k /\ stack'[m][1] = w
    BY DEF BackLeads
  <2> SUFFICES /\ mark[v] # 0
               /\ mark[v] = 2 => mark[w] = 1 \/ (mark[w] = 2 /\ fin[v] < fin[w])
               /\ \A k \in 1 .. n : stack[k][1] = v => \E m \in 1 .. n : m < k /\ stack[m][1] = w
    <3>1. mark' = mark /\ Len(stack') = n /\ \A k \in 1 .. n : stack'[k][1] = stack[k][1]
      BY <1>1, <1>2
    <3> HIDE DEF n
    <3> QED BY <3>1
  <2>1. CASE <<v, w>> \in back
    BY <2>1 DEF Searched, BackLeads
  <2>2. CASE v = TopOf /\ w = NextTo /\ mark[w] = 1
    <3>1. mark[v] = 1
      BY <1>3, <2>2 DEF Searched, StackMarked, OnStack, TopOf
    <3>2. \A k \in 1 .. n : stack[k][1] = v => k = n
      BY <1>3, <2>2 DEF Searched, StackMarked, TopOf
    <3>3. PICK m \in 1 .. n : stack[m][1] = w
      BY <2>2 DEF Searched, StackMarked, OnStack
    <3>4. m # n
      BY <1>1, <2>2, <3>3 DEF TopOf
    <3>5. m < n
      BY <1>3, <3>4
    <3> QED BY <3>1, <3>2, <3>3, <3>5
  <2> QED BY <2>1, <2>2
<1>8. OthersLead(fin)'
  <2> SUFFICES ASSUME NEW i \in 1 .. Len(arrows), Pair(arrows[i]) \notin back'
               PROVE  /\ mark[arrows[i].from] = 2 => mark[arrows[i].to] = 2 /\ fin[arrows[i].to] < fin[arrows[i].from]
                      /\ \A k \in 1 .. n : stack[k][1] = arrows[i].from /\ i < stack'[k][2] =>
                             \/ mark[arrows[i].to] = 2
                             \/ k < n /\ stack[k + 1][1] = arrows[i].to
    <3>1. \A k \in 1 .. n : k < n => stack'[k + 1][1] = stack[k + 1][1]
      BY <1>2, <1>3
    <3> QED BY <1>0, <1>1, <1>2, <3>1 DEF OthersLead, Pair
  <2>0. Pair(arrows[i]) \notin back
    OBVIOUS
  <2>1. mark[arrows[i].from] = 2 => mark[arrows[i].to] = 2 /\ fin[arrows[i].to] < fin[arrows[i].from]
    BY <2>0 DEF Searched, OthersLead
  <2>2. \A k \in 1 .. n : stack[k][1] = arrows[i].from /\ i < stack[k][2] =>
             mark[arrows[i].to] = 2 \/ (k < n /\ stack[k + 1][1] = arrows[i].to)
    BY <2>0 DEF Searched, OthersLead
  <2>3. ASSUME NEW k \in 1 .. n, stack[k][1] = arrows[i].from, i < stack'[k][2]
        PROVE  mark[arrows[i].to] = 2 \/ (k < n /\ stack[k + 1][1] = arrows[i].to)
    <3>1. CASE k # n
      BY <1>2, <2>2, <2>3, <3>1
    <3>2. CASE k = n
      <4>1. arrows[i].from = TopOf /\ i < NextPlace + 1
        BY <1>2, <2>3, <3>2 DEF TopOf
      <4>2. i < TriedTo \/ i = NextPlace
        BY <1>1, <4>1
      <4>3. CASE i < TriedTo
        BY <2>2, <2>3, <3>2, <4>3 DEF TriedTo
      <4>4. CASE i = NextPlace
        <5>1. Pair(arrows[i]) = <<TopOf, NextTo>> /\ arrows[i].to = NextTo
          BY <4>1, <4>4 DEF Pair, NextTo
        <5> QED BY <5>1
      <4> QED BY <4>2, <4>3, <4>4
    <3> QED BY <3>1, <3>2
  <2> QED BY <2>1, <2>3
<1> QED BY <1>4, <1>5, <1>6, <1>7, <1>8 DEF Searched

(* An arrow to a symbol not met before.                                    *)
LEMMA PushKeeps ==
  ASSUME FlowTypes, MarkStep, NEW fin, NEW c, Searched(fin, c),
         Out(TopOf, TriedTo) # {}, mark[NextTo] = 0, mark' = [mark EXCEPT ![NextTo] = 1],
         stack' = Append(Going, <<NextTo, 1>>), back' = back
  PROVE  FlowTypes' /\ Searched(fin, c)'
<1> DEFINE n == Len(stack)
           s == NextTo
<1>0. stack # <<>> /\ UNCHANGED <<arrows, stage, layer, indeg, queue>>
  BY MarkSteps
<1>1. /\ NextPlace \in 1 .. Len(arrows) /\ arrows[NextPlace].from = TopOf /\ s \in Symbols
      /\ \A j \in 1 .. Len(arrows) : arrows[j].from = TopOf /\ j < NextPlace + 1 => j < TriedTo \/ j = NextPlace
      /\ Going \in Seq(StackEntries) /\ Len(Going) = n
  BY <1>0, NextArrow
<1>2. /\ \A k \in 1 .. n : Going[k][1] = stack[k][1]
      /\ \A k \in 1 .. n : k # n => Going[k][2] = stack[k][2]
      /\ Going[n][2] = NextPlace + 1
  BY <1>0, NextArrow
<1>3. n \in Nat \ {0} /\ TopOf \in Symbols /\ n \in 1 .. n
  BY <1>0, TopIsOn
<1>4. <<s, 1>> \in StackEntries
  BY <1>1, FlowDrawingAssumption DEF StackEntries
<1>5. /\ stack' \in Seq(StackEntries) /\ Len(stack') = n + 1
      /\ stack'[n + 1] = <<s, 1>> /\ \A k \in 1 .. n : stack'[k] = Going[k]
  BY <1>1, <1>3, <1>4
<1>6. /\ \A k \in 1 .. n : stack'[k][1] = stack[k][1]
      /\ \A k \in 1 .. n : k # n => stack'[k][2] = stack[k][2]
      /\ stack'[n][2] = NextPlace + 1 /\ stack'[n + 1][1] = s /\ stack'[n + 1][2] = 1
  BY <1>2, <1>3, <1>5
<1>7. \A k \in 1 .. n + 1 : k \in 1 .. n \/ k = n + 1
  BY <1>3
<1>8. \A k \in 1 .. n : k \in 1 .. n + 1 /\ k # n + 1 /\ k < n + 1
  BY <1>3
<1>9. mark'[s] = 1 /\ mark' \in [Symbols -> 0 .. 2] /\ \A t \in Symbols : t # s => mark'[t] = mark[t]
  BY <1>1 DEF FlowTypes
<1>a. n + 1 \in 1 .. n + 1
  BY <1>3
<1>b. \A k \in 1 .. n : stack[k][1] # s
  BY <1>1 DEF Searched, StackMarked, OnStack
<1>10. n + 1 \in 1 .. n + 1 /\ \A k \in 1 .. n : stack[k][1] # s
  BY <1>a, <1>b
<1> HIDE DEF n, s
<1>11. FlowTypes'
  BY <1>0, <1>5, <1>9 DEF FlowTypes
<1>12. Finished(fin, c)'
  BY <1>9 DEF Searched, Finished
<1>13. StackMarked'
  <2>1. ASSUME NEW k \in 1 .. n + 1, NEW m \in 1 .. n + 1, stack'[k][1] = stack'[m][1] PROVE k = m
    <3>1. \A x, y \in 1 .. n : stack[x][1] = stack[y][1] => x = y
      BY DEF Searched, StackMarked, n
    <3>2. CASE k = n + 1
      BY <1>6, <1>7, <1>10, <2>1, <3>2
    <3>3. CASE k \in 1 .. n
      <4>1. m # n + 1
        BY <1>6, <1>10, <2>1, <3>3
      <4> QED BY ZenonT(40), <1>6, <1>7, <2>1, <3>1, <3>3, <4>1
    <3> QED BY <1>7, <3>2, <3>3
  <2>2. ASSUME NEW t \in Symbols PROVE mark'[t] = 1 <=> \E k \in 1 .. n + 1 : stack'[k][1] = t
    <3>1. CASE t = s
      BY <1>6, <1>9, <1>10, <3>1
    <3>2. CASE t # s
      <4>1. (\E k \in 1 .. n + 1 : stack'[k][1] = t) <=> \E k \in 1 .. n : stack[k][1] = t
        BY <1>6, <1>7, <1>8, <3>2
      <4>2. mark'[t] = 1 <=> \E k \in 1 .. n : stack[k][1] = t
        BY <1>9, <3>2 DEF Searched, StackMarked, OnStack, n
      <4> QED BY <4>1, <4>2
    <3> QED BY <3>1, <3>2
  <2>3. \A k, m \in 1 .. Len(stack') : stack'[k][1] = stack'[m][1] => k = m
    BY <1>5, <2>1
  <2>4. \A t \in Symbols : mark'[t] = 1 <=> \E k \in 1 .. Len(stack') : stack'[k][1] = t
    BY <1>5, <2>2
  <2> QED BY <2>3, <2>4 DEF StackMarked, OnStack
<1>14. BackLeads(fin)'
  <2> SUFFICES ASSUME NEW v \in Symbols, NEW w \in Symbols, <<v, w>> \in back'
               PROVE  /\ mark'[v] # 0
                      /\ mark'[v] = 2 => mark'[w] = 1 \/ (mark'[w] = 2 /\ fin[v] < fin[w])
                      /\ \A k \in 1 .. Len(stack') : stack'[k][1] = v => \E m \in 1 .. Len(stack') : m < k /\ stack'[m][1] = w
    BY DEF BackLeads
  <2>1. /\ mark[v] # 0
        /\ mark[v] = 2 => mark[w] = 1 \/ (mark[w] = 2 /\ fin[v] < fin[w])
        /\ \A k \in 1 .. n : stack[k][1] = v => \E m \in 1 .. n : m < k /\ stack[m][1] = w
    BY DEF Searched, BackLeads, n
  <2>2. v # s
    BY <2>1 DEF s
  <2>3. mark'[v] = mark[v] /\ (mark[w] # 0 => mark'[w] = mark[w])
    BY <1>9, <2>2 DEF s
  <2>4. ASSUME NEW k \in 1 .. n + 1, stack'[k][1] = v PROVE \E m \in 1 .. n + 1 : m < k /\ stack'[m][1] = w
    <3>1. k \in 1 .. n /\ stack[k][1] = v
      BY <1>6, <1>7, <2>2, <2>4
    <3>2. PICK m \in 1 .. n : m < k /\ stack[m][1] = w
      BY <2>1, <3>1
    <3> QED BY <1>6, <1>8, <3>2
  <2> QED BY <1>5, <2>1, <2>3, <2>4
<1>15. OthersLead(fin)'
  <2>a. Len(stack') = n + 1 /\ arrows' = arrows /\ back' = back
    BY <1>0, <1>5
  <2> SUFFICES ASSUME NEW i \in 1 .. Len(arrows), Pair(arrows[i]) \notin back
               PROVE  /\ mark'[arrows[i].from] = 2 => mark'[arrows[i].to] = 2 /\ fin[arrows[i].to] < fin[arrows[i].from]
                      /\ \A k \in 1 .. n + 1 : stack'[k][1] = arrows[i].from /\ i < stack'[k][2] =>
                             \/ mark'[arrows[i].to] = 2
                             \/ k < n + 1 /\ stack'[k + 1][1] = arrows[i].to
    <3>1. OthersLead(fin)' <=>
              \A j \in 1 .. Len(arrows') : <<arrows'[j].from, arrows'[j].to>> \notin back' =>
                  /\ mark'[arrows'[j].from] = 2 => mark'[arrows'[j].to] = 2 /\ fin[arrows'[j].to] < fin[arrows'[j].from]
                  /\ \A k \in 1 .. Len(stack') : stack'[k][1] = arrows'[j].from /\ j < stack'[k][2] =>
                         \/ mark'[arrows'[j].to] = 2
                         \/ k < Len(stack') /\ stack'[k + 1][1] = arrows'[j].to
      BY Zenon DEF OthersLead, Pair
    <3>2. \A j \in 1 .. Len(arrows) : <<arrows[j].from, arrows[j].to>> \notin back =>
                  /\ mark'[arrows[j].from] = 2 => mark'[arrows[j].to] = 2 /\ fin[arrows[j].to] < fin[arrows[j].from]
                  /\ \A k \in 1 .. n + 1 : stack'[k][1] = arrows[j].from /\ j < stack'[k][2] =>
                         \/ mark'[arrows[j].to] = 2
                         \/ k < n + 1 /\ stack'[k + 1][1] = arrows[j].to
      BY Zenon DEF Pair
    <3> QED BY ONLY <2>a, <3>1, <3>2
  <2>0. arrows[i].from \in Symbols /\ arrows[i].to \in Symbols /\ i \in Nat /\ ~(i < 1)
    BY FlowTypesSay
  <2>1. mark[arrows[i].from] = 2 => mark[arrows[i].to] = 2 /\ fin[arrows[i].to] < fin[arrows[i].from]
    BY DEF Searched, OthersLead
  <2>2. \A k \in 1 .. n : stack[k][1] = arrows[i].from /\ i < stack[k][2] =>
             mark[arrows[i].to] = 2 \/ (k < n /\ stack[k + 1][1] = arrows[i].to)
    BY DEF Searched, OthersLead, n
  <2>3. mark[arrows[i].to] = 2 => mark'[arrows[i].to] = 2
    BY <1>9, <2>0 DEF s
  <2>4. mark'[arrows[i].from] = 2 => mark[arrows[i].from] = 2
    BY <1>9, <2>0
  <2>5. ASSUME NEW k \in 1 .. n + 1, stack'[k][1] = arrows[i].from, i < stack'[k][2]
        PROVE  mark'[arrows[i].to] = 2 \/ (k < n + 1 /\ stack'[k + 1][1] = arrows[i].to)
    <3>1. k # n + 1 /\ k \in 1 .. n /\ stack[k][1] = arrows[i].from
      BY <1>6, <1>7, <2>0, <2>5
    <3>2. CASE k # n
      <4>0. k < n => k + 1 \in 1 .. n
        BY <1>3, <3>1
      <4>1. i < stack[k][2] /\ (k < n => k + 1 \in 1 .. n)
        BY <1>6, <2>5, <3>1, <3>2, <4>0, Zenon
      <4>2. mark[arrows[i].to] = 2 \/ (k < n /\ stack[k + 1][1] = arrows[i].to)
        BY <2>2, <3>1, <4>1
      <4> QED BY <1>6, <1>8, <2>3, <3>1, <4>1, <4>2
    <3>3. CASE k = n
      <4>1. arrows[i].from = TopOf /\ i < NextPlace + 1
        BY <1>6, <2>5, <3>1, <3>3 DEF TopOf, n
      <4>2. i < TriedTo \/ i = NextPlace
        BY <1>1, <4>1
      <4>3. CASE i < TriedTo
        <5>1. mark[arrows[i].to] = 2 \/ n < n
          BY <2>2, <3>1, <3>3, <4>3 DEF TriedTo, n
        <5> QED BY <1>3, <2>3, <5>1
      <4>4. CASE i = NextPlace
        <5>1. arrows[i].to = s
          BY <4>4 DEF s, NextTo
        <5>2. stack'[k + 1][1] = s
          BY <1>6, <3>3
        <5>3. k < n + 1
          BY <1>3, <3>3
        <5> QED BY <5>1, <5>2, <5>3
      <4> QED BY <4>2, <4>3, <4>4
    <3> QED BY <3>2, <3>3
  <2> QED BY <2>1, <2>3, <2>4, <2>5
<1> QED BY <1>11, <1>12, <1>13, <1>14, <1>15 DEF Searched

(* A symbol all of whose arrows were tried is done, later than all before. *)
LEMMA PopKeeps ==
  ASSUME FlowTypes, MarkStep, NEW fin, NEW c, Searched(fin, c),
         Out(TopOf, TriedTo) = {}, mark' = [mark EXCEPT ![TopOf] = 2], stack' = Front(stack), back' = back
  PROVE  FlowTypes' /\ \E f, d : Searched(f, d)'
<1> DEFINE n == Len(stack)
           s == TopOf
<1>0. stack # <<>> /\ UNCHANGED <<arrows, stage, layer, indeg, queue>>
  BY MarkSteps
<1>1. n \in Nat \ {0} /\ s \in Symbols /\ n \in 1 .. n /\ stack[n][1] = s
  BY <1>0, TopIsOn DEF TopOf
<1>2. stack' \in Seq(StackEntries) /\ Len(stack') = n - 1
  BY <1>0, TopIsOn
<1>3. \A k \in 1 .. n - 1 : stack'[k] = stack[k]
  BY <1>0, TopIsOn
<1>4. \A k \in 1 .. n : k \in 1 .. n - 1 \/ k = n
  BY <1>1
<1>5. \A k \in 1 .. n - 1 : k \in 1 .. n /\ k # n /\ k < n /\ k \in Nat
  BY <1>1
<1>6. mark'[s] = 2 /\ mark' \in [Symbols -> 0 .. 2] /\ \A t \in Symbols : t # s => mark'[t] = mark[t]
  BY <1>1 DEF FlowTypes
<1>7. fin \in [Symbols -> Nat] /\ c \in Nat /\ \A t \in Symbols : mark[t] = 2 => fin[t] < c /\ fin[t] \in Nat
  BY DEF Searched, Finished
<1>8. PICK f \in [Symbols -> Nat] : f[s] = c /\ \A t \in Symbols : t # s => f[t] = fin[t]
  <2> DEFINE g == [fin EXCEPT ![s] = c]
  <2>1. g \in [Symbols -> Nat] /\ g[s] = c /\ \A t \in Symbols : t # s => g[t] = fin[t]
    BY <1>1, <1>7
  <2> QED BY <2>1
<1>9. mark[s] = 1
  BY <1>1 DEF Searched, StackMarked, OnStack
<1>10. \A k, m \in 1 .. n : stack[k][1] = stack[m][1] => k = m
  BY DEF Searched, StackMarked
<1>11. \A k \in 1 .. n - 1 : stack[k][1] # s
  BY <1>1, <1>5, <1>10
<1>12. \A i \in 1 .. Len(arrows) : arrows[i].from = s => i < TriedTo
  <2> TAKE i \in 1 .. Len(arrows)
  <2>1. i \in DOMAIN arrows /\ i \in Nat /\ TriedTo \in Nat
    BY <1>0, FlowTypesSay, TopIsOn
  <2>2. arrows[i].from = s => ~(TriedTo <= i)
    BY <2>1 DEF Out
  <2> QED BY <2>1, <2>2
<1> HIDE DEF n, s
<1>13. FlowTypes'
  BY <1>0, <1>2, <1>6 DEF FlowTypes
<1>14. Finished(f, c + 1)'
  <2>1. ASSUME NEW t \in Symbols, mark'[t] = 2 PROVE f[t] < c + 1
    <3>1. CASE t = s
      BY <1>7, <1>8, <3>1
    <3>2. CASE t # s
      <4>1. f[t] = fin[t] /\ fin[t] < c /\ fin[t] \in Nat
        BY <1>6, <1>7, <1>8, <2>1, <3>2
      <4> QED BY <1>7, <4>1
    <3> QED BY <3>1, <3>2
  <2> QED BY <1>7, <1>8, <2>1 DEF Finished
<1>15. StackMarked'
  <2>1. ASSUME NEW k \in 1 .. n - 1, NEW m \in 1 .. n - 1, stack'[k][1] = stack'[m][1] PROVE k = m
    BY <1>3, <1>5, <1>10, <2>1
  <2>2. ASSUME NEW t \in Symbols PROVE mark'[t] = 1 <=> \E k \in 1 .. n - 1 : stack'[k][1] = t
    <3>1. CASE t = s
      BY <1>3, <1>6, <1>11, <3>1
    <3>2. CASE t # s
      <4>1. (\E k \in 1 .. n - 1 : stack'[k][1] = t) <=> \E k \in 1 .. n : stack[k][1] = t
        BY <1>1, <1>3, <1>4, <1>5, <3>2
      <4>2. mark'[t] = 1 <=> \E k \in 1 .. n : stack[k][1] = t
        BY <1>6, <3>2 DEF Searched, StackMarked, OnStack, n
      <4> QED BY <4>1, <4>2
    <3> QED BY <3>1, <3>2
  <2> QED BY <1>2, <2>1, <2>2 DEF StackMarked, OnStack
<1>16. BackLeads(f)'
  <2> SUFFICES ASSUME NEW v \in Symbols, NEW w \in Symbols, <<v, w>> \in back'
               PROVE  /\ mark'[v] # 0
                      /\ mark'[v] = 2 => mark'[w] = 1 \/ (mark'[w] = 2 /\ f[v] < f[w])
                      /\ \A k \in 1 .. Len(stack') : stack'[k][1] = v => \E m \in 1 .. Len(stack') : m < k /\ stack'[m][1] = w
    BY DEF BackLeads
  <2>1. /\ mark[v] # 0
        /\ mark[v] = 2 => mark[w] = 1 \/ (mark[w] = 2 /\ fin[v] < fin[w])
        /\ \A k \in 1 .. n : stack[k][1] = v => \E m \in 1 .. n : m < k /\ stack[m][1] = w
    BY DEF Searched, BackLeads, n
  <2>2. mark'[v] # 0
    BY <1>6, <2>1
  <2>3. ASSUME mark'[v] = 2 PROVE mark'[w] = 1 \/ (mark'[w] = 2 /\ f[v] < f[w])
    <3>1. CASE v = s
      <4>1. PICK m \in 1 .. n : m < n /\ stack[m][1] = w
        BY <1>1, <2>1, <3>1
      <4>2. m \in 1 .. n - 1
        BY <1>4, <4>1
      <4>3. w # s
        BY <1>11, <4>1, <4>2
      <4>4. mark[w] = 1
        BY <4>1 DEF Searched, StackMarked, OnStack, n
      <4> QED BY <1>6, <4>3, <4>4
    <3>2. CASE v # s
      <4>1. mark[v] = 2 /\ f[v] = fin[v] /\ fin[v] < c
        BY <1>6, <1>7, <1>8, <2>3, <3>2
      <4>2. CASE w = s
        BY <1>6, <1>8, <4>1, <4>2
      <4>3. CASE w # s
        BY <1>6, <1>8, <2>1, <4>1, <4>3
      <4> QED BY <4>2, <4>3
    <3> QED BY <3>1, <3>2
  <2>4. ASSUME NEW k \in 1 .. n - 1, stack'[k][1] = v PROVE \E m \in 1 .. n - 1 : m < k /\ stack'[m][1] = w
    <3>1. k \in 1 .. n /\ k < n /\ stack[k][1] = v
      BY <1>3, <1>5, <2>4
    <3>2. PICK m \in 1 .. n : m < k /\ stack[m][1] = w
      BY <2>1, <3>1
    <3>3. m # n
      BY <1>1, <3>1, <3>2
    <3>4. m \in 1 .. n - 1
      BY <1>4, <3>3
    <3> QED BY <1>3, <3>2, <3>4
  <2> QED BY <1>2, <2>2, <2>3, <2>4
<1>17. OthersLead(f)'
  <2> SUFFICES ASSUME NEW i \in 1 .. Len(arrows), Pair(arrows[i]) \notin back
               PROVE  /\ mark'[arrows[i].from] = 2 => mark'[arrows[i].to] = 2 /\ f[arrows[i].to] < f[arrows[i].from]
                      /\ \A k \in 1 .. n - 1 : stack'[k][1] = arrows[i].from /\ i < stack'[k][2] =>
                             \/ mark'[arrows[i].to] = 2
                             \/ k < n - 1 /\ stack'[k + 1][1] = arrows[i].to
    BY <1>0, <1>2 DEF OthersLead, Pair
  <2> DEFINE a == arrows[i].from
             b == arrows[i].to
  <2>0. a \in Symbols /\ b \in Symbols /\ a # b
    BY FlowTypesSay
  <2>1. mark[a] = 2 => mark[b] = 2 /\ fin[b] < fin[a]
    BY DEF Searched, OthersLead
  <2>2. \A k \in 1 .. n : stack[k][1] = a /\ i < stack[k][2] => mark[b] = 2 \/ (k < n /\ stack[k + 1][1] = b)
    BY DEF Searched, OthersLead, n
  <2>3. a = s => mark[b] = 2
    <3> SUFFICES ASSUME a = s PROVE mark[b] = 2
      OBVIOUS
    <3>1. i < stack[n][2]
      BY <1>12 DEF TriedTo, n
    <3>2. mark[b] = 2 \/ n < n
      BY <1>1, <2>2, <3>1
    <3> QED BY <1>1, <3>2
  <2>4. mark[b] = 2 => mark'[b] = 2
    BY <1>6, <2>0
  <2>5. ASSUME mark'[a] = 2 PROVE mark'[b] = 2 /\ f[b] < f[a]
    <3>1. CASE a = s
      BY <1>7, <1>8, <2>0, <2>3, <2>4, <3>1
    <3>2. CASE a # s
      <4>1. mark[a] = 2 /\ mark[b] = 2 /\ fin[b] < fin[a]
        BY <1>6, <2>0, <2>1, <2>5, <3>2
      <4>2. b # s
        BY <1>9, <4>1
      <4> QED BY <1>8, <2>0, <2>4, <3>2, <4>1, <4>2
    <3> QED BY <3>1, <3>2
  <2>6. ASSUME NEW k \in 1 .. n - 1, stack'[k][1] = a, i < stack'[k][2]
        PROVE  mark'[b] = 2 \/ (k < n - 1 /\ stack'[k + 1][1] = b)
    <3>1. k \in 1 .. n /\ stack[k][1] = a /\ i < stack[k][2]
      BY <1>3, <1>5, <2>6
    <3>2. mark[b] = 2 \/ stack[k + 1][1] = b
      BY <2>2, <3>1
    <3>3. CASE mark[b] = 2
      BY <2>4, <3>3
    <3>4. CASE stack[k + 1][1] = b /\ k = n - 1
      <4>1. k + 1 = n
        BY <1>1, <3>4
      <4> QED BY <1>1, <1>6, <3>4, <4>1
    <3>5. CASE stack[k + 1][1] = b /\ k # n - 1
      <4>1. k < n - 1 /\ k + 1 \in 1 .. n - 1
        BY <1>1, <3>5
      <4> QED BY <1>3, <3>5, <4>1
    <3> QED BY <3>2, <3>3, <3>4, <3>5
  <2> QED BY <2>5, <2>6
<1> QED BY <1>13, <1>14, <1>15, <1>16, <1>17 DEF Searched

(* Each step keeps it a depth-first walk: what is left gets the next       *)
(* number.                                                                 *)
LEMMA MarkKeeps ==
  ASSUME FlowTypes, MarkStep, NEW fin, NEW c, Searched(fin, c)
  PROVE  FlowTypes' /\ \E f, d : Searched(f, d)'
<1>1. stack # <<>>
  BY MarkSteps
<1>2. CASE Out(TopOf, TriedTo) = {}
  BY <1>2, MarkSteps, PopKeeps
<1>3. CASE Out(TopOf, TriedTo) # {}
  <2>1. NextTo \in Symbols
    BY <1>1, <1>3, NextArrow
  <2>2. mark[NextTo] \in 0 .. 2
    BY <2>1 DEF FlowTypes
  <2>3. CASE mark[NextTo] = 0
    <3>1. FlowTypes' /\ Searched(fin, c)'
      BY <1>3, <2>3, MarkSteps, PushKeeps
    <3> QED BY <3>1
  <2>4. CASE mark[NextTo] = 1
    <3>1. FlowTypes' /\ Searched(fin, c)'
      BY <1>3, <2>4, MarkSteps, TriedKeeps
    <3> QED BY <3>1
  <2>5. CASE mark[NextTo] = 2
    <3>1. FlowTypes' /\ Searched(fin, c)'
      BY <1>3, <2>5, MarkSteps, TriedKeeps
    <3> QED BY <3>1
  <2> QED BY <2>2, <2>3, <2>4, <2>5
<1> QED BY <1>2, <1>3

(* All symbols done: no cycle is left, once the arrows that close one are  *)
(* reversed.                                                               *)
Leads(fin) == fin \in [Symbols -> Nat] /\ \A i \in 1 .. Len(arrows) : fin[Dag[i][2]] < fin[Dag[i][1]]

(* When every symbol is left, the numbers fall along every arrow as it is  *)
(* drawn: those that close a cycle are turned round.                       *)
LEMMA AllSearched ==
  ASSUME FlowTypes, stack = <<>>, Open = {}, NEW fin, NEW c, Searched(fin, c)
  PROVE  Leads(fin)
<1>1. \A s \in Symbols : mark[s] = 2
  <2> TAKE s \in Symbols
  <2>1. mark[s] \in 0 .. 2 /\ mark[s] # 0
    BY DEF FlowTypes, Open
  <2>2. Len(stack) = 0
    OBVIOUS
  <2>3. mark[s] # 1
    BY <2>2 DEF Searched, StackMarked, OnStack
  <2> QED BY <2>1, <2>3
<1>2. ASSUME NEW i \in 1 .. Len(arrows) PROVE fin[Dag[i][2]] < fin[Dag[i][1]]
  <2>1. i \in DOMAIN arrows /\ arrows[i].from \in Symbols /\ arrows[i].to \in Symbols
    BY FlowTypesSay
  <2>2. CASE Pair(arrows[i]) \in back
    <3>1. Dag[i][1] = arrows[i].to /\ Dag[i][2] = arrows[i].from
      BY <2>1, <2>2 DEF Dag
    <3>2. fin[arrows[i].from] < fin[arrows[i].to]
      BY <1>1, <2>1, <2>2 DEF Searched, BackLeads, Pair
    <3> QED BY <3>1, <3>2
  <2>3. CASE Pair(arrows[i]) \notin back
    <3>1. Dag[i][1] = arrows[i].from /\ Dag[i][2] = arrows[i].to
      BY <2>1, <2>3 DEF Dag, Pair
    <3>2. fin[arrows[i].to] < fin[arrows[i].from]
      BY <1>1, <2>1, <2>3 DEF Searched, OthersLead
    <3> QED BY <3>1, <3>2
  <2> QED BY <2>2, <2>3
<1> QED BY <1>2 DEF Leads, Searched, Finished

-----------------------------------------------------------------------------
(* Layers.                                                                 *)

(* Once at most, and one of them.                                          *)
Once(q) == \A i, j \in 1 .. Len(q) : i # j => q[i] # q[j]
Among(x, q) == \E i \in 1 .. Len(q) : q[i] = x

(* A queue that loses its head and gains others.                           *)
LEMMA QueueMoves ==
  ASSUME NEW S, NEW q \in Seq(S), q # <<>>, Once(q), NEW r \in Seq(S), Once(r), \A x \in S : ~(Among(x, q) /\ Among(x, r))
  PROVE  /\ Head(q) \in S /\ Among(Head(q), q) /\ Tail(q) \o r \in Seq(S) /\ Once(Tail(q) \o r)
         /\ \A x \in S : Among(x, Tail(q) \o r) <=> (Among(x, q) /\ x # Head(q)) \/ Among(x, r)
<1> DEFINE n == Len(q) - 1
           m == Len(r)
           t == Tail(q) \o r
<1>1. n \in Nat /\ m \in Nat /\ Len(q) = n + 1 /\ Head(q) = q[1] /\ Tail(q) \in Seq(S) /\ Len(Tail(q)) = n
  OBVIOUS
<1>2. \A i \in 1 .. n : Tail(q)[i] = q[i + 1]
  OBVIOUS
<1>3. t \in Seq(S) /\ Len(t) = n + m
  BY <1>1
<1>4. \A i \in 1 .. n + m : t[i] = IF i <= n THEN q[i + 1] ELSE r[i - n]
  BY <1>1, <1>2
<1>5. (\A i \in 1 .. n + 1 : q[i] \in S) /\ \A i \in 1 .. m : r[i] \in S
  BY <1>1
<1> HIDE DEF n, m, t
<1>6. \A i \in 1 .. n : i \in 1 .. n + m /\ i + 1 \in 1 .. n + 1 /\ i + 1 # 1 /\ t[i] = q[i + 1]
  BY <1>1, <1>4
<1>7. \A i \in 1 .. m : i + n \in 1 .. n + m /\ t[i + n] = r[i]
  <2> TAKE i \in 1 .. m
  <2>1. i + n \in 1 .. n + m /\ ~(i + n <= n) /\ (i + n) - n = i
    BY <1>1
  <2> QED BY <1>4, <2>1
<1>8. \A i \in 1 .. n + m : (i \in 1 .. n /\ t[i] = q[i + 1]) \/ (i - n \in 1 .. m /\ t[i] = r[i - n])
  BY <1>1, <1>4
<1>9. \A i \in 1 .. n + 1 : i = 1 \/ i - 1 \in 1 .. n
  BY <1>1
<1>10. \A i, j \in 1 .. n + 1 : i # j => q[i] # q[j]
  BY <1>1 DEF Once
<1>11. \A i, j \in 1 .. m : i # j => r[i] # r[j]
  BY DEF Once, m
<1>12. 1 \in 1 .. n + 1
  BY <1>1
<1>13. \A x \in S : Among(x, q) <=> \E i \in 1 .. n + 1 : q[i] = x
  BY <1>1 DEF Among
<1>14. \A x \in S : Among(x, r) <=> \E i \in 1 .. m : r[i] = x
  BY DEF Among, m
<1>15. Head(q) \in S /\ Among(Head(q), q)
  BY <1>1, <1>5, <1>12, <1>13
<1>16. Once(t)
  <2> SUFFICES ASSUME NEW i \in 1 .. n + m, NEW j \in 1 .. n + m, i # j PROVE t[i] # t[j]
    BY <1>3 DEF Once
  <2>1. CASE i \in 1 .. n /\ j \in 1 .. n
    <3>1. i + 1 # j + 1 /\ i + 1 \in 1 .. n + 1 /\ j + 1 \in 1 .. n + 1
      BY <1>1, <2>1
    <3> QED BY <1>6, <1>10, <2>1, <3>1
  <2>2. CASE i - n \in 1 .. m /\ j - n \in 1 .. m
    <3>1. i - n # j - n /\ i \in Int /\ j \in Int /\ ~(i <= n) /\ ~(j <= n)
      BY <1>1, <2>2
    <3> QED BY <1>4, <1>11, <2>2, <3>1
  <2>3. CASE i \in 1 .. n /\ j - n \in 1 .. m
    <3>1. ~(j <= n)
      BY <1>1, <2>3
    <3>2. t[i] = q[i + 1] /\ t[j] = r[j - n] /\ i + 1 \in 1 .. n + 1
      BY <1>4, <1>6, <2>3, <3>1
    <3> QED BY <1>5, <1>13, <1>14, <2>3, <3>2
  <2>4. CASE j \in 1 .. n /\ i - n \in 1 .. m
    <3>1. ~(i <= n)
      BY <1>1, <2>4
    <3>2. t[j] = q[j + 1] /\ t[i] = r[i - n] /\ j + 1 \in 1 .. n + 1
      BY <1>4, <1>6, <2>4, <3>1
    <3> QED BY <1>5, <1>13, <1>14, <2>4, <3>2
  <2> QED BY <1>8, <2>1, <2>2, <2>3, <2>4
<1>17. ASSUME NEW x \in S PROVE Among(x, t) <=> (Among(x, q) /\ x # Head(q)) \/ Among(x, r)
  <2>1. ASSUME NEW i \in 1 .. n + m, t[i] = x PROVE (Among(x, q) /\ x # Head(q)) \/ Among(x, r)
    <3>1. CASE i \in 1 .. n /\ t[i] = q[i + 1]
      <4>1. i + 1 \in 1 .. n + 1 /\ i + 1 # 1
        BY <1>6, <3>1
      <4> QED BY <1>1, <1>10, <1>12, <1>13, <2>1, <3>1, <4>1
    <3>2. CASE i - n \in 1 .. m /\ t[i] = r[i - n]
      BY <1>14, <2>1, <3>2
    <3> QED BY <1>8, <3>1, <3>2
  <2>2. ASSUME Among(x, q), x # Head(q) PROVE \E i \in 1 .. n + m : t[i] = x
    <3>1. PICK i \in 1 .. n + 1 : q[i] = x
      BY <1>13, <2>2
    <3>2. i # 1
      BY <1>1, <2>2, <3>1
    <3>3. i - 1 \in 1 .. n /\ (i - 1) + 1 = i
      BY <1>1, <1>9, <3>2
    <3> QED BY <1>6, <3>1, <3>3
  <2>3. ASSUME Among(x, r) PROVE \E i \in 1 .. n + m : t[i] = x
    BY <1>7, <1>14, <2>3
  <2>4. Among(x, t) <=> \E i \in 1 .. n + m : t[i] = x
    BY <1>3 DEF Among
  <2> QED BY <2>1, <2>2, <2>3, <2>4
<1> QED BY <1>3, <1>15, <1>16, <1>17 DEF t

(* The arrows as they are drawn.                                           *)
LEMMA DagIs ==
  ASSUME FlowTypes
  PROVE  /\ DOMAIN Dag = 1 .. Len(arrows) /\ IsFiniteSet(1 .. Len(arrows)) /\ IsFiniteSet(Symbols)
         /\ \A i \in 1 .. Len(arrows) : /\ Dag[i][1] \in Symbols /\ Dag[i][2] \in Symbols /\ Dag[i][1] # Dag[i][2]
                                        /\ Dag[i] = <<Dag[i][1], Dag[i][2]>>
                                        /\ Dag[i] = IF Pair(arrows[i]) \in back THEN <<arrows[i].to, arrows[i].from>>
                                                    ELSE <<arrows[i].from, arrows[i].to>>
<1>1. DOMAIN Dag = 1 .. Len(arrows) /\ Len(arrows) \in Nat
  BY FlowTypesSay DEF Dag
<1>2. IsFiniteSet(1 .. Len(arrows)) /\ IsFiniteSet(Symbols)
  BY <1>1, PlacesFinite, FlowDrawingAssumption
<1>3. \A i \in 1 .. Len(arrows) : Dag[i] = IF Pair(arrows[i]) \in back THEN <<arrows[i].to, arrows[i].from>> ELSE <<arrows[i].from, arrows[i].to>>
  BY FlowTypesSay DEF Dag, Pair
<1>4. \A i \in 1 .. Len(arrows) : arrows[i].from \in Symbols /\ arrows[i].to \in Symbols /\ arrows[i].from # arrows[i].to
  BY FlowTypesSay
<1>5. \A i \in 1 .. Len(arrows) : Dag[i][1] \in Symbols /\ Dag[i][2] \in Symbols /\ Dag[i][1] # Dag[i][2] /\ Dag[i] = <<Dag[i][1], Dag[i][2]>>
  <2> TAKE i \in 1 .. Len(arrows)
  <2>1. CASE Dag[i] = <<arrows[i].to, arrows[i].from>>
    <3>1. Dag[i][1] = arrows[i].to /\ Dag[i][2] = arrows[i].from
      BY <2>1
    <3> QED BY <1>4, <2>1, <3>1
  <2>2. CASE Dag[i] = <<arrows[i].from, arrows[i].to>>
    <3>1. Dag[i][1] = arrows[i].from /\ Dag[i][2] = arrows[i].to
      BY <2>2
    <3> QED BY <1>4, <2>2, <3>1
  <2> QED BY <1>3, <2>1, <2>2
<1> QED BY <1>1, <1>2, <1>3, <1>5

(* The arrows into w from a symbol not followed yet.                       *)
Into(w, P) == {i \in 1 .. Len(arrows) : Dag[i][2] = w /\ Dag[i][1] \notin P}

Layered(P) ==
    /\ P \subseteq Symbols
    /\ \A w \in Symbols : indeg[w] = Cardinality(Into(w, P))
    /\ \A w \in P : indeg[w] = 0
    /\ Once(queue)
    /\ \A w \in Symbols : Among(w, queue) <=> w \notin P /\ indeg[w] = 0
    /\ \A i \in 1 .. Len(arrows) : Dag[i][1] \in P => layer[Dag[i][1]] < layer[Dag[i][2]]

(* At first no symbol is taken, and those no arrow comes into wait.        *)
LEMMA LayeringStarts ==
  ASSUME FlowTypes, StartLayering
  PROVE  FlowTypes' /\ Layered({})'
<1>0. /\ stage' = "layering" /\ UNCHANGED <<arrows, size, mark, stack, back, layer, drawnIn, across>>
      /\ indeg' = [w \in Symbols |-> Cardinality({i \in DOMAIN Dag : Dag[i][2] = w})]
      /\ queue' \in SetToSeqs({w \in Symbols : indeg'[w] = 0})
  BY DEF StartLayering
<1> DEFINE Z == {w \in Symbols : indeg'[w] = 0}
<1>1. \A w \in Symbols : {i \in DOMAIN Dag : Dag[i][2] = w} = Into(w, {}) /\ IsFiniteSet(Into(w, {}))
  <2> TAKE w \in Symbols
  <2>1. {i \in DOMAIN Dag : Dag[i][2] = w} = Into(w, {})
    BY DagIs DEF Into
  <2>2. Into(w, {}) \in SUBSET (1 .. Len(arrows))
    BY DEF Into
  <2> QED BY <2>1, <2>2, DagIs, FS_Subset
<1>2. \A w \in Symbols : indeg'[w] = Cardinality(Into(w, {})) /\ Cardinality(Into(w, {})) \in Nat
  BY <1>0, <1>1, FS_CardinalityType
<1>3. indeg' \in [Symbols -> Nat]
  BY <1>0, <1>2
<1>4. Z \in SUBSET Symbols /\ IsFiniteSet(Z)
  BY DagIs, FS_Subset
<1>5. queue' \in SetToSeqs(Z)
  BY <1>0
<1>z. \A w \in Symbols : w \in Z <=> indeg'[w] = 0
  OBVIOUS
<1> HIDE DEF Z
<1>6. /\ queue' \in Seq(Z) /\ \A x \in Z : \E i \in 1 .. Len(queue') : queue'[i] = x
      /\ \A i, j \in 1 .. Len(queue') : i # j => queue'[i] # queue'[j]
  BY <1>4, <1>5, InRow
<1>7. \A w \in Symbols : Among(w, queue)' <=> w \in Z
  BY <1>6 DEF Among
<1>8. FlowTypes'
  <2>1. queue' \in Seq(Symbols)
    BY <1>4, <1>6
  <2> QED BY <1>0, <1>3, <2>1 DEF FlowTypes, Stages
<1>9. Once(queue)'
  BY <1>6 DEF Once
<1>10. Dag' = Dag
  BY <1>0 DEF Dag
<1>11. \A w \in Symbols : Into(w, {})' = Into(w, {})
  BY <1>0, <1>10 DEF Into
<1> QED BY <1>2, <1>7, <1>8, <1>9, <1>11, <1>z DEF Layered

(* Taking a symbol leaves the others with the arrows of those not taken.   *)
LEMMA HopsSplit ==
  ASSUME FlowTypes, NEW P, NEW v \in Symbols, v \notin P
  PROVE  \A w \in Symbols : /\ HopsTo(v, w) \in Nat /\ Cardinality(Into(w, P)) \in Nat /\ Cardinality(Into(w, P \cup {v})) \in Nat
                            /\ Cardinality(Into(w, P)) = HopsTo(v, w) + Cardinality(Into(w, P \cup {v}))
                            /\ HopsTo(v, w) > 0 <=> \E i \in 1 .. Len(arrows) : Dag[i][1] = v /\ Dag[i][2] = w
<1> TAKE w \in Symbols
<1> DEFINE H == {i \in DOMAIN Dag : Dag[i] = <<v, w>>}
           I == Into(w, P)
           J == Into(w, P \cup {v})
<1>1. \A i : i \in H <=> i \in 1 .. Len(arrows) /\ Dag[i][1] = v /\ Dag[i][2] = w
  BY DagIs
<1>2. I \in SUBSET (1 .. Len(arrows)) /\ H \in SUBSET (1 .. Len(arrows)) /\ J \in SUBSET (1 .. Len(arrows))
  BY <1>1 DEF Into
<1>3. H \cup J = I /\ H \cap J = {}
  BY <1>1 DEF Into
<1>4. HopsTo(v, w) = Cardinality(H)
  BY DEF HopsTo
<1> HIDE DEF H, I, J
<1>5. IsFiniteSet(H) /\ IsFiniteSet(I) /\ IsFiniteSet(J)
  BY <1>2, DagIs, FS_Subset
<1>6. Cardinality(H) \in Nat /\ Cardinality(I) \in Nat /\ Cardinality(J) \in Nat
  BY <1>5, FS_CardinalityType
<1>7. Cardinality(H \cup J) = Cardinality(H) + Cardinality(J) - Cardinality(H \cap J)
  BY <1>5, FS_Union
<1>8. Cardinality(H \cap J) = 0
  BY <1>3, FS_EmptySet
<1>9. Cardinality(I) = Cardinality(H) + Cardinality(J)
  <2>1. Cardinality(I) = Cardinality(H) + Cardinality(J) - 0
    BY <1>3, <1>7, <1>8, Zenon
  <2> QED BY ONLY <1>6, <2>1
<1>10. Cardinality(H) = 0 <=> H = {}
  BY <1>5, FS_EmptySet
<1>11. HopsTo(v, w) > 0 <=> \E i \in 1 .. Len(arrows) : Dag[i][1] = v /\ Dag[i][2] = w
  BY <1>1, <1>4, <1>6, <1>10
<1> QED BY <1>4, <1>6, <1>9, <1>11 DEF I, J

(* Each symbol that is taken lies above those it points at.                *)
LEMMA LayeringKeeps ==
  ASSUME FlowTypes, LayerStep, NEW P, Layered(P)
  PROVE  FlowTypes' /\ \E Q : Layered(Q)'
<1>v. PICK v : v = Head(queue)
  OBVIOUS
<1> DEFINE next == {w \in Symbols : HopsTo(v, w) > 0}
           freed == {w \in next : indeg[w] = HopsTo(v, w)}
<1>0. /\ stage = "layering" /\ queue # <<>> /\ UNCHANGED <<arrows, size, stage, mark, stack, back, drawnIn, across>>
      /\ layer' = [w \in Symbols |-> IF w \in next THEN Max({layer[w], layer[v] + 1}) ELSE layer[w]]
      /\ indeg' = [w \in Symbols |-> indeg[w] - HopsTo(v, w)]
  BY <1>v DEF LayerStep
<1>1. PICK order \in SetToSeqs(freed) : queue' = Tail(queue) \o order
  BY <1>v DEF LayerStep
<1>2. queue \in Seq(Symbols) /\ indeg \in [Symbols -> Nat] /\ layer \in [Symbols -> Nat]
  BY DEF FlowTypes
<1>3. v \in Symbols /\ Among(v, queue)
  <2>1. v = queue[1] /\ 1 \in 1 .. Len(queue)
    BY <1>v, <1>0, <1>2
  <2> QED BY <1>2, <2>1 DEF Among
<1>n. \A w \in Symbols : /\ w \in next <=> HopsTo(v, w) > 0
                         /\ w \in freed <=> HopsTo(v, w) > 0 /\ indeg[w] = HopsTo(v, w)
  OBVIOUS
<1>4. freed \in SUBSET Symbols
  OBVIOUS
<1> HIDE DEF next, freed
<1>5. v \notin P /\ indeg[v] = 0 /\ P \subseteq Symbols
  BY <1>3 DEF Layered
<1>6. PICK Q : Q = P \cup {v}
  OBVIOUS
<1>7. \A w \in Symbols : /\ HopsTo(v, w) \in Nat /\ Cardinality(Into(w, P)) \in Nat /\ Cardinality(Into(w, Q)) \in Nat
                         /\ Cardinality(Into(w, P)) = HopsTo(v, w) + Cardinality(Into(w, Q))
                         /\ HopsTo(v, w) > 0 <=> \E i \in 1 .. Len(arrows) : Dag[i][1] = v /\ Dag[i][2] = w
  <2>1. \A w \in Symbols : /\ HopsTo(v, w) \in Nat /\ Cardinality(Into(w, P)) \in Nat /\ Cardinality(Into(w, P \cup {v})) \in Nat
                           /\ Cardinality(Into(w, P)) = HopsTo(v, w) + Cardinality(Into(w, P \cup {v}))
                           /\ HopsTo(v, w) > 0 <=> \E i \in 1 .. Len(arrows) : Dag[i][1] = v /\ Dag[i][2] = w
    BY ZenonT(40), <1>3, <1>5, HopsSplit
  <2> QED BY ONLY <1>6, <2>1, ZenonT(30)
<1>8. \A w \in Symbols : indeg[w] \in Nat /\ indeg[w] = Cardinality(Into(w, P))
  BY <1>2 DEF Layered
<1>9. \A w \in Symbols : /\ indeg'[w] = Cardinality(Into(w, Q)) /\ indeg'[w] \in Nat
                         /\ indeg[w] = HopsTo(v, w) + indeg'[w]
  <2> TAKE w \in Symbols
  <2>1. indeg'[w] = indeg[w] - HopsTo(v, w)
    BY <1>0
  <2> QED BY <1>7, <1>8, <2>1
<1>10. indeg' \in [Symbols -> Nat]
  BY <1>0, <1>9
<1>11. \A w \in Symbols : indeg[w] = 0 => indeg'[w] = 0 /\ w \notin next /\ w \notin freed
  <2> TAKE w \in Symbols
  <2>1. indeg[w] = HopsTo(v, w) + indeg'[w] /\ HopsTo(v, w) \in Nat /\ indeg'[w] \in Nat
    BY <1>7, <1>9
  <2> QED BY <1>n, <2>1
<1>12. \A w \in Symbols : w \in freed <=> indeg[w] # 0 /\ indeg'[w] = 0
  <2> TAKE w \in Symbols
  <2>1. indeg[w] = HopsTo(v, w) + indeg'[w] /\ HopsTo(v, w) \in Nat /\ indeg'[w] \in Nat
    BY <1>7, <1>9
  <2> QED BY <1>n, <2>1
<1>13. /\ order \in Seq(Symbols) /\ Once(order) /\ \A w \in Symbols : Among(w, order) <=> w \in freed
  <2>1. IsFiniteSet(freed)
    BY <1>4, DagIs, FS_Subset
  <2>2. /\ order \in Seq(freed) /\ Once(order) /\ \A w \in freed : Among(w, order)
        /\ \A i \in 1 .. Len(order) : order[i] \in freed
    BY <1>1, <2>1, InRow DEF Once, Among
  <2>3. order \in Seq(Symbols)
    BY <1>4, <2>2
  <2> QED BY <2>2, <2>3 DEF Among
<1>14. \A w \in Symbols : Among(w, queue) <=> w \notin P /\ indeg[w] = 0
  BY DEF Layered
<1>15. Once(queue) /\ \A w \in Symbols : ~(Among(w, queue) /\ Among(w, order))
  BY <1>11, <1>13, <1>14 DEF Layered
<1>16. /\ Tail(queue) \o order \in Seq(Symbols) /\ Once(Tail(queue) \o order)
       /\ \A w \in Symbols : Among(w, Tail(queue) \o order) <=> (Among(w, queue) /\ w # v) \/ Among(w, order)
  BY <1>v, <1>0, <1>2, <1>13, <1>15, QueueMoves
<1>17. queue' \in Seq(Symbols) /\ Once(queue)' /\ \A w \in Symbols : Among(w, queue)' <=> (Among(w, queue) /\ w # v) \/ w \in freed
  <2>1. \A w \in Symbols : Among(w, queue)' <=> Among(w, Tail(queue) \o order)
    BY <1>1 DEF Among
  <2>2. Once(queue)' <=> Once(Tail(queue) \o order)
    BY <1>1 DEF Once
  <2> QED BY <1>1, <1>13, <1>16, <2>1, <2>2
<1>18. \A w \in Symbols : Among(w, queue)' <=> w \notin Q /\ indeg'[w] = 0
  <2> TAKE w \in Symbols
  <2>1. w \in Q <=> w \in P \/ w = v
    BY <1>6
  <2>2. w \in P => indeg[w] = 0
    BY DEF Layered
  <2> QED BY <1>5, <1>11, <1>12, <1>14, <1>17, <2>1, <2>2
<1>19. \A w \in Symbols : layer'[w] \in Nat /\ layer[w] <= layer'[w] /\ (w \in next => layer[v] < layer'[w]) /\ (w \notin next => layer'[w] = layer[w])
  <2> TAKE w \in Symbols
  <2>1. layer[w] \in Nat /\ layer[v] \in Nat /\ layer[v] + 1 \in Nat
    BY <1>2, <1>3
  <2>2. Max({layer[w], layer[v] + 1}) = IF layer[w] >= layer[v] + 1 THEN layer[w] ELSE layer[v] + 1
    BY <2>1, GreaterOfTwo
  <2>3. layer'[w] = IF w \in next THEN Max({layer[w], layer[v] + 1}) ELSE layer[w]
    BY <1>0
  <2> QED BY <2>1, <2>2, <2>3
<1>20. layer' \in [Symbols -> Nat]
  BY <1>0, <1>19
<1>21. FlowTypes'
  BY <1>0, <1>10, <1>17, <1>20 DEF FlowTypes
<1>22. \A i \in 1 .. Len(arrows) : Dag[i][1] \in Q => layer'[Dag[i][1]] < layer'[Dag[i][2]]
  <2> TAKE i \in 1 .. Len(arrows)
  <2>1. Dag[i][1] \in Symbols /\ Dag[i][2] \in Symbols
    BY DagIs
  <2>2. CASE Dag[i][1] \in P
    <3>1. layer[Dag[i][1]] < layer[Dag[i][2]] /\ indeg[Dag[i][1]] = 0
      BY <2>2 DEF Layered
    <3>2. layer'[Dag[i][1]] = layer[Dag[i][1]]
      BY <1>11, <1>19, <2>1, <3>1
    <3>3. layer[Dag[i][2]] <= layer'[Dag[i][2]] /\ layer'[Dag[i][2]] \in Nat
      BY <1>19, <2>1
    <3>4. layer[Dag[i][1]] \in Nat /\ layer[Dag[i][2]] \in Nat
      BY <1>2, <2>1
    <3> QED BY <3>1, <3>2, <3>3, <3>4
  <2>3. CASE Dag[i][1] = v
    <3>1. Dag[i][2] \in next
      BY <1>7, <1>n, <2>1, <2>3
    <3>2. layer'[v] = layer[v]
      BY <1>3, <1>5, <1>11, <1>19
    <3> QED BY <1>19, <2>1, <2>3, <3>1, <3>2
  <2> QED BY <1>6, <2>2, <2>3
<1>23. Dag' = Dag
  BY <1>0 DEF Dag
<1>24. \A w \in Symbols : Into(w, Q)' = Into(w, Q)
  BY <1>0, <1>23 DEF Into
<1>25. \A w \in Q : w \in Symbols /\ indeg'[w] = 0
  <2> TAKE w \in Q
  <2>1. w \in Symbols /\ indeg[w] = 0
    BY <1>3, <1>5, <1>6 DEF Layered
  <2> QED BY <1>11, <2>1
<1>26. Layered(Q)'
  BY <1>0, <1>9, <1>17, <1>18, <1>22, <1>23, <1>24, <1>25 DEF Layered
<1> QED BY <1>21, <1>26

(* Every arrow followed: layers grow along them.                           *)
Followed ==
    /\ indeg = Zero
    /\ \A i \in 1 .. Len(arrows) : layer[Dag[i][1]] < layer[Dag[i][2]]

(* No symbol is left behind: the one that is highest would have none that  *)
(* point at it, so it would wait.                                          *)
LEMMA AllFollowed ==
  ASSUME FlowTypes, queue = <<>>, NEW fin, Leads(fin), NEW P, Layered(P)
  PROVE  Followed
<1>0. IsFiniteSet(Symbols) /\ fin \in [Symbols -> Nat] /\ indeg \in [Symbols -> Nat]
  BY DagIs DEF Leads, FlowTypes
<1> DEFINE R == Symbols \ P
           F == {fin[s] : s \in R}
<1>1. R = {}
  <2> SUFFICES ASSUME R # {} PROVE FALSE
    OBVIOUS
  <2>1. IsFiniteSet(R)
    <3>1. R \in SUBSET Symbols
      OBVIOUS
    <3> QED BY <1>0, <3>1, FS_Subset
  <2>2. \A s \in R : s \in Symbols /\ s \notin P
    OBVIOUS
  <2> HIDE DEF R
  <2>3. IsFiniteSet(F)
    BY <2>1, ValuesFinite
  <2>4. F # {} /\ F \subseteq Int
    BY <1>0, <2>2
  <2>5. Max(F) \in F /\ \A y \in F : y <= Max(F)
    <3> HIDE DEF F
    <3> QED BY <2>3, <2>4, FiniteMost
  <2>6. PICK w \in R : fin[w] = Max(F)
    BY <2>5
  <2>7. w \in Symbols /\ w \notin P
    BY <2>2
  <2>8. indeg[w] # 0
    <3>1. ~Among(w, queue)
      <4>1. Len(queue) = 0
        OBVIOUS
      <4> QED BY <4>1 DEF Among
    <3> QED BY <2>7, <3>1 DEF Layered
  <2>9. Into(w, P) # {}
    <3>1. indeg[w] = Cardinality(Into(w, P))
      BY <2>7 DEF Layered
    <3> QED BY <2>8, <3>1, FS_EmptySet
  <2>10. PICK i \in 1 .. Len(arrows) : Dag[i][2] = w /\ Dag[i][1] \notin P
    BY <2>9 DEF Into
  <2>11. Dag[i][1] \in Symbols /\ Dag[i][1] \in R
    BY <2>10, DagIs DEF R
  <2>12. fin[w] < fin[Dag[i][1]]
    BY <2>10 DEF Leads
  <2>13. fin[Dag[i][1]] <= Max(F)
    BY <2>5, <2>11
  <2> HIDE DEF F
  <2>14. fin[w] \in Nat /\ fin[Dag[i][1]] \in Nat
    BY <1>0, <2>7, <2>11
  <2> QED BY <2>6, <2>12, <2>13, <2>14
<1>2. \A w \in Symbols : w \in P
  BY <1>1
<1>3. indeg = Zero
  <2>1. \A w \in Symbols : indeg[w] = 0
    BY <1>2 DEF Layered
  <2> QED BY <1>0, <2>1 DEF Zero
<1>4. ASSUME NEW i \in 1 .. Len(arrows) PROVE layer[Dag[i][1]] < layer[Dag[i][2]]
  <2>1. Dag[i][1] \in Symbols
    BY DagIs
  <2> QED BY <1>2, <2>1 DEF Layered
<1> QED BY <1>3, <1>4 DEF Followed

(* What layering leaves: every arrow goes down, but those found to close a *)
(* cycle, and nothing is owed.                                             *)
LEMMA FollowedTells ==
  ASSUME FlowTypes, Followed
  PROVE  /\ indeg = Zero
         /\ \A i \in DOMAIN arrows : Pair(arrows[i]) \in back <=> IsBack(arrows[i])
         /\ \A i \in 1 .. Len(arrows) : Pair(arrows[i]) \notin back => layer[arrows[i].from] < layer[arrows[i].to]
<1>1. ASSUME NEW i \in 1 .. Len(arrows)
      PROVE  /\ Pair(arrows[i]) \in back <=> IsBack(arrows[i])
             /\ Pair(arrows[i]) \notin back => layer[arrows[i].from] < layer[arrows[i].to]
  <2> DEFINE a == arrows[i].from
             b == arrows[i].to
  <2>0. a \in Symbols /\ b \in Symbols
    BY FlowTypesSay
  <2>1. layer[a] \in Nat /\ layer[b] \in Nat
    BY <2>0 DEF FlowTypes
  <2>2. layer[Dag[i][1]] < layer[Dag[i][2]]
    BY DEF Followed
  <2>3. CASE Pair(arrows[i]) \in back
    <3>1. Dag[i] = <<b, a>>
      BY <2>3, DagIs
    <3>2. layer[b] < layer[a]
      BY <2>2, <3>1
    <3> QED BY <2>1, <2>3, <3>2 DEF IsBack
  <2>4. CASE Pair(arrows[i]) \notin back
    <3>1. Dag[i] = <<a, b>>
      BY <2>4, DagIs
    <3>2. layer[a] < layer[b]
      BY <2>2, <3>1
    <3> QED BY <2>1, <2>4, <3>2 DEF IsBack
  <2> QED BY <2>3, <2>4
<1>2. DOMAIN arrows = 1 .. Len(arrows)
  BY FlowTypesSay
<1> QED BY <1>1, <1>2 DEF Followed

-----------------------------------------------------------------------------
(* Packing the layers, and what is drawn past them.                        *)

Sized == size \in [Symbols -> Boxes]

LevelOf(x) == IF IsSymbol(x) THEN layer[x[1]] ELSE x[3]

(* The arrows that go down.                                                *)
LEMMA ForwardIs ==
  ASSUME FlowTypes, Followed
  PROVE  /\ IsFiniteSet(Forward) /\ Forward \subseteq Symbols \X Symbols
         /\ \A p \in Forward : /\ p[1] \in Symbols /\ p[2] \in Symbols /\ p = <<p[1], p[2]>>
                               /\ layer[p[1]] \in Nat /\ layer[p[2]] \in Nat /\ layer[p[1]] < layer[p[2]]
<1>1. Forward \subseteq Symbols \X Symbols
  BY FlowTypesSay DEF Forward, Pair
<1>2. IsFiniteSet(Forward)
  <2>1. IsFiniteSet(Symbols \X Symbols)
    BY DagIs, FS_Product
  <2>2. Forward \in SUBSET (Symbols \X Symbols)
    BY <1>1
  <2> QED BY <2>1, <2>2, FS_Subset
<1>3. ASSUME NEW p \in Forward PROVE layer[p[1]] < layer[p[2]]
  <2>1. PICK i \in 1 .. Len(arrows) : p = Pair(arrows[i]) /\ Pair(arrows[i]) \notin back
    BY FlowTypesSay DEF Forward
  <2>2. layer[arrows[i].from] < layer[arrows[i].to]
    BY <2>1, FollowedTells
  <2>3. p[1] = arrows[i].from /\ p[2] = arrows[i].to
    BY <2>1 DEF Pair
  <2> QED BY <2>2, <2>3
<1>4. \A p \in Symbols \X Symbols : p[1] \in Symbols /\ p[2] \in Symbols /\ p = <<p[1], p[2]>>
  OBVIOUS
<1>5. \A s \in Symbols : layer[s] \in Nat
  BY DEF FlowTypes
<1> QED BY <1>1, <1>2, <1>3, <1>4, <1>5

(* The slots of a layer: its symbols, and an arrow that passes through it. *)
LEMMA RowIs ==
  ASSUME FlowTypes, Followed, Sized, NEW l \in Nat
  PROVE  /\ IsFiniteSet(Row(l))
         /\ \A x \in Row(l) : /\ LevelOf(x) = l /\ Across(x) \in Nat
                              /\ IF IsSymbol(x) THEN x[1] \in Symbols /\ layer[x[1]] = l
                                 ELSE /\ <<x[1], x[2]>> \in Forward /\ x = <<x[1], x[2], l>> /\ x[3] = l
                                      /\ layer[x[1]] < l /\ l < layer[x[2]]
<1> DEFINE A == {t \in Symbols : layer[t] = l}
           B == {q \in Forward : layer[q[1]] < l /\ l < layer[q[2]]}
           f == [s \in A |-> <<s>>]
           g == [p \in B |-> <<p[1], p[2], l>>]
<1>1. IsFiniteSet(A)
  <2>1. A \in SUBSET Symbols
    OBVIOUS
  <2> HIDE DEF A
  <2> QED BY <2>1, DagIs, FS_Subset
<1>2. IsFiniteSet(B)
  <2>1. B \in SUBSET Forward
    OBVIOUS
  <2> HIDE DEF B
  <2> QED BY <2>1, ForwardIs, FS_Subset
<1>3. Row(l) = {f[s] : s \in A} \cup {g[p] : p \in B}
  BY DEF Row, Crossing
<1>4. IsFiniteSet(Row(l))
  <2> HIDE DEF f, g, A, B
  <2>1. IsFiniteSet({f[s] : s \in A}) /\ IsFiniteSet({g[p] : p \in B})
    BY <1>1, <1>2, ValuesFinite
  <2> QED BY <1>3, <2>1, FS_Union
<1>5. ASSUME NEW s \in A
      PROVE  /\ IsSymbol(<<s>>) /\ <<s>>[1] \in Symbols /\ layer[<<s>>[1]] = l /\ LevelOf(<<s>>) = l /\ Across(<<s>>) \in Nat
  <2>1. Len(<<s>>) = 1 /\ <<s>>[1] = s /\ s \in Symbols /\ layer[s] = l
    OBVIOUS
  <2>2. size[s] \in [along : Nat, across : Nat]
    BY <2>1, FlowDrawingAssumption DEF Sized
  <2> QED BY <2>1, <2>2 DEF IsSymbol, LevelOf, Across
<1>6. ASSUME NEW p \in B, NEW x, x = <<p[1], p[2], l>>
      PROVE  /\ ~IsSymbol(x) /\ LevelOf(x) = l /\ Across(x) \in Nat
             /\ <<x[1], x[2]>> \in Forward /\ x = <<x[1], x[2], l>> /\ x[3] = l
             /\ layer[x[1]] < l /\ l < layer[x[2]]
  <2>1. Len(x) = 3 /\ x[1] = p[1] /\ x[2] = p[2] /\ x[3] = l
    BY <1>6
  <2>2. p = <<p[1], p[2]>> /\ p \in Forward /\ layer[p[1]] < l /\ l < layer[p[2]]
    BY ForwardIs
  <2>3. ~IsSymbol(x)
    BY <2>1 DEF IsSymbol
  <2> QED BY <1>6, <2>1, <2>2, <2>3 DEF LevelOf, Across, Slot
<1>7. ASSUME NEW x \in Row(l)
      PROVE  (\E s \in A : x = <<s>>) \/ (\E p \in B : x = <<p[1], p[2], l>>)
  BY <1>3
<1>8. ASSUME NEW x \in Row(l)
      PROVE  /\ LevelOf(x) = l /\ Across(x) \in Nat
             /\ IF IsSymbol(x) THEN x[1] \in Symbols /\ layer[x[1]] = l
                ELSE /\ <<x[1], x[2]>> \in Forward /\ x = <<x[1], x[2], l>> /\ x[3] = l
                     /\ layer[x[1]] < l /\ l < layer[x[2]]
  <2> HIDE DEF A, B
  <2>1. CASE \E s \in A : x = <<s>>
    <3>1. PICK s \in A : x = <<s>>
      BY <2>1
    <3> QED BY <1>5, <3>1
  <2>2. CASE \E p \in B : x = <<p[1], p[2], l>>
    <3>1. PICK p \in B : x = <<p[1], p[2], l>>
      BY <2>2
    <3> QED BY <1>6, <3>1
  <2> QED BY <1>7, <2>1, <2>2
<1> QED BY <1>4, <1>8

(* What comes before a thing is in the layer before.                       *)
LEMMA PredsIs ==
  ASSUME FlowTypes, Followed, Sized, NEW l \in Nat, NEW x \in Row(l)
  PROVE  IsFiniteSet(Preds(x)) /\ (Preds(x) # {} => l - 1 \in Nat) /\ Preds(x) \subseteq Row(l - 1)
<1> DEFINE hop(p, k) == IF layer[p[1]] = k - 1 THEN <<p[1]>> ELSE <<p[1], p[2], k - 1>>
<1>1. ASSUME NEW a \in Symbols, NEW b \in Symbols, <<a, b>> \in Forward, layer[a] < l, l <= layer[b], NEW p, p[1] = a, p[2] = b
      PROVE  hop(p, l) \in Row(l - 1) /\ l - 1 \in Nat
  <2>0. layer[a] \in Nat /\ layer[b] \in Nat
    BY DEF FlowTypes
  <2>1. l - 1 \in Nat
    BY <1>1, <2>0
  <2>2. CASE layer[a] = l - 1
    <3>1. hop(p, l) = <<a>>
      BY <1>1, <2>2
    <3> QED BY <2>1, <2>2, <3>1 DEF Row
  <2>3. CASE layer[a] # l - 1
    <3>1. hop(p, l) = <<a, b, l - 1>> /\ layer[a] < l - 1 /\ l - 1 < layer[b]
      BY <1>1, <2>0, <2>3
    <3>2. <<a, b>>[1] = a /\ <<a, b>>[2] = b
      OBVIOUS
    <3>3. <<a, b, l - 1>> \in Crossing(l - 1)
      BY <1>1, <3>1, <3>2 DEF Crossing
    <3> QED BY <2>1, <3>1, <3>3 DEF Row
  <2> QED BY <2>2, <2>3
<1>2. CASE IsSymbol(x)
  <2> DEFINE F == {q \in Forward : q[2] = x[1]}
             h == [p \in F |-> hop(p, layer[x[1]])]
  <2>1. x[1] \in Symbols /\ layer[x[1]] = l
    BY <1>2, RowIs
  <2>2. Preds(x) = {h[p] : p \in F}
    BY <1>2 DEF Preds
  <2>3. IsFiniteSet(F)
    <3>1. F \in SUBSET Forward
      OBVIOUS
    <3> HIDE DEF F
    <3> QED BY <3>1, ForwardIs, FS_Subset
  <2>4. IsFiniteSet(Preds(x))
    <3> HIDE DEF F, h
    <3>1. IsFiniteSet({h[p] : p \in F})
      BY <2>3, ValuesFinite
    <3> QED BY <2>2, <3>1
  <2>5. ASSUME NEW p \in F PROVE h[p] \in Row(l - 1) /\ l - 1 \in Nat
    <3>1. p[1] \in Symbols /\ p[2] \in Symbols /\ p = <<p[1], p[2]>> /\ p[2] = x[1] /\ p \in Forward /\ layer[p[1]] < layer[p[2]]
      BY ForwardIs
    <3>2. layer[p[1]] < l /\ l <= layer[p[2]] /\ <<p[1], p[2]>> \in Forward
      BY <2>1, <3>1
    <3>3. h[p] = hop(p, l)
      BY <2>1
    <3> HIDE DEF h, hop, F
    <3> QED BY <1>1, <3>1, <3>2, <3>3
  <2> QED BY <2>2, <2>4, <2>5
<1>3. CASE ~IsSymbol(x)
  <2>1. <<x[1], x[2]>> \in Forward /\ x[3] = l /\ layer[x[1]] < l /\ l < layer[x[2]]
    BY <1>3, RowIs
  <2>2. x[1] \in Symbols /\ x[2] \in Symbols
    <3>1. <<x[1], x[2]>> \in Symbols \X Symbols
      BY <2>1, ForwardIs
    <3> QED BY <3>1
  <2>3. Preds(x) = {hop(x, l)}
    BY <1>3, <2>1 DEF Preds
  <2>4. l <= layer[x[2]]
    BY <2>1, <2>2 DEF FlowTypes
  <2>5. hop(x, l) \in Row(l - 1) /\ l - 1 \in Nat
    <3> HIDE DEF hop
    <3> QED BY <1>1, <2>1, <2>2, <2>4
  <2> HIDE DEF hop
  <2> QED BY <2>3, <2>5, FS_Singleton
<1> QED BY <1>2, <1>3

(* A mean of integers is one.                                              *)
LEMMA MeanIs ==
  ASSUME NEW S, IsFiniteSet(S), S # {}, NEW f \in [S -> Int]
  PROVE  Mean(f) \in Int
<1>1. S \in SUBSET S /\ DOMAIN f = S /\ \A k \in S : f[k] \in Int
  OBVIOUS
<1>2. SumFunction(f) \in Int
  BY <1>1, SumFits DEF SumFunction
<1>3. Cardinality(S) \in Nat /\ Cardinality(S) # 0
  BY FS_CardinalityType, FS_EmptySet
<1>4. \A a \in Int, b \in Nat : b # 0 => a \div b \in Int
  OBVIOUS
<1> QED BY <1>1, <1>2, <1>3, <1>4 DEF Mean

(* So is the place a slot would like.                                      *)
LEMMA WantedIs ==
  ASSUME NEW x, IsFiniteSet(Preds(x)), Led(x), \A p \in Preds(x) : across[p] \in Int
  PROVE  Wanted(x) \in Int
<1> DEFINE f == [p \in Preds(x) |-> across[p]]
<1>1. f \in [Preds(x) -> Int] /\ Preds(x) # {}
  BY DEF Led
<1>2. Wanted(x) = Mean(f)
  BY DEF Wanted
<1>3. \A g : g \in [Preds(x) -> Int] => Mean(g) \in Int
  BY <1>1, MeanIs
<1> QED BY <1>1, <1>2, <1>3

(* Where the i-th of a row goes, the one before it placed.                 *)
NextAt(q, p, i) ==
    IF i = 1 THEN IF Led(q[1]) THEN Wanted(q[1]) ELSE 0
    ELSE LET least == After(q[i - 1], q[i], p[i - 1])
         IN  IF Led(q[i]) THEN Max({Wanted(q[i]), least}) ELSE least

Rowed(q, n) ==
    /\ n \in Nat /\ DOMAIN q = 1 .. n
    /\ \A i \in 1 .. n : Across(q[i]) \in Nat /\ (Led(q[i]) => Wanted(q[i]) \in Int)

(* A slot lies at least where the one before it leaves room.               *)
LEMMA NextIs ==
  ASSUME NEW q, NEW n, Rowed(q, n), NEW p, NEW i \in 1 .. n, i # 1 => p[i - 1] \in Int
  PROVE  /\ NextAt(q, p, i) \in Int
         /\ i # 1 => After(q[i - 1], q[i], p[i - 1]) \in Int /\ After(q[i - 1], q[i], p[i - 1]) <= NextAt(q, p, i)
<1>1. n \in Nat /\ i \in Nat /\ Across(q[i]) \in Nat /\ (Led(q[i]) => Wanted(q[i]) \in Int)
  BY DEF Rowed
<1>2. CASE i = 1
  BY <1>1, <1>2 DEF NextAt
<1>3. CASE i # 1
  <2> DEFINE least == After(q[i - 1], q[i], p[i - 1])
  <2>1. i - 1 \in 1 .. n
    BY <1>1, <1>3
  <2>2. Across(q[i - 1]) \in Nat /\ p[i - 1] \in Int
    BY <2>1 DEF Rowed
  <2>3. least \in Int
    BY <1>1, <2>2 DEF After, Gap
  <2>4. NextAt(q, p, i) = IF Led(q[i]) THEN Max({Wanted(q[i]), least}) ELSE least
    BY <1>3 DEF NextAt
  <2> HIDE DEF least
  <2>5. CASE Led(q[i])
    <3>1. Wanted(q[i]) \in Int
      BY <1>1, <2>5
    <3>2. Max({Wanted(q[i]), least}) = IF Wanted(q[i]) >= least THEN Wanted(q[i]) ELSE least
      BY <2>3, <3>1, GreaterOfTwo
    <3>3. NextAt(q, p, i) \in Int /\ least <= NextAt(q, p, i)
      BY <2>3, <2>4, <2>5, <3>1, <3>2
    <3> QED BY <2>3, <3>3 DEF least
  <2>6. CASE ~Led(q[i])
    <3>1. NextAt(q, p, i) \in Int /\ least <= NextAt(q, p, i)
      BY <2>3, <2>4, <2>6
    <3> QED BY <2>3, <3>1 DEF least
  <2> QED BY <2>5, <2>6
<1> QED BY <1>2, <1>3

(* The places of a row, from left to right.                                *)
LEMMA SpreadIs ==
  ASSUME NEW q, NEW n, Rowed(q, n)
  PROVE  /\ Spread(q) \in [1 .. n -> Int]
         /\ \A i \in 1 .. n : i # 1 => /\ After(q[i - 1], q[i], Spread(q)[i - 1]) \in Int
                                       /\ After(q[i - 1], q[i], Spread(q)[i - 1]) <= Spread(q)[i]
<1> DEFINE D == 1 .. n
           rank == [i \in D |-> i]
           G == [g \in [D -> Int] |-> [i \in D |-> NextAt(q, g, i)]]
<1>1. n \in Nat /\ rank \in [D -> Nat] /\ \A d \in D : rank[d] <= n
  BY DEF Rowed
<1>2. \A i \in D : i # 1 => i - 1 \in D /\ rank[i - 1] < rank[i]
  BY <1>1
<1>3. ASSUME NEW g \in [D -> Int] PROVE G[g] \in [D -> Int]
  <2>1. ASSUME NEW i \in D PROVE NextAt(q, g, i) \in Int
    <3>1. i # 1 => g[i - 1] \in Int
      BY <1>2
    <3> QED BY <3>1, NextIs DEF D
  <2> QED BY <2>1
<1>4. G \in [[D -> Int] -> [D -> Int]]
  BY <1>3
<1>5. ASSUME NEW g \in [D -> Int], NEW h \in [D -> Int], NEW d \in D,
             \A e \in D : rank[e] < rank[d] => g[e] = h[e]
      PROVE  G[g][d] = G[h][d]
  <2>1. d # 1 => g[d - 1] = h[d - 1]
    BY <1>2, <1>5
  <2>2. NextAt(q, g, d) = NextAt(q, h, d)
    BY <2>1 DEF NextAt
  <2> QED BY <2>2
<1>6. 0 \in Int
  OBVIOUS
<1>7. DOMAIN q = D
  BY DEF Rowed
<1>r. \A i \in D : rank[i] = i
  OBVIOUS
<1>d. D = 1 .. n
  OBVIOUS
<1> HIDE DEF G, D, rank
<1>8. Descends(D, Int, G, rank)
  BY <1>5, Zenon DEF Descends
<1>9. \E g \in [D -> Int] : Fixes(g, G)
  BY ONLY <1>1, <1>4, <1>6, <1>8, Settles
<1>10. PICK g \in [D -> Int] : G[g] = g
  BY <1>9 DEF Fixes
<1>11. \E p : p = [i \in DOMAIN q |-> NextAt(q, p, i)]
  BY <1>7, <1>10 DEF G
<1>12. Spread(q) = [i \in D |-> NextAt(q, Spread(q), i)]
  BY <1>7, <1>11 DEF Spread, NextAt
<1> DEFINE P == {i \in D : Spread(q)[i] \in Int}
<1>13. ASSUME NEW d \in D, \A e \in D : rank[e] < rank[d] => e \in P
       PROVE  /\ Spread(q)[d] \in Int /\ d \in P
              /\ d # 1 => /\ After(q[d - 1], q[d], Spread(q)[d - 1]) \in Int
                         /\ After(q[d - 1], q[d], Spread(q)[d - 1]) <= Spread(q)[d]
  <2>1. d # 1 => Spread(q)[d - 1] \in Int
    BY <1>2, <1>13
  <2>2. Spread(q)[d] = NextAt(q, Spread(q), d)
    BY <1>12
  <2> QED BY <1>d, <2>1, <2>2, NextIs
<1>14. D \subseteq P
  <2> HIDE DEF P
  <2> QED BY <1>1, <1>13, ByRank
<1>15. \A d \in D : /\ Spread(q)[d] \in Int
                    /\ d # 1 => /\ After(q[d - 1], q[d], Spread(q)[d - 1]) \in Int
                               /\ After(q[d - 1], q[d], Spread(q)[d - 1]) <= Spread(q)[d]
  BY <1>13, <1>14
<1>16. Spread(q) \in [D -> Int]
  BY <1>12, <1>15
<1> QED BY <1>d, <1>15, <1>16

Clear(q, p, i, j) == p[i] + Across(q[i]) \div 2 < p[j] - Across(q[j]) \div 2

(* A row spread out: whatever is further along is clear of what came first. *)
LEMMA SpreadClear ==
  ASSUME NEW q, NEW n, Rowed(q, n)
  PROVE  \A i, j \in 1 .. n : i < j => Clear(q, Spread(q), i, j)
<1>p. PICK p : p = Spread(q)
  OBVIOUS
<1>0. n \in Nat /\ \A i \in 1 .. n : Across(q[i]) \in Nat
  BY DEF Rowed
<1>1. p \in [1 .. n -> Int]
  BY <1>p, SpreadIs
<1>2. ASSUME NEW i \in 1 .. n, i # 1 PROVE i - 1 \in 1 .. n /\ Clear(q, p, i - 1, i)
  <2>1. After(q[i - 1], q[i], p[i - 1]) <= p[i]
    BY <1>p, <1>2, SpreadIs
  <2>2. i - 1 \in 1 .. n
    BY <1>0, <1>2
  <2>3. p[i] \in Int /\ p[i - 1] \in Int /\ Across(q[i]) \in Nat /\ Across(q[i - 1]) \in Nat
    BY <1>0, <1>1, <2>2
  <2>4. p[i - 1] + (Across(q[i - 1]) + Across(q[i])) \div 2 + 36 <= p[i]
    BY <2>1 DEF After, Gap
  <2>5. \A a, b \in Nat, x, y \in Int : x + (a + b) \div 2 + 36 <= y => x + a \div 2 < y - b \div 2
    OBVIOUS
  <2>6. p[i - 1] + Across(q[i - 1]) \div 2 < p[i] - Across(q[i]) \div 2
    BY ONLY <2>3, <2>4, <2>5
  <2> QED BY <2>2, <2>6 DEF Clear
<1> DEFINE S == {m \in Nat : \A i, j \in 1 .. n : i < j /\ j <= m => Clear(q, p, i, j)}
<1>3. 0 \in S
  BY <1>0
<1>4. ASSUME NEW m \in S PROVE m + 1 \in S
  <2>1. ASSUME NEW i \in 1 .. n, NEW j \in 1 .. n, i < j, j <= m + 1 PROVE Clear(q, p, i, j)
    <3>0. m \in Nat /\ i \in Nat /\ j \in Nat
      OBVIOUS
    <3>1. CASE j <= m
      BY <2>1, <3>1
    <3>2. CASE j = m + 1 /\ i = m
      <4>1. j # 1 /\ j - 1 = i
        BY <3>0, <3>2
      <4> QED BY <1>2, <4>1
    <3>3. CASE j = m + 1 /\ i # m
      <4>1. j # 1 /\ i < m /\ j - 1 = m
        BY <2>1, <3>0, <3>3
      <4>2. m \in 1 .. n /\ Clear(q, p, m, j)
        BY <1>2, <4>1
      <4>3. Clear(q, p, i, m)
        BY <3>0, <4>1, <4>2
      <4>4. p[i] \in Int /\ p[m] \in Int /\ p[j] \in Int /\ Across(q[i]) \in Nat /\ Across(q[m]) \in Nat /\ Across(q[j]) \in Nat
        BY <1>0, <1>1, <4>2
      <4>5. \A a, b, c \in Nat, x, y, z \in Int : x + a \div 2 < y - b \div 2 /\ y + b \div 2 < z - c \div 2 => x + a \div 2 < z - c \div 2
        OBVIOUS
      <4> HIDE DEF S
      <4>6. /\ p[i] + Across(q[i]) \div 2 < p[m] - Across(q[m]) \div 2
            /\ p[m] + Across(q[m]) \div 2 < p[j] - Across(q[j]) \div 2
        BY <4>2, <4>3 DEF Clear
      <4>7. p[i] + Across(q[i]) \div 2 < p[j] - Across(q[j]) \div 2
        BY ONLY <4>4, <4>5, <4>6
      <4> QED BY <4>7 DEF Clear
    <3> QED BY <2>1, <3>0, <3>1, <3>2, <3>3
  <2>2. m + 1 \in Nat
    OBVIOUS
  <2> QED BY <2>1, <2>2
<1>5. S \in SUBSET Nat
  OBVIOUS
<1>6. n \in S
  <2> HIDE DEF S
  <2>1. S = Nat
    BY <1>3, <1>4, <1>5, CountingUp
  <2> QED BY <1>0, <2>1
<1> QED BY <1>p, <1>0, <1>6

(* The row is moved as a whole.                                            *)
LEMMA ShiftIs ==
  ASSUME NEW q, NEW n, Rowed(q, n), NEW p \in [1 .. n -> Int], n # 0, Len(q) = n
  PROVE  Shift(q, p) \in Int
<1> DEFINE leds == {i \in DOMAIN q : Led(q[i])}
           f == [i \in leds |-> Wanted(q[i]) - p[i]]
<1>0. n \in Nat /\ DOMAIN q = 1 .. n /\ 1 \in 1 .. n /\ n \in 1 .. n
  BY DEF Rowed
<1>1. leds \in SUBSET (1 .. n)
  BY <1>0
<1>2. \A i \in leds : Wanted(q[i]) \in Int /\ p[i] \in Int
  BY <1>0 DEF Rowed
<1>3. f \in [leds -> Int]
  BY <1>2
<1>4. Shift(q, p) = IF leds = {} THEN -((p[1] + p[n]) \div 2) ELSE Mean(f)
  BY DEF Shift
<1> HIDE DEF leds, f
<1>5. IsFiniteSet(leds)
  BY <1>0, <1>1, PlacesFinite, FS_Subset
<1>6. leds # {} => Mean(f) \in Int
  BY <1>3, <1>5, MeanIs
<1>7. p[1] \in Int /\ p[n] \in Int
  BY <1>0
<1>8. \A a, b \in Int : -((a + b) \div 2) \in Int
  OBVIOUS
<1> QED BY <1>4, <1>6, <1>7, <1>8

(* A packed row: a centre for each of it, apart.                           *)
LEMMA PackIs ==
  ASSUME NEW q, NEW n, Rowed(q, n), Len(q) = n, \A i, j \in 1 .. n : i # j => q[i] # q[j]
  PROVE  /\ DOMAIN Pack(q) = {q[i] : i \in 1 .. n} /\ \A x \in DOMAIN Pack(q) : Pack(q)[x] \in Int
         /\ \A x, y \in DOMAIN Pack(q) : x # y =>
                \/ Pack(q)[x] + Across(x) \div 2 < Pack(q)[y] - Across(y) \div 2
                \/ Pack(q)[y] + Across(y) \div 2 < Pack(q)[x] - Across(x) \div 2
<1>p. PICK p : p = Spread(q)
  OBVIOUS
<1>s. PICK s : s = Shift(q, p)
  OBVIOUS
<1>0. n \in Nat /\ DOMAIN q = 1 .. n /\ \A i \in 1 .. n : Across(q[i]) \in Nat
  BY DEF Rowed
<1>1. p \in [1 .. n -> Int] /\ \A i, j \in 1 .. n : i < j => Clear(q, p, i, j)
  BY <1>p, SpreadIs, SpreadClear
<1>2. n # 0 => s \in Int
  BY <1>s, <1>1, ShiftIs
<1>3. Pack(q) = [x \in {q[i] : i \in 1 .. n} |-> p[CHOOSE i \in 1 .. n : q[i] = x] + s]
  BY <1>p, <1>s, <1>0 DEF Pack, Range
<1>4. ASSUME NEW i \in 1 .. n
      PROVE  Pack(q)[q[i]] = p[i] + s /\ p[i] \in Int /\ s \in Int /\ Pack(q)[q[i]] \in Int /\ Across(q[i]) \in Nat
  <2>1. (CHOOSE k \in 1 .. n : q[k] = q[i]) = i
    OBVIOUS
  <2>2. n # 0
    BY <1>0
  <2>3. Pack(q)[q[i]] = p[i] + s
    BY <1>3, <2>1
  <2>4. p[i] \in Int /\ s \in Int
    BY <1>1, <1>2, <2>2
  <2> QED BY <1>0, <2>3, <2>4
<1>5. ASSUME NEW i \in 1 .. n, NEW j \in 1 .. n, i < j
      PROVE  Pack(q)[q[i]] + Across(q[i]) \div 2 < Pack(q)[q[j]] - Across(q[j]) \div 2
  <2>1. p[i] + Across(q[i]) \div 2 < p[j] - Across(q[j]) \div 2
    BY <1>1, <1>5 DEF Clear
  <2>2. \A a, b \in Nat, x, y, z \in Int : x + a \div 2 < y - b \div 2 => x + z + a \div 2 < y + z - b \div 2
    OBVIOUS
  <2>3. p[i] + s + Across(q[i]) \div 2 < p[j] + s - Across(q[j]) \div 2
    <3>1. p[i] \in Int /\ p[j] \in Int /\ s \in Int /\ Across(q[i]) \in Nat /\ Across(q[j]) \in Nat
      BY <1>4
    <3> QED BY ONLY <2>1, <2>2, <3>1
  <2> QED BY <1>4, <2>3
<1>6. DOMAIN Pack(q) = {q[i] : i \in 1 .. n}
  BY <1>3
<1>7. ASSUME NEW x \in DOMAIN Pack(q), NEW y \in DOMAIN Pack(q), x # y
      PROVE  \/ Pack(q)[x] + Across(x) \div 2 < Pack(q)[y] - Across(y) \div 2
             \/ Pack(q)[y] + Across(y) \div 2 < Pack(q)[x] - Across(x) \div 2
  <2>1. PICK i \in 1 .. n, j \in 1 .. n : x = q[i] /\ y = q[j]
    BY <1>6
  <2>2. i < j \/ j < i
    BY <1>7, <1>0, <2>1
  <2> QED BY <1>5, <2>1, <2>2
<1> QED BY <1>4, <1>6, <1>7

RowApart(l) ==
    \A x, y \in Row(l) : x # y => \/ across[x] + Across(x) \div 2 < across[y] - Across(y) \div 2
                                  \/ across[y] + Across(y) \div 2 < across[x] - Across(x) \div 2

(* The layers packed so far: all of each has a centre, and nothing else.   *)
RowsPacked ==
    /\ drawnIn \in Nat /\ IsFiniteSet(DOMAIN across)
    /\ \A x \in DOMAIN across : across[x] \in Int /\ \E l \in Nat : l < drawnIn /\ x \in Row(l)
    /\ \A l \in Nat : l < drawnIn => Row(l) \subseteq DOMAIN across /\ RowApart(l)

(* A layer's slots are ready to be packed once those above it are.         *)
LEMMA RowReady ==
  ASSUME FlowTypes, Followed, Sized, RowsPacked, NEW q \in SetToSeqs(Row(drawnIn))
  PROVE  /\ Rowed(q, Len(q)) /\ \A i, j \in 1 .. Len(q) : i # j => q[i] # q[j]
         /\ {q[i] : i \in 1 .. Len(q)} = Row(drawnIn)
<1>l. PICK l : l = drawnIn
  OBVIOUS
<1>0. l \in Nat /\ q \in SetToSeqs(Row(l))
  BY <1>l DEF RowsPacked
<1>1. IsFiniteSet(Row(l))
  BY <1>0, RowIs
<1>2. /\ q \in [1 .. Len(q) -> Row(l)] /\ Len(q) \in Nat /\ DOMAIN q = 1 .. Len(q)
      /\ \A x \in Row(l) : \E i \in 1 .. Len(q) : q[i] = x
      /\ \A i, j \in 1 .. Len(q) : i # j => q[i] # q[j]
  BY <1>0, <1>1, InRow
<1>3. ASSUME NEW x \in Row(l) PROVE Across(x) \in Nat /\ (Led(x) => Wanted(x) \in Int)
  <2>1. Across(x) \in Nat
    BY <1>0, RowIs
  <2>2. IsFiniteSet(Preds(x)) /\ (Preds(x) # {} => l - 1 \in Nat) /\ Preds(x) \subseteq Row(l - 1)
    BY <1>0, PredsIs
  <2>3. ASSUME Led(x) PROVE Wanted(x) \in Int
    <3>1. l - 1 \in Nat /\ l - 1 < drawnIn
      BY <1>l, <1>0, <2>2, <2>3 DEF Led
    <3>2. Row(l - 1) \subseteq DOMAIN across
      BY <3>1 DEF RowsPacked
    <3>3. \A p \in Preds(x) : across[p] \in Int
      BY <2>2, <3>2 DEF RowsPacked
    <3> QED BY <2>2, <2>3, <3>3, WantedIs
  <2> QED BY <2>1, <2>3
<1>4. \A i \in 1 .. Len(q) : q[i] \in Row(l)
  BY <1>2
<1>5. Rowed(q, Len(q))
  BY <1>2, <1>3, <1>4 DEF Rowed
<1>6. {q[i] : i \in 1 .. Len(q)} = Row(l)
  BY <1>2, <1>4
<1> QED BY <1>l, <1>2, <1>5, <1>6

(* A layer that is packed keeps its slots apart, and those above it stay   *)
(* as they are.                                                            *)
LEMMA PackKeeps ==
  ASSUME FlowTypes, Followed, Sized, RowsPacked, PackRow
  PROVE  FlowTypes' /\ Followed' /\ Sized' /\ RowsPacked'
<1>0. /\ drawnIn' = drawnIn + 1
      /\ UNCHANGED <<arrows, size, stage, mark, stack, back, layer, indeg, queue>>
  BY DEF PackRow
<1>q. PICK q \in SetToSeqs(Row(drawnIn)) :
         across' = [x \in DOMAIN Pack(q) \cup DOMAIN across |-> IF x \in DOMAIN Pack(q) THEN Pack(q)[x] ELSE across[x]]
  BY DEF PackRow
<1>l. PICK l : l = drawnIn
  OBVIOUS
<1>1. l \in Nat /\ drawnIn' = l + 1
  BY <1>0, <1>l DEF RowsPacked
<1>2. \A k : Row(k)' = Row(k)
  BY <1>0 DEF Row, Crossing, Forward
<1>3. \A x : Across(x)' = Across(x)
  BY <1>0 DEF Across
<1>4. /\ Rowed(q, Len(q)) /\ \A i, j \in 1 .. Len(q) : i # j => q[i] # q[j]
      /\ {q[i] : i \in 1 .. Len(q)} = Row(l)
  BY <1>l, RowReady
<1>p. PICK P : P = Pack(q)
  OBVIOUS
<1>5. /\ DOMAIN P = Row(l) /\ \A x \in DOMAIN P : P[x] \in Int
      /\ \A x, y \in DOMAIN P :
            x # y => \/ P[x] + Across(x) \div 2 < P[y] - Across(y) \div 2
                     \/ P[y] + Across(y) \div 2 < P[x] - Across(x) \div 2
  BY <1>p, <1>4, PackIs
<1>6. across' = [x \in Row(l) \cup DOMAIN across |-> IF x \in Row(l) THEN P[x] ELSE across[x]]
  BY <1>p, <1>q, <1>5
<1>7. DOMAIN across' = Row(l) \cup DOMAIN across
  BY <1>6
<1>8. IsFiniteSet(DOMAIN across')
  <2>1. IsFiniteSet(Row(l)) /\ IsFiniteSet(DOMAIN across)
    BY <1>1, RowIs DEF RowsPacked
  <2> QED BY <1>7, <2>1, FS_Union
<1>9. ASSUME NEW k \in Nat, k < l, NEW x \in Row(k) PROVE x \in DOMAIN across /\ x \notin Row(l) /\ across'[x] = across[x]
  <2>1. x \in DOMAIN across
    BY <1>l, <1>9 DEF RowsPacked
  <2>2. LevelOf(x) = k
    BY RowIs
  <2>3. x \in Row(l) => LevelOf(x) = l
    BY <1>1, RowIs
  <2>4. k # l
    BY <1>1, <1>9
  <2>5. x \notin Row(l)
    BY <2>2, <2>3, <2>4
  <2> QED BY <1>6, <2>1, <2>5
<1>10. ASSUME NEW x \in Row(l) PROVE across'[x] = P[x]
  BY <1>6
<1>11. ASSUME NEW x \in DOMAIN across' PROVE across'[x] \in Int /\ \E k \in Nat : k < drawnIn' /\ x \in Row(k)
  <2>1. CASE x \in Row(l)
    <3>1. l < drawnIn' /\ l \in Nat
      BY <1>1
    <3>2. across'[x] \in Int
      BY <1>5, <1>10, <2>1
    <3> QED BY <2>1, <3>1, <3>2
  <2>2. CASE x \notin Row(l)
    <3>1. x \in DOMAIN across /\ across'[x] = across[x]
      BY <1>6, <1>7, <2>2
    <3>2. across[x] \in Int
      BY <3>1 DEF RowsPacked
    <3>3. PICK k \in Nat : k < l /\ x \in Row(k)
      BY <1>l, <3>1 DEF RowsPacked
    <3>4. k < drawnIn'
      BY <1>1, <3>3
    <3> QED BY <3>1, <3>2, <3>3, <3>4
  <2> QED BY <2>1, <2>2
<1>12. ASSUME NEW k \in Nat, k < drawnIn'
       PROVE  /\ Row(k) \subseteq DOMAIN across'
              /\ \A x, y \in Row(k) : x # y => \/ across'[x] + Across(x) \div 2 < across'[y] - Across(y) \div 2
                                               \/ across'[y] + Across(y) \div 2 < across'[x] - Across(x) \div 2
  <2>1. k < l \/ k = l
    BY <1>1, <1>12
  <2>2. CASE k < l
    <3>1. Row(k) \subseteq DOMAIN across /\ RowApart(k)
      BY <1>l, <2>2 DEF RowsPacked
    <3>2. \A x \in Row(k) : across'[x] = across[x]
      BY <1>9, <2>2
    <3> QED BY <1>7, <3>1, <3>2 DEF RowApart
  <2>3. CASE k = l
    <3>1. \A x \in Row(k) : across'[x] = P[x]
      BY <1>10, <2>3
    <3> QED BY <1>5, <1>7, <2>3, <3>1
  <2> QED BY <2>1, <2>2, <2>3
<1>13. \A k \in Nat : k < drawnIn' => Row(k)' \subseteq DOMAIN across' /\ RowApart(k)'
  BY <1>2, <1>3, <1>12 DEF RowApart
<1>14. \A x \in DOMAIN across' : across'[x] \in Int /\ \E k \in Nat : k < drawnIn' /\ x \in Row(k)'
  BY <1>2, <1>11
<1>15. RowsPacked'
  BY <1>1, <1>8, <1>13, <1>14 DEF RowsPacked
<1>16. FlowTypes' /\ Followed' /\ Sized'
  BY <1>0 DEF FlowTypes, Followed, Sized, Dag, Zero
<1> QED BY <1>15, <1>16

(* Every layer packed.                                                     *)
AllPacked == \A s \in Symbols : layer[s] < drawnIn

(* No layer left means none below.                                         *)
LEMMA NoneLeft ==
  ASSUME FlowTypes, RowsPacked, drawnIn \notin Layers
  PROVE  AllPacked
<1> SUFFICES ASSUME NEW s \in Symbols PROVE layer[s] < drawnIn
  BY DEF AllPacked
<1> DEFINE R == {layer[t] : t \in Symbols}
<1>0. layer \in [Symbols -> Nat] /\ drawnIn \in Nat
  BY DEF FlowTypes, RowsPacked
<1>1. R # {} /\ R \subseteq Int /\ \A r \in R : r \in Nat
  BY <1>0
<1>2. Range(layer) = R
  BY <1>0 DEF Range
<1>3. IsFiniteSet(R)
  BY DagIs, ValuesFinite
<1>4. layer[s] \in R
  OBVIOUS
<1> HIDE DEF R
<1>5. Max(R) \in R /\ \A y \in R : y <= Max(R)
  BY <1>1, <1>3, FiniteMost
<1>6. Max(R) \in Nat /\ layer[s] <= Max(R) /\ layer[s] \in Nat
  BY <1>0, <1>1, <1>4, <1>5
<1>7. ~(drawnIn <= Max(R))
  BY <1>0, <1>2, <1>6 DEF Layers
<1> QED BY <1>0, <1>6, <1>7

(* So the slots of each layer do not touch.                                *)
LEMMA PackedTells ==
  ASSUME FlowTypes, Followed, Sized, RowsPacked, AllPacked
  PROVE  SlotsApart
<1> SUFFICES ASSUME NEW l \in Layers, NEW x \in Row(l), NEW y \in Row(l), x # y
             PROVE  \/ across[x] + Across(x) \div 2 < across[y] - Across(y) \div 2
                    \/ across[y] + Across(y) \div 2 < across[x] - Across(x) \div 2
  BY DEF SlotsApart
<1> DEFINE R == {layer[t] : t \in Symbols}
<1>0. layer \in [Symbols -> Nat] /\ drawnIn \in Nat
  BY DEF FlowTypes, RowsPacked
<1>1. Symbols # {}
  <2> SUFFICES ASSUME Symbols = {} PROVE FALSE
    OBVIOUS
  <2>1. Forward = {}
    BY ForwardIs
  <2> QED BY <2>1 DEF Row, Crossing
<1>2. R # {} /\ R \subseteq Int /\ (\A r \in R : r \in Nat /\ r < drawnIn) /\ Range(layer) = R
  BY <1>0, <1>1 DEF Range, AllPacked
<1>3. IsFiniteSet(R)
  BY DagIs, ValuesFinite
<1> HIDE DEF R
<1>4. Max(R) \in Nat /\ Max(R) < drawnIn
  BY <1>2, <1>3, FiniteMost
<1>5. l \in 0 .. Max(R)
  BY <1>2 DEF Layers
<1>6. l \in Nat /\ l < drawnIn
  BY <1>0, <1>4, <1>5
<1>7. RowApart(l)
  BY <1>6 DEF RowsPacked
<1> QED BY <1>7 DEF RowApart

(* What is placed ends where the lanes start.                              *)
LEMMA LanesFromIs ==
  ASSUME FlowTypes, Followed, Sized, RowsPacked
  PROVE  LanesFrom \in Int
<1> DEFINE f == [x \in DOMAIN across |-> across[x] + (Across(x) \div 2)]
           R == {f[x] : x \in DOMAIN across}
<1>1. IsFiniteSet(DOMAIN across)
  BY DEF RowsPacked
<1>2. \A x \in DOMAIN across : f[x] \in Int
  <2> TAKE x \in DOMAIN across
  <2>1. PICK l \in Nat : x \in Row(l)
    BY DEF RowsPacked
  <2>2. Across(x) \in Nat
    BY <2>1, RowIs
  <2>3. across[x] \in Int
    BY DEF RowsPacked
  <2> QED BY <2>2, <2>3
<1>3. IsFiniteSet(R)
  <2> HIDE DEF f
  <2> QED BY <1>1, ValuesFinite
<1>4. R \subseteq Int /\ LanesFrom = Max(R \cup {0})
  BY <1>2 DEF LanesFrom
<1> HIDE DEF R, f
<1>5. IsFiniteSet(R \cup {0}) /\ R \cup {0} # {} /\ R \cup {0} \subseteq Int
  <2>1. IsFiniteSet({0})
    BY FS_Singleton
  <2>2. IsFiniteSet(R \cup {0})
    BY <1>3, <2>1, FS_Union
  <2> QED BY <1>4, <2>2
<1>6. Max(R \cup {0}) \in R \cup {0}
  BY <1>5, FiniteMost
<1> QED BY <1>4, <1>5, <1>6

(* A later loop has more loops before it, and fewer than there are.        *)
LEMMA BacksCount ==
  ASSUME FlowTypes, NEW i \in Backs
  PROVE  /\ Cardinality({j \in Backs : j < i}) \in Nat /\ Cardinality(Backs) \in Nat
         /\ Cardinality({j \in Backs : j < i}) < Cardinality(Backs)
         /\ \A k \in Backs : i < k => Cardinality({j \in Backs : j < i}) < Cardinality({j \in Backs : j < k})
<1>1. Backs \in SUBSET (1 .. Len(arrows)) /\ IsFiniteSet(1 .. Len(arrows))
  BY DagIs, FlowTypesSay DEF Backs
<1>2. IsFiniteSet(Backs)
  BY <1>1, FS_Subset
<1>3. ASSUME NEW T \in SUBSET Backs, i \in T, \A j \in Backs : j < i => j \in T
      PROVE  /\ Cardinality({j \in Backs : j < i}) < Cardinality(T)
             /\ Cardinality({j \in Backs : j < i}) \in Nat /\ Cardinality(T) \in Nat
  <2> DEFINE S == {j \in Backs : j < i}
  <2>1. S \in SUBSET T /\ i \notin S /\ S # T
    <3>1. \A j \in Backs : j \in Nat
      BY <1>1
    <3>2. i \notin S /\ S \in SUBSET T
      BY <1>3, <3>1
    <3> QED BY <1>3, <3>2
  <2>2. IsFiniteSet(T)
    BY <1>2, FS_Subset
  <2> HIDE DEF S
  <2>3. IsFiniteSet(S) /\ Cardinality(S) <= Cardinality(T) /\ (Cardinality(S) = Cardinality(T) => S = T)
    BY <2>1, <2>2, FS_Subset
  <2>4. Cardinality(S) \in Nat /\ Cardinality(T) \in Nat
    BY <2>2, <2>3, FS_CardinalityType
  <2> QED BY <2>1, <2>3, <2>4 DEF S
<1>4. Cardinality({j \in Backs : j < i}) < Cardinality(Backs) /\ Cardinality({j \in Backs : j < i}) \in Nat /\ Cardinality(Backs) \in Nat
  BY <1>3
<1>5. ASSUME NEW k \in Backs, i < k
      PROVE  Cardinality({j \in Backs : j < i}) < Cardinality({j \in Backs : j < k})
  <2>1. \A j \in Backs : j < i => j < k
    BY <1>1, <1>5
  <2>2. {j \in Backs : j < k} \in SUBSET Backs /\ i \in {j \in Backs : j < k} /\ \A j \in Backs : j < i => j \in {m \in Backs : m < k}
    BY <1>5, <2>1
  <2> QED BY <1>3, <2>2
<1> QED BY <1>4, <1>5

(* Loops have lanes of their own, past the slots and on the page.          *)
LEMMA LanesApart ==
  ASSUME FlowTypes, Followed, Sized, RowsPacked
  PROVE  /\ \A i, j \in Backs : i # j => Lane(i) # Lane(j)
         /\ \A i \in Backs : LanesFrom < Lane(i) /\ Lane(i) < PageEnd
<1> DEFINE c(i) == Cardinality({j \in Backs : j < i})
<1>0. LanesFrom \in Int
  BY LanesFromIs
<1>1. \A i \in Backs : /\ Lane(i) = LanesFrom + 16 + 14 * c(i)
                       /\ PageEnd = LanesFrom + 16 + 14 * Cardinality(Backs) + 16 + 32
  BY DEF Lane, PageEnd, LaneStep, Margin
<1>2. \A i \in Backs : /\ c(i) \in Nat /\ Cardinality(Backs) \in Nat /\ c(i) < Cardinality(Backs)
                       /\ \A k \in Backs : i < k => c(i) < c(k)
  BY BacksCount
<1>3. \A i \in Backs : i \in Nat
  BY FlowTypesSay DEF Backs
<1> HIDE DEF c
<1>4. \A i, k \in Backs : i < k => Lane(i) # Lane(k)
  <2> TAKE i, k \in Backs
  <2> HAVE i < k
  <2>1. c(i) < c(k) /\ c(i) \in Nat /\ c(k) \in Nat
    BY <1>2
  <2> QED BY <1>0, <1>1, <2>1
<1>5. \A i, k \in Backs : i # k => Lane(i) # Lane(k)
  BY <1>3, <1>4
<1>6. \A i \in Backs : LanesFrom < Lane(i) /\ Lane(i) < PageEnd
  <2> TAKE i \in Backs
  <2>1. c(i) \in Nat /\ Cardinality(Backs) \in Nat /\ c(i) < Cardinality(Backs)
    BY <1>2
  <2> QED BY <1>0, <1>1, <2>1
<1> QED BY <1>5, <1>6

(* The two answers of a decision.                                          *)
LEMMA TwoLeave ==
  ASSUME NEW v, Len(Branches(v)) = 2
  PROVE  Vertex(v, 1) # Vertex(v, 2)
<1> DEFINE rel(k) == Toward(Branches(v)[k]) - across[<<v>>]
           thr == Max({size[v].along, size[v].across}) \div 3
           far == rel(1) < -thr
           ahead == -thr <= rel(2) /\ rel(2) <= thr
<1>1. Vertex(v, 1) = IF far THEN -1 ELSE 0
  BY DEF Vertex
<1>2. Vertex(v, 2) = IF far /\ ahead THEN 0 ELSE 1
  BY DEF Vertex
<1> HIDE DEF far, ahead
<1> QED BY <1>1, <1>2

FlowInv ==
    /\ FlowTypes
    /\ stage = "waiting" => mark = Zero /\ stack = <<>> /\ back = {}
    /\ stage = "marking" => \E fin, c : Searched(fin, c)
    /\ stage = "layering" => (\E fin : Leads(fin)) /\ \E P : Layered(P)
    /\ stage \in {"packing", "drawn"} => Followed /\ RowsPacked
    /\ stage \notin {"packing", "drawn"} => drawnIn = 0 /\ across = <<>>
    /\ stage # "waiting" => Sized
    /\ stage = "drawn" => AllPacked

(* Nothing is drawn at first.                                              *)
LEMMA FlowStarts == FlowInit => FlowInv
<1> SUFFICES ASSUME FlowInit PROVE FlowInv
  OBVIOUS
<1>1. /\ arrows = <<>> /\ stage = "waiting" /\ mark = Zero /\ stack = <<>> /\ back = {}
      /\ layer = Zero /\ indeg = Zero /\ queue = <<>> /\ drawnIn = 0 /\ across = <<>>
  BY DEF FlowInit
<1>2. Zero \in [Symbols -> Nat] /\ Zero \in [Symbols -> 0 .. 2]
  BY DEF Zero
<1>3. \A S : <<>> \in Seq(S) /\ Len(<<>>) = 0
  OBVIOUS
<1>4. 0 <= MaxArrows
  BY FlowDrawingAssumption
<1>5. FlowTypes
  BY <1>1, <1>2, <1>3, <1>4 DEF FlowTypes, Stages
<1> QED BY <1>1, <1>5 DEF FlowInv

(* What is measured are the arrows and the sizes of the symbols.           *)
LEMMA MeasureKeeps ==
  ASSUME FlowInv, Measure
  PROVE  FlowInv'
<1>1. /\ stage = "waiting" /\ stage' = "marking"
      /\ arrows' \in {a \in BoundedSeq(Arrow, MaxArrows) : \A i \in DOMAIN a : a[i].from # a[i].to}
      /\ size' \in [Symbols -> Boxes]
      /\ UNCHANGED <<mark, stack, back, layer, indeg, queue, drawnIn, across>>
  BY DEF Measure
<1>2. mark' = Zero /\ stack' = <<>> /\ back' = {} /\ drawnIn' = 0 /\ across' = <<>>
  BY <1>1 DEF FlowInv
<1>3. arrows' \in BoundedSeq(Arrow, MaxArrows) /\ \A i \in DOMAIN arrows' : arrows'[i].from # arrows'[i].to
  BY <1>1
<1>4. arrows' \in Seq(Arrow) /\ Len(arrows') <= MaxArrows
  <2>1. PICK m \in 0 .. MaxArrows : arrows' \in [1 .. m -> Arrow]
    BY <1>3 DEF BoundedSeq, SeqOf
  <2>2. m \in Nat /\ m <= MaxArrows
    BY FlowDrawingAssumption
  <2> QED BY <2>1, <2>2
<1>5. FlowTypes'
  BY <1>1, <1>3, <1>4 DEF FlowInv, FlowTypes, Stages
<1>6. Zero \in [Symbols -> Nat] /\ \A s \in Symbols : Zero[s] = 0
  BY DEF Zero
<1>7. Len(stack') = 0 /\ \A k : k \notin 1 .. Len(stack')
  BY <1>2
<1>8. \A s \in Symbols : mark'[s] = 0
  BY <1>2, <1>6
<1>9. Finished(Zero, 0)'
  BY <1>6, <1>8 DEF Finished, Zero
<1>10. StackMarked'
  BY <1>7, <1>8 DEF StackMarked, OnStack
<1>z. PICK z : z = Zero
  OBVIOUS
<1>11. BackLeads(z)'
  BY <1>2 DEF BackLeads
<1>12. OthersLead(z)'
  <2>1. \A i \in 1 .. Len(arrows') : arrows'[i].from \in Symbols
    <3>1. \A i \in 1 .. Len(arrows') : arrows'[i] \in Arrow
      BY <1>4
    <3>2. \A a \in Arrow : a.from \in Symbols
      BY DEF Arrow
    <3> QED BY <3>1, <3>2
  <2> QED BY <1>7, <1>8, <2>1 DEF OthersLead
<1>13. Searched(z, 0)'
  <2>1. Finished(z, 0)'
    BY <1>z, <1>6, <1>8 DEF Finished
  <2> QED BY <1>10, <1>11, <1>12, <2>1 DEF Searched
<1>14. Sized'
  BY <1>1 DEF Sized
<1> QED BY <1>1, <1>2, <1>5, <1>13, <1>14 DEF FlowInv

(* Every step of the drawing keeps the invariant.                          *)
LEMMA FlowKeeps ==
  ASSUME FlowInv, [FlowNext]_flowVars
  PROVE  FlowInv'
<1>0. FlowTypes
  BY DEF FlowInv
<1>1. CASE Measure
  BY <1>1, MeasureKeeps
<1>2. CASE StartMarking
  <2>1. stage = "marking" /\ stage' = "marking" /\ UNCHANGED <<size, drawnIn, across>>
    BY <1>2 DEF StartMarking
  <2>2. PICK fin, c : Searched(fin, c)
    BY <2>1 DEF FlowInv
  <2>3. FlowTypes' /\ Searched(fin, c)'
    BY <1>0, <1>2, <2>2, StartKeeps
  <2>4. Sized'
    BY <2>1 DEF FlowInv, Sized
  <2> QED BY <2>1, <2>3, <2>4 DEF FlowInv
<1>3. CASE MarkStep
  <2>1. stage = "marking" /\ stage' = "marking" /\ UNCHANGED <<size, drawnIn, across>>
    BY <1>3, MarkSteps
  <2>2. PICK fin, c : Searched(fin, c)
    BY <2>1 DEF FlowInv
  <2>3. FlowTypes' /\ \E f, d : Searched(f, d)'
    BY <1>0, <1>3, <2>2, MarkKeeps
  <2>4. Sized'
    BY <2>1 DEF FlowInv, Sized
  <2> QED BY <2>1, <2>3, <2>4 DEF FlowInv
<1>4. CASE StartLayering
  <2>1. /\ stage = "marking" /\ stack = <<>> /\ Open = {} /\ stage' = "layering"
        /\ UNCHANGED <<arrows, back, size, drawnIn, across>>
    BY <1>4 DEF StartLayering
  <2>2. PICK fin, c : Searched(fin, c)
    BY <2>1 DEF FlowInv
  <2>3. Leads(fin)
    BY <1>0, <2>1, <2>2, AllSearched
  <2>4. Leads(fin)'
    BY <2>1, <2>3 DEF Leads, Dag
  <2>5. FlowTypes' /\ Layered({})'
    BY <1>0, <1>4, LayeringStarts
  <2>6. Sized'
    BY <2>1 DEF FlowInv, Sized
  <2> QED BY <2>1, <2>4, <2>5, <2>6 DEF FlowInv
<1>5. CASE LayerStep
  <2>1. /\ stage = "layering" /\ stage' = "layering" /\ UNCHANGED <<arrows, back, size, drawnIn, across>>
    BY <1>5 DEF LayerStep
  <2>2. PICK fin : Leads(fin)
    BY <2>1 DEF FlowInv
  <2>3. PICK P : Layered(P)
    BY <2>1 DEF FlowInv
  <2>4. Leads(fin)'
    BY <2>1, <2>2 DEF Leads, Dag
  <2>5. FlowTypes' /\ \E Q : Layered(Q)'
    BY <1>0, <1>5, <2>3, LayeringKeeps
  <2>6. Sized'
    BY <2>1 DEF FlowInv, Sized
  <2> QED BY <2>1, <2>4, <2>5, <2>6 DEF FlowInv
<1>6. CASE StartPacking
  <2>1. /\ stage = "layering" /\ queue = <<>> /\ stage' = "packing"
        /\ UNCHANGED <<arrows, size, mark, stack, back, layer, indeg, queue, drawnIn, across>>
    BY <1>6 DEF StartPacking
  <2>2. PICK fin : Leads(fin)
    BY <2>1 DEF FlowInv
  <2>3. PICK P : Layered(P)
    BY <2>1 DEF FlowInv
  <2>4. Followed
    BY <1>0, <2>1, <2>2, <2>3, AllFollowed
  <2>5. Followed'
    BY <2>1, <2>4 DEF Followed, Dag, Zero
  <2>6. drawnIn' = 0 /\ across' = <<>> /\ DOMAIN across' = {}
    BY <2>1 DEF FlowInv
  <2>7. RowsPacked'
    <3>1. \A l \in Nat : ~(l < 0)
      OBVIOUS
    <3>2. IsFiniteSet(DOMAIN across')
      BY <2>6, FS_EmptySet
    <3> QED BY <2>6, <3>1, <3>2 DEF RowsPacked
  <2>8. FlowTypes' /\ Sized'
    BY <1>0, <2>1 DEF FlowInv, FlowTypes, Sized, Stages
  <2> QED BY <2>1, <2>5, <2>7, <2>8 DEF FlowInv
<1>7. CASE PackRow
  <2>1. stage = "packing" /\ stage' = "packing"
    BY <1>7 DEF PackRow
  <2>2. Followed /\ RowsPacked /\ Sized
    BY <2>1 DEF FlowInv
  <2>3. FlowTypes' /\ Followed' /\ Sized' /\ RowsPacked'
    BY <1>0, <1>7, <2>2, PackKeeps
  <2> QED BY <2>1, <2>3 DEF FlowInv
<1>8. CASE Draw
  <2>1. /\ stage = "packing" /\ drawnIn \notin Layers /\ stage' = "drawn"
        /\ UNCHANGED <<arrows, size, mark, stack, back, layer, indeg, queue, drawnIn, across>>
    BY <1>8 DEF Draw
  <2>2. Followed /\ RowsPacked /\ Sized
    BY <2>1 DEF FlowInv
  <2>3. AllPacked
    BY <1>0, <2>1, <2>2, NoneLeft
  <2>4. FlowTypes' /\ Sized' /\ Followed' /\ AllPacked'
    BY <1>0, <2>1, <2>2, <2>3 DEF FlowTypes, Sized, Stages, Followed, Dag, Zero, AllPacked
  <2>5. RowsPacked'
    BY <2>1, <2>2 DEF RowsPacked, RowApart, Row, Crossing, Forward, Across
  <2> QED BY <2>1, <2>4, <2>5 DEF FlowInv
<1>9. CASE UNCHANGED flowVars
  <2>1. UNCHANGED <<arrows, size, stage, mark, stack, back, layer, indeg, queue, drawnIn, across>>
    BY <1>9 DEF flowVars
  <2>2. FlowTypes' /\ (Sized => Sized') /\ (Followed => Followed') /\ (AllPacked => AllPacked')
    BY <1>0, <2>1 DEF FlowTypes, Sized, Followed, Dag, Zero, AllPacked
  <2>3. RowsPacked => RowsPacked'
    BY <2>1 DEF RowsPacked, RowApart, Row, Crossing, Forward, Across
  <2>4. \A fin, c : Searched(fin, c) => Searched(fin, c)'
    BY <2>1 DEF Searched, Finished, StackMarked, OnStack, BackLeads, OthersLead
  <2>5. \A fin : Leads(fin) => Leads(fin)'
    BY <2>1 DEF Leads, Dag
  <2>6. \A P : Layered(P) => Layered(P)'
    BY <2>1 DEF Layered, Once, Among, Into, Dag
  <2> QED BY <2>1, <2>2, <2>3, <2>4, <2>5, <2>6 DEF FlowInv, Zero
<1> QED BY <1>1, <1>2, <1>3, <1>4, <1>5, <1>6, <1>7, <1>8, <1>9 DEF FlowNext

(* The invariant says that the drawing can be read.                        *)
LEMMA FlowSays == FlowInv => FlowDrawn
<1> SUFFICES ASSUME FlowInv PROVE FlowDrawn
  OBVIOUS
<1>1. FlowTypes
  BY DEF FlowInv
<1>2. LayersFollow
  BY <1>1, FollowedTells DEF LayersFollow, FlowInv
<1>3. SlotsApart
  <2> SUFFICES ASSUME Drawn PROVE SlotsApart
    BY DEF SlotsApart
  <2> QED BY <1>1, PackedTells DEF FlowInv, Drawn
<1>4. ArrowsApart
  <2> SUFFICES ASSUME Drawn PROVE ArrowsApart
    BY DEF ArrowsApart
  <2>1. Followed /\ RowsPacked /\ Sized
    BY DEF FlowInv, Drawn
  <2> QED BY <1>1, <2>1, LanesApart, TwoLeave DEF ArrowsApart
<1> QED BY <1>2, <1>3, <1>4 DEF FlowDrawn

(* A drawn flowchart can be read, whatever cycles its arrows form.         *)
THEOREM ChartsStayApart == FlowSpec => []FlowDrawn
<1>1. FlowInv /\ [FlowNext]_flowVars => FlowInv'
  BY FlowKeeps
<1> QED BY <1>1, FlowStarts, FlowSays, PTL DEF FlowSpec

-----------------------------------------------------------------------------
(* The types of the two drawings.                                          *)

(* Before a map is laid out there is no box.                               *)
Unlaid == drawing \notin {"splitting", "placed"} => up = <<>> /\ box = <<>>

(* There is no box until a map is measured.                                *)
LEMMA UnlaidStays == Unlaid /\ [TreeNext]_treeVars => Unlaid'
BY DEF Unlaid, TreeNext, NextWord, PutWord, EndLine, EndText, MeasureText, Split, PlaceBox, treeVars, Breaks

(* With the invariants of the wrapped text and of the tree these are the   *)
(* tree drawing's types.                                                   *)
LEMMA TreeTyped ==
  /\ TreeInit => Unlaid
  /\ TextInv /\ PlacesInv /\ Unlaid => TreeTypeOK
<1>1. TreeInit => Unlaid
  BY DEF TreeInit, Unlaid
<1>2. ASSUME TextInv, PlacesInv, Unlaid PROVE TreeTypeOK
  <2>1. Range(<<>>) = {}
    BY DEF Range
  <2>2. CASE drawing \in {"splitting", "placed"}
    <3>1. PICK n \in Nat \ {0} : Laid(n) /\ side \in [DOMAIN side -> {-1, 1}]
      BY <1>2, <2>2 DEF PlacesInv, Laying
    <3>2. box \in [1 .. n -> NodeSizes] /\ up \in [2 .. n -> 1 .. n] /\ \A i \in 2 .. n : up[i] < i
      BY <3>1 DEF Laid
    <3>3. \A i \in DOMAIN up : up[i] \in 1 .. i - 1
      <4> SUFFICES ASSUME NEW i \in 2 .. n PROVE up[i] \in 1 .. i - 1
        BY <3>2
      <4>1. up[i] \in 1 .. n /\ up[i] < i
        BY <3>2
      <4> QED BY <3>1, <4>1
    <3>4. Range(box) \subseteq NodeSizes
      BY <3>2 DEF Range
    <3>5. Range(side) \subseteq {-1, 1}
      BY <3>1 DEF Range
    <3> QED BY <1>2, <3>3, <3>4, <3>5 DEF TextInv, TextTypes, TreeTypeOK
  <2>3. CASE drawing \notin {"splitting", "placed"}
    <3>1. up = <<>> /\ box = <<>> /\ side = <<>>
      BY <1>2, <2>3 DEF Unlaid, PlacesInv
    <3>2. \A i \in DOMAIN up : FALSE
      BY <3>1
    <3> QED BY <1>2, <2>1, <3>1, <3>2 DEF TextInv, TextTypes, TreeTypeOK
  <2> QED BY <2>2, <2>3
<1> QED BY <1>1, <1>2

(* Before a flowchart is measured no symbol has a size.                    *)
Unmeasured == stage = "waiting" => size = <<>>

(* There is no size until the flowchart is measured.                       *)
LEMMA UnmeasuredStays == FlowInv /\ Unmeasured /\ [FlowNext]_flowVars => Unmeasured'
<1> SUFFICES ASSUME FlowInv, Unmeasured, [FlowNext]_flowVars PROVE Unmeasured'
  OBVIOUS
<1>1. stage' = "waiting" => UNCHANGED <<stage, size>>
  BY DEF FlowNext, Measure, StartMarking, MarkStep, StartLayering, LayerStep, StartPacking, PackRow, Draw, flowVars
<1> QED BY <1>1 DEF Unmeasured

(* With the invariant of the flowchart these are its types.                *)
LEMMA FlowTyped ==
  /\ FlowInit => Unmeasured
  /\ FlowInv /\ Unmeasured => FlowTypeOK
<1>1. FlowInit => Unmeasured
  BY DEF FlowInit, Unmeasured
<1>2. ASSUME FlowInv, Unmeasured PROVE FlowTypeOK
  <2>1. DOMAIN size \subseteq Symbols /\ Range(size) \subseteq Boxes
    <3>1. CASE stage = "waiting"
      BY <1>2, <3>1 DEF Unmeasured, Range
    <3>2. CASE stage # "waiting"
      BY <1>2, <3>2 DEF FlowInv, Sized, Range
    <3> QED BY <3>1, <3>2
  <2>2. drawnIn \in Nat /\ \A x \in DOMAIN across : across[x] \in Int
    <3>1. CASE stage \in {"packing", "drawn"}
      BY <1>2, <3>1 DEF FlowInv, RowsPacked
    <3>2. CASE stage \notin {"packing", "drawn"}
      <4>1. drawnIn = 0 /\ across = <<>>
        BY <1>2, <3>2 DEF FlowInv
      <4> QED BY <4>1
    <3> QED BY <3>1, <3>2
  <2>3. FlowTypes
    BY <1>2 DEF FlowInv
  <2> QED BY <2>1, <2>2, <2>3 DEF FlowTypes, FlowTypeOK, Stages, StackEntries
<1> QED BY <1>1, <1>2

-----------------------------------------------------------------------------
(* The mind maps.  The numbers of the nodes have a bound, so that the next *)
(* one is of none of them.                                                 *)
NodeFits(n) == n = [id |-> n.id, map |-> n.map, up |-> n.up] /\ n.id \in Nat

MapRows == [id : Maps, owner : Writers, shared : BOOLEAN, open : BOOLEAN, flow : BOOLEAN]

MapsInv ==
    /\ maps \subseteq MapRows
    /\ \A n \in nodes : NodeFits(n)
    /\ \E N \in Nat : \A n \in nodes : n.id <= N
    /\ NothingDangles

LEMMA NextIsNew ==
  ASSUME MapsInv
  PROVE  NextId(nodes) \in Nat /\ NextId(nodes) # 0 /\ \A n \in nodes : n.id < NextId(nodes)
<1> DEFINE S == {n.id : n \in nodes} \cup {0}
<1>1. PICK N \in Nat : \A n \in nodes : n.id <= N
  BY DEF MapsInv
<1>2. S \subseteq 0 .. N
  BY <1>1 DEF MapsInv, NodeFits
<1>3. Max(S) \in S /\ \A v \in S : v <= Max(S)
  BY <1>1, <1>2, LargestIsLargest
<1>4. Max(S) \in Nat /\ \A n \in nodes : n.id \in Nat /\ n.id <= Max(S)
  BY <1>2, <1>3
<1>5. NextId(nodes) = Max(S) + 1
  BY DEF NextId
<1> HIDE DEF S
<1> QED BY <1>4, <1>5

LEMMA MapsInitInv == MapsInit => MapsInv
BY DEF MapsInit, MapsInv, NothingDangles

(* What hung on a node goes with it.                                       *)
LEMMA DroppingFits ==
  ASSUME MapsInv, NEW gone, DropNodes(gone), UNCHANGED entries, maps' \subseteq maps,
         \A n \in nodes : n.id \notin gone => \E m \in maps' : m.id = n.map
  PROVE  MapsInv'
BY DEF MapsInv, NothingDangles, DropNodes, NodesOf, NodeFits

LEMMA MapsKeep ==
  ASSUME MapsInv, MapsNext \/ UNCHANGED mapVars
  PROVE  MapsInv'
<1>1. ASSUME UNCHANGED <<nodes, links>>, refs' \subseteq refs, \A r \in refs' : r[2] \in entries',
             maps' \subseteq MapRows, \A m \in maps : \E k \in maps' : k.id = m.id
      PROVE  MapsInv'
  <2>1. \A n \in nodes : \E m \in maps' : m.id = n.map
    BY <1>1 DEF MapsInv, NothingDangles
  <2> QED BY <1>1, <2>1 DEF MapsInv, NothingDangles, NodesOf
<1>2. ASSUME NEW s \in Writers, NEW shared \in BOOLEAN, NEW flow \in BOOLEAN, NewMap(s, shared, flow) PROVE MapsInv'
  <2> DEFINE id == NextId(nodes)
             new == [id |-> id, map |-> NextId(maps), up |-> 0]
             row == [id |-> NextId(maps), owner |-> s, shared |-> shared, open |-> TRUE, flow |-> flow]
  <2>0. nodes' = nodes \cup {new} /\ UNCHANGED <<links, refs, entries>> /\ maps' = maps \cup {row}
    BY <1>2 DEF NewMap
  <2>1. /\ nodes' = nodes \cup {new} /\ UNCHANGED <<links, refs, entries>>
        /\ maps \subseteq maps' /\ maps' \subseteq MapRows /\ \E m \in maps' : m.id = NextId(maps)
    <3>1. row \in MapRows /\ row.id = NextId(maps)
      BY <1>2 DEF NewMap, MapRows
    <3> HIDE DEF new, row
    <3> QED BY <2>0, <3>1 DEF MapsInv
  <2>2. id \in Nat /\ \A n \in nodes : n.id \in Nat /\ n.id < id
    BY NextIsNew DEF MapsInv, NodeFits
  <2>3. NodeFits(new) /\ new.id = id /\ new.map = NextId(maps)
    BY <2>2 DEF NodeFits
  <2> HIDE DEF new, id
  <2>4. \A n \in nodes' : n.id <= id
    BY <2>1, <2>2, <2>3
  <2>5. \A n, k \in nodes' : k.id = n.id => k = n
    BY <2>1, <2>2, <2>3 DEF MapsInv, NothingDangles
  <2> QED BY <2>1, <2>2, <2>3, <2>4, <2>5 DEF MapsInv, NothingDangles, NodesOf
<1>3. ASSUME NEW s \in Writers, AddNode(s) PROVE MapsInv'
  <2>1. PICK m \in Target(s), at \in NodesOf(writing[s]), E \in SUBSET entries :
          LET id == NextId(nodes)
              under == IF m.flow THEN RootOf(m.id) ELSE at
          IN  /\ nodes' = nodes \cup {[id |-> id, map |-> m.id, up |-> under.id]}
              /\ links' = IF m.flow THEN links \cup {[map |-> m.id, from |-> at.id, to |-> id]}
                          ELSE links
              /\ refs' = refs \cup ({id} \X E)
    BY <1>3 DEF AddNode
  <2> DEFINE id == NextId(nodes)
             hook == (IF m.flow THEN RootOf(m.id) ELSE at).id
             new == [id |-> id, map |-> m.id, up |-> hook]
             arrow == [map |-> m.id, from |-> at.id, to |-> id]
  <2>2. /\ nodes' = nodes \cup {new} /\ links' \subseteq links \cup {arrow}
        /\ refs' = refs \cup ({id} \X E) /\ UNCHANGED <<maps, entries>>
    BY <1>3, <2>1 DEF AddNode
  <2>3. m \in maps /\ m.id = writing[s] /\ at \in nodes /\ at.map = m.id
    BY DEF Target, NodesOf
  <2>4. id \in Nat /\ \A n \in nodes : n.id \in Nat /\ n.id < id
    BY NextIsNew DEF MapsInv, NodeFits
  <2>5. NodeFits(new) /\ new.id = id /\ new.map = m.id
    BY <2>4 DEF NodeFits
  <2>6. arrow.map = m.id /\ arrow.from = at.id /\ arrow.to = id
    OBVIOUS
  <2> HIDE DEF new, arrow, id, hook
  <2>7. \A n, k \in nodes' : n.id <= id /\ (k.id = n.id => k = n)
    BY <2>2, <2>4, <2>5 DEF MapsInv, NothingDangles
  <2>8. at.id # id
    BY <2>3, <2>4
  <2>9. ASSUME NEW l \in links'
        PROVE  l.from # l.to /\ \A i \in {l.from, l.to} : \E n \in nodes' : n.map = l.map /\ n.id = i
    <3>1. CASE l \in links
      BY <3>1, <2>2 DEF MapsInv, NothingDangles, NodesOf
    <3>2. CASE l = arrow
      BY <3>2, <2>2, <2>3, <2>5, <2>6, <2>8
    <3> QED BY <3>1, <3>2, <2>2
  <2>10. \A r \in refs' : r[2] \in entries' /\ \E n \in nodes' : n.id = r[1]
    BY <2>2, <2>5 DEF MapsInv, NothingDangles
  <2>11. \A n \in nodes' : NodeFits(n) /\ \E k \in maps' : k.id = n.map
    BY <2>2, <2>3, <2>5 DEF MapsInv, NothingDangles
  <2> QED BY <2>2, <2>4, <2>7, <2>9, <2>10, <2>11 DEF MapsInv, NothingDangles, NodesOf
<1>4. ASSUME NEW s \in Writers, MoveNode(s) PROVE MapsInv'
  <2>1. PICK n \in nodes, p \in nodes : nodes' = (nodes \ {n}) \cup {[n EXCEPT !.up = p.id]}
    BY <1>4 DEF MoveNode, NodesOf
  <2> DEFINE new == [n EXCEPT !.up = p.id]
  <2>2. new.id = n.id /\ new.map = n.map /\ NodeFits(new)
    BY DEF MapsInv, NodeFits
  <2>3. UNCHANGED <<maps, links, refs, entries>> /\ nodes' = (nodes \ {n}) \cup {new}
    BY <1>4, <2>1 DEF MoveNode
  <2> HIDE DEF new
  <2>4. \A k \in nodes : \E q \in nodes' : q.id = k.id /\ q.map = k.map
    BY <2>2, <2>3
  <2>5. \A q \in nodes' : NodeFits(q) /\ \E k \in nodes : q.id = k.id /\ q.map = k.map /\ (q # new => q = k)
    BY <2>2, <2>3 DEF MapsInv
  <2>6. \A k, q \in nodes' : k.id = q.id => k = q
    BY <2>2, <2>3 DEF MapsInv, NothingDangles
  <2> QED BY <2>3, <2>4, <2>5, <2>6 DEF MapsInv, NothingDangles, NodesOf
<1>5. ASSUME NEW s \in Writers, RemoveNode(s) PROVE MapsInv'
  <2>1. PICK n \in NodesOf(writing[s]) : DropNodes({k.id : k \in {x \in nodes : n.id \in Above(x.id)}})
    BY <1>5 DEF RemoveNode
  <2>2. UNCHANGED <<maps, entries>>
    BY <1>5 DEF RemoveNode
  <2> QED BY <2>1, <2>2, DroppingFits DEF MapsInv, NothingDangles
<1>6. ASSUME NEW s \in Writers, DeleteMap(s) PROVE MapsInv'
  <2>1. PICK m \in maps : maps' = maps \ {m} /\ DropNodes({n.id : n \in NodesOf(m.id)})
    BY <1>6 DEF DeleteMap
  <2>2. ASSUME NEW n \in nodes, n.id \notin {k.id : k \in NodesOf(m.id)}
        PROVE  \E k \in maps' : k.id = n.map
    BY <2>1, <2>2 DEF MapsInv, NothingDangles, NodesOf
  <2>3. UNCHANGED entries
    BY <1>6 DEF DeleteMap
  <2> QED BY <2>1, <2>2, <2>3, DroppingFits
<1>7. ASSUME NEW s \in Writers, Link(s) PROVE MapsInv'
  <2>1. PICK a \in NodesOf(writing[s]), b \in NodesOf(writing[s]) :
          LET l == [map |-> writing[s], from |-> a.id, to |-> b.id]
          IN  a # b /\ links' = IF l \in links THEN links \ {l} ELSE links \cup {l}
    BY <1>7 DEF Link
  <2>2. UNCHANGED <<maps, nodes, refs, entries>>
    BY <1>7 DEF Link
  <2>3. a.id # b.id
    BY <2>1 DEF MapsInv, NothingDangles, NodesOf
  <2>4. \A l \in links' : l \in links \/ l = [map |-> writing[s], from |-> a.id, to |-> b.id]
    BY <2>1
  <2>5. \A l \in links' : l.from # l.to /\ \A i \in {l.from, l.to} : \E n \in NodesOf(l.map) : n.id = i
    BY <2>3, <2>4 DEF MapsInv, NothingDangles
  <2> QED BY <2>2, <2>5 DEF MapsInv, NothingDangles, NodesOf
<1>8. ASSUME NEW s \in Writers, Refer(s) PROVE MapsInv'
  <2>1. PICK n \in NodesOf(writing[s]), e \in entries :
          refs' = IF <<n.id, e>> \in refs THEN refs \ {<<n.id, e>>} ELSE refs \cup {<<n.id, e>>}
    BY <1>8 DEF Refer
  <2>2. UNCHANGED <<maps, nodes, links, entries>> /\ n \in nodes
    BY <1>8 DEF Refer, NodesOf
  <2>3. \A r \in refs' : r[2] \in entries /\ \E k \in nodes : k.id = r[1]
    BY <2>1, <2>2 DEF MapsInv, NothingDangles
  <2> QED BY <2>2, <2>3 DEF MapsInv, NothingDangles, NodesOf
<1>9. ASSUME NEW s \in Writers, SetMap(s) PROVE MapsInv'
  <2>1. PICK m \in maps : \/ maps' = (maps \ {m}) \cup {[m EXCEPT !.open = ~m.open]}
                          \/ maps' = (maps \ {m}) \cup {[m EXCEPT !.shared = FALSE]}
                          \/ maps' = (maps \ {m}) \cup {[m EXCEPT !.shared = TRUE]}
    BY <1>9 DEF SetMap
  <2>2. PICK row : maps' = (maps \ {m}) \cup {row} /\ row \in MapRows /\ row.id = m.id
    <3>1. m \in MapRows
      BY DEF MapsInv
    <3>2. \A b \in BOOLEAN : /\ [m EXCEPT !.shared = b] \in MapRows /\ [m EXCEPT !.shared = b].id = m.id
      BY <3>1 DEF MapRows
    <3>3. [m EXCEPT !.open = ~m.open] \in MapRows /\ [m EXCEPT !.open = ~m.open].id = m.id
      BY <3>1 DEF MapRows
    <3> QED BY <2>1, <3>2, <3>3, Zenon
  <2>3. /\ UNCHANGED <<nodes, links, refs, entries>> /\ maps' \subseteq MapRows
        /\ \A k \in maps : \E q \in maps' : q.id = k.id
    BY <1>9, <2>2 DEF SetMap, MapsInv
  <2> QED BY <1>1, <2>3 DEF MapsInv, NothingDangles
<1>10. ASSUME NEW e \in entries, DeleteEntry(e) PROVE MapsInv'
  BY <1>10, <1>1 DEF DeleteEntry, MapsInv, NothingDangles
<1>11. CASE AddEntry
  BY <1>11, <1>1 DEF AddEntry, MapsInv, NothingDangles
<1>12. ASSUME UNCHANGED <<maps, nodes, links, refs, entries>> PROVE MapsInv'
  BY <1>12 DEF MapsInv, NothingDangles, NodesOf
<1>13. ASSUME NEW s \in Writers, (\E m \in maps : CheckWrite(s, m)) \/ GiveUpWrite(s) \/ AddChain(s) \/ RemoveChain(s)
       PROVE  MapsInv'
  BY <1>12, <1>13 DEF CheckWrite, GiveUpWrite, AddChain, RemoveChain
<1>14. ASSUME \/ UNCHANGED mapVars
              \/ \E m \in maps : Export(m.id) \/ \E E \in SUBSET Entries : MergeMap(m.id, E)
              \/ \E x \in packed, E \in SUBSET Entries : Import(x, E)
       PROVE  MapsInv'
  BY <1>12, <1>14 DEF Export, MergeMap, Import, mapVars
<1> QED BY <1>2, <1>3, <1>4, <1>5, <1>6, <1>7, <1>8, <1>9, <1>10, <1>11, <1>13, <1>14 DEF MapsNext

(* A ranking of a finite set has each of its members once.                 *)
LEMMA RankingsAreWhole ==
  ASSUME NEW S, IsFiniteSet(S), NEW o \in SetToSeqs(S)
  PROVE  /\ o \in Seq(S) /\ Len(o) = Cardinality(S) /\ Cardinality(S) \in Nat
         /\ \A i, k \in 1 .. Len(o) : o[i] = o[k] => i = k
         /\ \A x \in S : \E i \in 1 .. Len(o) : o[i] = x
<1> DEFINE n == Cardinality(S)
           D == 1 .. n
<1>1. n \in Nat
  BY FS_CardinalityType
<1>2. o \in [D -> S] /\ \A i, k \in D : i # k => o[i] # o[k]
  BY DEF SetToSeqs
<1>3. Cardinality(D) = n
  BY <1>1, FS_Interval
<1> HIDE DEF n
<1>4. o \in Seq(S) /\ Len(o) = n
  BY <1>1, <1>2, FunctionIsSeq
<1> HIDE DEF D
<1>5. o \in Injection(D, S)
  BY <1>2 DEF Injection, IsInjective
<1>6. o \in Surjection(D, S)
  BY <1>3, <1>5, FS_Injection DEF n
<1>7. \A x \in S : \E i \in D : o[i] = x
  BY <1>6 DEF Surjection
<1> QED BY <1>1, <1>2, <1>4, <1>7 DEF D, n

(* A map hangs together: one root, every other node under a node of its    *)
(* map, and numbers that fall on the way up.                               *)
Falls(h) == \A n \in nodes : n.up # 0 => \E p \in nodes : p.id = n.up /\ p.map = n.map /\ h[p.id] < h[n.id]

TreeInv ==
    /\ IsFiniteSet(nodes) /\ \A n \in nodes : n.id # 0
    /\ \A m, k \in maps : m.id = k.id => m = k
    /\ \A m \in maps : \E n \in nodes : n.map = m.id /\ n.up = 0
    /\ \A n, k \in nodes : n.up = 0 /\ k.up = 0 /\ n.map = k.map => n = k
    /\ \E h \in [Nat -> Nat] : Falls(h)

NodeAt(k) == CHOOSE n \in nodes : n.id = k

(* What is above a node: the node, with one that is above what it hangs    *)
(* on, and no more.                                                        *)
LEMMA AboveIs ==
  ASSUME MapsInv, TreeInv, NEW n \in nodes
  PROVE  /\ n.id \in Above(n.id)
         /\ \A j \in Above(n.id) : \E x \in nodes : x.id = j /\ x.map = n.map
         /\ \A x \in nodes : x.id \in Above(n.id) /\ x.up # 0 => x.up \in Above(n.id)
         /\ \A T : n.id \in T /\ (\A x \in nodes : x.id \in T /\ x.up # 0 => x.up \in T) => Above(n.id) \subseteq T
<1> DEFINE N == Cardinality(nodes)
           V == {x.id : x \in nodes} \cup {0}
           G == [p \in (1 .. N) \X V |-> IF p[2] = 0 THEN 0 ELSE NodeAt(p[2]).up]
           Is(w) == w = [k \in 0 .. N |-> IF k = 0 THEN n.id ELSE IF w[k - 1] = 0 THEN 0 ELSE NodeAt(w[k - 1]).up]
           w == CHOOSE p : Is(p)
<1>1. N \in Nat /\ IsFiniteSet(nodes)
  BY FS_CardinalityType DEF TreeInv
<1>2. \A x \in nodes : NodeAt(x.id) = x
  BY DEF MapsInv, NothingDangles, NodeAt
<1>3. \A x \in nodes : x.id \in Nat /\ x.id # 0 /\ x.up \in V
  BY DEF MapsInv, NodeFits, TreeInv, Falls
<1>4. G \in [(1 .. N) \X V -> V]
  <2>1. \A v \in V : v # 0 => NodeAt(v).up \in V
    BY <1>2, <1>3
  <2> HIDE DEF V
  <2>2. 0 \in V
    BY DEF V
  <2> QED BY <2>1, <2>2
<1> HIDE DEF N
<1>5. Is(w)
  <2>1. n.id \in V
    OBVIOUS
  <2> HIDE DEF V, G
  <2>2. PICK p \in [0 .. N -> V] : p[0] = n.id /\ \A k \in 1 .. N : p[k] = G[<<k, p[k - 1]>>]
    <3> DEFINE v0 == n.id
    <3>1. N \in Nat /\ v0 \in V /\ G \in [(1 .. N) \X V -> V]
      BY <1>1, <1>4, <2>1
    <3> HIDE DEF v0
    <3>2. \E p \in [0 .. N -> V] : Iterated(p, v0, N, G)
      BY ONLY <3>1, PathExists
    <3> QED BY <3>2 DEF v0, Iterated
  <2>3. ASSUME NEW k \in 0 .. N
        PROVE  p[k] = IF k = 0 THEN n.id ELSE IF p[k - 1] = 0 THEN 0 ELSE NodeAt(p[k - 1]).up
    <3>1. CASE k = 0
      BY <3>1, <2>2
    <3>2. CASE k # 0
      <4>1. k \in 1 .. N /\ k - 1 \in 0 .. N
        BY <3>2, <1>1
      <4>2. <<k, p[k - 1]>> \in (1 .. N) \X V
        BY <4>1
      <4> QED BY <4>1, <4>2, <2>2, <3>2 DEF G
    <3> QED BY <3>1, <3>2
  <2>4. Is(p)
    BY <2>3
  <2> QED BY <2>4
<1>6. w[0] = n.id /\ \A k \in 1 .. N : w[k] = IF w[k - 1] = 0 THEN 0 ELSE NodeAt(w[k - 1]).up
  <2>1. ASSUME NEW k \in 0 .. N
        PROVE  w[k] = IF k = 0 THEN n.id ELSE IF w[k - 1] = 0 THEN 0 ELSE NodeAt(w[k - 1]).up
    <3> HIDE DEF w
    <3> QED BY <1>5
  <2>2. 0 \in 0 .. N /\ \A k \in 1 .. N : k \in 0 .. N /\ k # 0
    BY <1>1
  <2> HIDE DEF w
  <2> QED BY <2>1, <2>2
<1>7. Above(n.id) = {w[k] : k \in 0 .. N} \ {0}
  BY DEF Above, NodeAt, N
<1> HIDE DEF w, V, G
<1> DEFINE Steps == {k \in Nat : k <= N => w[k] = 0 \/ \E x \in nodes : x.id = w[k] /\ x.map = n.map}
<1>8. Steps = Nat
  <2>1. 0 \in Steps
    BY <1>6
  <2>2. ASSUME NEW k \in Steps PROVE k + 1 \in Steps
    <3> SUFFICES ASSUME k + 1 <= N, w[k + 1] # 0 PROVE \E x \in nodes : x.id = w[k + 1] /\ x.map = n.map
      OBVIOUS
    <3>1. k \in Nat /\ k <= N /\ k + 1 \in 1 .. N /\ (k + 1) - 1 = k
      BY <1>1
    <3>2. w[k] # 0 /\ w[k + 1] = NodeAt(w[k]).up
      BY <3>1, <1>6
    <3>3. PICK x \in nodes : x.id = w[k] /\ x.map = n.map
      BY <3>1, <3>2
    <3> QED BY <3>2, <3>3, <1>2 DEF TreeInv, Falls
  <2> HIDE DEF Steps
  <2> QED BY <2>1, <2>2, CountingUp DEF Steps
<1>9. \A k \in 0 .. N : w[k] = 0 \/ \E x \in nodes : x.id = w[k] /\ x.map = n.map
  BY <1>1, <1>8
<1>10. \A j \in Above(n.id) : \E x \in nodes : x.id = j /\ x.map = n.map
  BY <1>7, <1>9
<1>11. n.id \in Above(n.id)
  BY <1>1, <1>3, <1>6, <1>7
<1>12. w[N] = 0
  <2> SUFFICES ASSUME w[N] # 0 PROVE FALSE
    OBVIOUS
  <2>1. PICK h \in [Nat -> Nat] : Falls(h)
    BY DEF TreeInv
  <2> DEFINE Fall == {k \in Nat : k <= N /\ w[k] # 0 => \A j \in 0 .. k : w[j] # 0 /\ (j < k => h[w[k]] < h[w[j]])}
  <2>2. 0 \in Fall
    OBVIOUS
  <2>3. ASSUME NEW k \in Fall PROVE k + 1 \in Fall
    <3> SUFFICES ASSUME k + 1 <= N, w[k + 1] # 0, NEW j \in 0 .. k + 1
                 PROVE  w[j] # 0 /\ (j < k + 1 => h[w[k + 1]] < h[w[j]])
      OBVIOUS
    <3>1. k \in Nat /\ k <= N /\ k + 1 \in 1 .. N /\ (k + 1) - 1 = k /\ k \in 0 .. k
      BY <1>1
    <3>2. w[k] # 0 /\ w[k + 1] = NodeAt(w[k]).up
      BY <3>1, <1>6
    <3>3. PICK x \in nodes : x.id = w[k]
      BY <3>1, <3>2, <1>9
    <3>4. h[w[k + 1]] < h[w[k]] /\ w[k] \in Nat /\ w[k + 1] \in Nat
      <4>1. PICK p \in nodes : p.id = x.up /\ h[p.id] < h[x.id]
        BY <2>1, <3>2, <3>3, <1>2 DEF Falls
      <4> QED BY <3>2, <3>3, <4>1, <1>2, <1>3
    <3>5. CASE j = k + 1
      BY <3>5, <3>1
    <3>6. CASE j # k + 1
      <4>1. j \in 0 .. k /\ j \in 0 .. N
        BY <3>1, <3>6, <1>1
      <4>2. w[j] # 0 /\ (j < k => h[w[k]] < h[w[j]])
        BY <3>1, <3>2, <4>1
      <4>3. w[j] \in Nat
        BY <4>1, <4>2, <1>3, <1>9
      <4>4. h[w[j]] \in Nat /\ h[w[k]] \in Nat /\ h[w[k + 1]] \in Nat
        BY <3>4, <4>3
      <4>5. j < k \/ j = k
        BY <4>1, <3>1
      <4> QED BY <3>4, <4>2, <4>4, <4>5
    <3> QED BY <3>5, <3>6
  <2> HIDE DEF Fall
  <2>4. Fall = Nat
    BY <2>2, <2>3, CountingUp DEF Fall
  <2>5. \A j \in 0 .. N : w[j] # 0
    BY <2>4, <1>1 DEF Fall
  <2>6. \A j, k \in 0 .. N : j < k => w[j] # w[k]
    <3> SUFFICES ASSUME NEW j \in 0 .. N, NEW k \in 0 .. N, j < k, w[j] = w[k] PROVE FALSE
      OBVIOUS
    <3>1. k \in Nat /\ k <= N /\ j \in 0 .. k /\ w[k] # 0
      BY <1>1, <2>5
    <3>2. h[w[k]] < h[w[j]]
      BY <3>1, <2>4 DEF Fall
    <3>3. w[k] \in Nat
      BY <3>1, <1>3, <1>9
    <3> QED BY <3>2, <3>3
  <2> DEFINE f == [j \in 0 .. N |-> NodeAt(w[j])]
  <2>7. f \in [0 .. N -> nodes] /\ \A j \in 0 .. N : f[j].id = w[j]
    BY <1>2, <1>9, <2>5
  <2>8. IsFiniteSet(0 .. N) /\ Cardinality(0 .. N) = N + 1
    <3>1. 0 \in Int /\ N \in Int /\ ~(0 > N)
      BY <1>1
    <3> QED BY <3>1, FS_Interval
  <2> HIDE DEF f
  <2>9. \E j, k \in 0 .. N : j # k /\ f[j] = f[k]
    <3>1. Cardinality(nodes) < Cardinality(0 .. N)
      BY <1>1, <2>8 DEF N
    <3> DEFINE S == 0 .. N
    <3>2. IsFiniteSet(S) /\ Cardinality(nodes) < Cardinality(S) /\ f \in [S -> nodes]
      BY <2>7, <2>8, <3>1
    <3> HIDE DEF S
    <3>3. \E j, k \in S : j # k /\ f[j] = f[k]
      BY ONLY <1>1, <3>2, FS_PigeonHole
    <3> QED BY <3>3 DEF S
  <2>10. \A j, k \in 0 .. N : j < k \/ k < j \/ j = k
    BY <1>1
  <2> QED BY <2>6, <2>7, <2>9, <2>10
<1>13. ASSUME NEW x \in nodes, x.id \in Above(n.id), x.up # 0 PROVE x.up \in Above(n.id)
  <2>1. PICK k \in 0 .. N : w[k] = x.id
    BY <1>7, <1>13
  <2>2. k + 1 \in 1 .. N /\ (k + 1) - 1 = k /\ k + 1 \in 0 .. N
    <3>1. k # N
      BY <2>1, <1>12, <1>3
    <3> QED BY <3>1, <1>1
  <2>3. w[k + 1] = x.up
    BY <2>1, <2>2, <1>2, <1>3, <1>6
  <2> QED BY <2>2, <2>3, <1>7, <1>13
<1>14. ASSUME NEW T, n.id \in T, \A x \in nodes : x.id \in T /\ x.up # 0 => x.up \in T PROVE Above(n.id) \subseteq T
  <2> DEFINE In == {k \in Nat : k <= N => w[k] \in T \cup {0}}
  <2>1. 0 \in In
    BY <1>6, <1>14
  <2>2. ASSUME NEW k \in In PROVE k + 1 \in In
    <3> SUFFICES ASSUME k + 1 <= N, w[k + 1] # 0 PROVE w[k + 1] \in T
      OBVIOUS
    <3>1. k \in Nat /\ k <= N /\ k + 1 \in 1 .. N /\ (k + 1) - 1 = k /\ k \in 0 .. N
      BY <1>1
    <3>2. w[k] # 0 /\ w[k + 1] = NodeAt(w[k]).up /\ w[k] \in T
      BY <3>1, <1>6
    <3>3. PICK x \in nodes : x.id = w[k]
      BY <3>1, <3>2, <1>9
    <3> QED BY <3>2, <3>3, <1>2, <1>14
  <2> HIDE DEF In
  <2>3. In = Nat
    BY <2>1, <2>2, CountingUp DEF In
  <2> QED BY <2>3, <1>7, <1>1 DEF In
<1> QED BY <1>10, <1>11, <1>13, <1>14

LEMMA AboveAbove ==
  ASSUME MapsInv, TreeInv, NEW n \in nodes, NEW k \in nodes, k.id \in Above(n.id)
  PROVE  Above(k.id) \subseteq Above(n.id)
BY AboveIs

LEMMA HangsOnParent ==
  ASSUME MapsInv, TreeInv, NEW n \in nodes, n.up # 0, NEW i \in Above(n.id), i # n.id
  PROVE  i \in Above(n.up)
<1>1. PICK p \in nodes : p.id = n.up
  BY DEF TreeInv, Falls
<1> DEFINE T == {n.id} \cup Above(p.id)
<1>2. \A x \in nodes : x.id \in T /\ x.up # 0 => x.up \in T
  <2> SUFFICES ASSUME NEW x \in nodes, x.id \in T, x.up # 0 PROVE x.up \in T
    OBVIOUS
  <2>1. CASE x.id = n.id
    <3>1. x = n
      BY <2>1 DEF MapsInv, NothingDangles
    <3> QED BY <3>1, <1>1, AboveIs
  <2>2. CASE x.id \in Above(p.id)
    BY <2>2, AboveIs
  <2> QED BY <2>1, <2>2
<1>3. n.id \in T
  OBVIOUS
<1> HIDE DEF T
<1>4. Above(n.id) \subseteq T
  BY <1>2, <1>3, AboveIs
<1> QED BY <1>1, <1>4 DEF T

LEMMA TreesStand == MapsInv /\ TreeInv => TreesHang
<1> SUFFICES ASSUME MapsInv, TreeInv PROVE TreesHang
  OBVIOUS
<1>1. ASSUME NEW m \in maps PROVE Cardinality({n \in NodesOf(m.id) : n.up = 0}) = 1
  <2>1. PICK r \in nodes : r.map = m.id /\ r.up = 0
    BY DEF TreeInv
  <2>2. {n \in NodesOf(m.id) : n.up = 0} = {r}
    BY <2>1 DEF TreeInv, NodesOf
  <2> QED BY <2>2, FS_Singleton
<1>2. ASSUME NEW n \in nodes PROVE RootOf(n.map).id \in Above(n.id)
  <2>1. PICK r \in nodes : r.map = n.map /\ r.up = 0
    BY DEF TreeInv, MapsInv, NothingDangles
  <2>2. RootOf(n.map) = r
    <3>1. \A x \in NodesOf(n.map) : x.up = 0 => x = r
      BY <2>1 DEF TreeInv, NodesOf
    <3>2. r \in NodesOf(n.map)
      BY <2>1 DEF NodesOf
    <3> QED BY <2>1, <3>1, <3>2 DEF RootOf
  <2> SUFFICES ASSUME r.id \notin Above(n.id) PROVE FALSE
    BY <2>2
  <2>3. PICK h \in [Nat -> Nat] : Falls(h)
    BY DEF TreeInv
  <2> DEFINE H == {h[j] : j \in Above(n.id)}
  <2>4. \A j \in Above(n.id) : j \in Nat /\ \E x \in nodes : x.id = j /\ x.map = n.map
    <3>1. \A j \in Above(n.id) : \E x \in nodes : x.id = j /\ x.map = n.map
      BY AboveIs
    <3>2. \A x \in nodes : x.id \in Nat
      BY DEF MapsInv, NodeFits
    <3> QED BY <3>1, <3>2
  <2>5. H \in SUBSET Nat /\ H # {}
    BY <2>4, AboveIs
  <2> HIDE DEF H
  <2>6. PICK t \in H : \A s \in H : t <= s
    BY <2>5, LeastOne
  <2>7. PICK x \in nodes : x.id \in Above(n.id) /\ h[x.id] = t /\ x.map = n.map
    BY <2>4, <2>6 DEF H
  <2>8. x.up # 0
    BY <2>1, <2>7 DEF TreeInv
  <2>9. PICK p \in nodes : p.id = x.up /\ h[p.id] < h[x.id]
    BY <2>3, <2>8 DEF Falls
  <2>10. p.id \in Above(n.id)
    BY <2>7, <2>8, <2>9, AboveIs
  <2>11. h[p.id] \in H
    BY <2>10 DEF H
  <2>12. t <= h[p.id] /\ h[p.id] < t /\ t \in Nat /\ h[p.id] \in Nat
    BY <2>5, <2>6, <2>7, <2>9, <2>11
  <2> QED BY <2>12
<1>3. ASSUME NEW n \in nodes, NEW k \in nodes, k.id \in Above(n.id) PROVE k.map = n.map
  <2>1. PICK x \in nodes : x.id = k.id /\ x.map = n.map
    BY <1>3, AboveIs
  <2> QED BY <2>1 DEF MapsInv, NothingDangles
<1> QED BY <1>1, <1>2, <1>3 DEF TreesHang

LEMMA TreeInitInv == MapsInit => TreeInv
<1> SUFFICES ASSUME MapsInit PROVE TreeInv
  OBVIOUS
<1>1. maps = {} /\ nodes = {}
  BY DEF MapsInit
<1>2. [i \in Nat |-> 0] \in [Nat -> Nat] /\ Falls([i \in Nat |-> 0])
  BY <1>1 DEF Falls
<1> QED BY <1>1, <1>2, FS_EmptySet DEF TreeInv

LEMMA NextMapIsNew ==
  ASSUME MapsInv
  PROVE  \A m \in maps : m.id # NextId(maps)
<1> DEFINE S == {m.id : m \in maps} \cup {0}
<1>1. MaxMap \in Nat
  BY MindMapsAssumption
<1>2. S \subseteq 0 .. MaxMap
  BY <1>1 DEF MapsInv, MapRows, Maps
<1>3. Max(S) \in S /\ \A v \in S : v <= Max(S)
  BY <1>1, <1>2, LargestIsLargest
<1>4. NextId(maps) = Max(S) + 1
  BY DEF NextId
<1>5. \A m \in maps : m.id \in S
  OBVIOUS
<1> HIDE DEF S
<1>6. \A m \in maps : m.id \in Nat /\ m.id <= Max(S) /\ Max(S) \in Nat
  <2>1. \A v \in S : v \in Nat
    BY <1>1, <1>2
  <2> QED BY <2>1, <1>3, <1>5
<1> QED BY <1>4, <1>6

(* Where nothing is moved, what is left keeps its numbers.                 *)
LEMMA PruningKeepsTrees ==
  ASSUME MapsInv, TreeInv, nodes' \subseteq nodes, maps' \subseteq maps,
         \A m \in maps' : \A n \in nodes : n.map = m.id /\ n.up = 0 => n \in nodes',
         \A n, p \in nodes : n \in nodes' /\ p.id = n.up => p \in nodes'
  PROVE  TreeInv'
<1>1. IsFiniteSet(nodes')
  BY FS_Subset DEF TreeInv
<1>2. PICK h \in [Nat -> Nat] : Falls(h)
  BY DEF TreeInv
<1>3. Falls(h)'
  BY <1>2 DEF Falls
<1>4. \A m \in maps' : \E n \in nodes' : n.map = m.id /\ n.up = 0
  BY DEF TreeInv
<1> QED BY <1>1, <1>3, <1>4 DEF TreeInv

(* A node more, under one that is there or the root of a map of its own.   *)
LEMMA GrowingKeepsTrees ==
  ASSUME MapsInv, TreeInv, NEW new, nodes' = nodes \cup {new}, new.id = NextId(nodes), new.map \in Nat,
         NEW row, maps' = maps \cup {row},
         \A m \in maps' : m.id = new.map => m = row,
         \/ /\ new.up = 0 /\ \A m \in maps : m.id # new.map
            /\ row.id = new.map
         \/ row \in maps /\ \E p \in nodes : p.id = new.up /\ p.map = new.map
  PROVE  TreeInv'
<1>1. NextId(nodes) \in Nat /\ \A n \in nodes : n.id < NextId(nodes) /\ n.id \in Nat /\ n.id # 0
  BY NextIsNew DEF MapsInv, NodeFits, TreeInv
<1>2. new.id \in Nat /\ \A n \in nodes : n.id # new.id
  BY <1>1
<1>3. IsFiniteSet(nodes') /\ new.id # 0
  <2>1. IsFiniteSet(nodes')
    BY FS_AddElement DEF TreeInv
  <2>2. NextId(nodes) # 0
    BY NextIsNew
  <2> QED BY <2>1, <2>2
<1>4. PICK h \in [Nat -> Nat] : Falls(h)
  BY DEF TreeInv
<1> DEFINE g == [h EXCEPT ![new.id] = IF new.up = 0 THEN 0 ELSE h[new.up] + 1]
<1>5. g \in [Nat -> Nat] /\ Falls(g)'
  <2>1. new.up # 0 => \E p \in nodes : p.id = new.up /\ p.map = new.map /\ p.id \in Nat
    BY <1>1
  <2>2. new.up # 0 => h[new.up] \in Nat
    BY <2>1
  <2>3. g \in [Nat -> Nat]
    BY <2>2, <1>2
  <2>4. \A n \in nodes : g[n.id] = h[n.id]
    BY <1>1, <1>2
  <2>5. g[new.id] = IF new.up = 0 THEN 0 ELSE h[new.up] + 1
    BY <1>2
  <2> HIDE DEF g
  <2>6. ASSUME NEW n \in nodes', n.up # 0 PROVE \E p \in nodes' : p.id = n.up /\ p.map = n.map /\ g[p.id] < g[n.id]
    <3>1. CASE n \in nodes
      BY <3>1, <2>4, <2>6, <1>4 DEF Falls
    <3>2. CASE n = new
      <4>1. PICK p \in nodes : p.id = new.up /\ p.map = new.map
        BY <2>1, <2>6, <3>2
      <4>2. g[p.id] = h[new.up] /\ g[n.id] = h[new.up] + 1
        BY <4>1, <2>4, <2>5, <2>6, <3>2
      <4> QED BY <4>1, <4>2, <2>2, <2>6, <3>2
    <3> QED BY <3>1, <3>2
  <2> QED BY <2>3, <2>6 DEF Falls
<1>6. \A m, k \in maps' : m.id = k.id => m = k
  BY DEF TreeInv
<1>7. \A m \in maps' : \E n \in nodes' : n.map = m.id /\ n.up = 0
  BY DEF TreeInv
<1>8. \A n \in nodes : \E m \in maps : m.id = n.map
  BY DEF MapsInv, NothingDangles
<1>9. new.up = 0 => \A n \in nodes : n.map # new.map
  BY <1>1, <1>8
<1>10. \A n, k \in nodes' : n.up = 0 /\ k.up = 0 /\ n.map = k.map => n = k
  BY <1>9 DEF TreeInv
<1> HIDE DEF g
<1> QED BY <1>2, <1>3, <1>5, <1>6, <1>7, <1>10 DEF TreeInv

(* A node that goes elsewhere with all that hangs on it: these are raised  *)
(* above the place it goes to, and the place is not among them.            *)
LEMMA MovingKeepsTrees ==
  ASSUME MapsInv, TreeInv, NEW n \in nodes, NEW p \in nodes, n.map = p.map, n.up # 0, n.id \notin Above(p.id),
         UNCHANGED maps, nodes' = (nodes \ {n}) \cup {[n EXCEPT !.up = p.id]}
  PROVE  TreeInv'
<1> DEFINE new == [n EXCEPT !.up = p.id]
<1>1. new.id = n.id /\ new.map = n.map /\ new.up = p.id
  BY DEF MapsInv, NodeFits
<1> HIDE DEF new
<1>2. nodes' = (nodes \ {n}) \cup {new}
  BY DEF new
<1>3. IsFiniteSet(nodes')
  <2>1. IsFiniteSet(nodes \ {n})
    BY FS_RemoveElement DEF TreeInv
  <2> QED BY <2>1, <1>2, FS_AddElement
<1>4. \A x \in nodes : x.id \in Nat /\ x.id # 0 /\ \A k \in nodes : k.id = x.id => k = x
  BY DEF MapsInv, NodeFits, NothingDangles, TreeInv
<1>5. PICK h \in [Nat -> Nat] : Falls(h)
  BY DEF TreeInv
<1> DEFINE Below(i) == n.id \in Above(i)
           raised == [i \in Nat |-> IF Below(i) THEN h[i] + h[p.id] + 1 ELSE h[i]]
<1>6. h[p.id] \in Nat /\ \A x \in nodes : h[x.id] \in Nat
  BY <1>4
<1>7. PICK g \in [Nat -> Nat] : g = raised
  <2>1. raised \in [Nat -> Nat]
    BY <1>6
  <2> HIDE DEF raised
  <2> QED BY <2>1
<1>8. \A x \in nodes : g[x.id] = IF Below(x.id) THEN h[x.id] + h[p.id] + 1 ELSE h[x.id]
  BY <1>4, <1>7
<1>9. Below(n.id) /\ ~Below(p.id)
  BY AboveIs
<1>10. ASSUME NEW x \in nodes, NEW q \in nodes, x.up = q.id, x # n PROVE Below(x.id) <=> Below(q.id)
  <2>1. x.up # 0
    BY <1>4, <1>10
  <2>2. x.id # n.id
    BY <1>4, <1>10
  <2>3. Below(x.id) => Below(q.id)
    BY <2>1, <2>2, <1>10, HangsOnParent
  <2>4. q.id \in Above(x.id)
    BY <2>1, <1>10, AboveIs
  <2>5. Above(q.id) \subseteq Above(x.id)
    BY <2>4, AboveAbove
  <2> QED BY <2>3, <2>5
<1> HIDE DEF Below, raised
<1>11. ASSUME NEW y \in nodes', y.up # 0 PROVE \E q \in nodes' : q.id = y.up /\ q.map = y.map /\ g[q.id] < g[y.id]
  <2>1. \A q \in nodes : \E r \in nodes' : r.id = q.id /\ r.map = q.map
    BY <1>1, <1>2
  <2>2. CASE y = new
    <3>1. g[new.id] = h[n.id] + h[p.id] + 1 /\ g[p.id] = h[p.id]
      BY <1>1, <1>8, <1>9
    <3>2. g[p.id] < g[new.id]
      BY <3>1, <1>6
    <3>3. PICK r \in nodes' : r.id = p.id /\ r.map = p.map
      BY <2>1
    <3> QED BY <3>2, <3>3, <2>2, <1>1
  <2>3. CASE y # new
    <3>1. y \in nodes /\ y # n
      BY <2>3, <1>2
    <3>2. PICK q \in nodes : q.id = y.up /\ q.map = y.map /\ h[q.id] < h[y.id]
      BY <3>1, <1>5, <1>11 DEF Falls
    <3>3. Below(y.id) <=> Below(q.id)
      BY <3>1, <3>2, <1>10
    <3>4. g[q.id] < g[y.id]
      BY <3>1, <3>2, <3>3, <1>6, <1>8
    <3>5. PICK r \in nodes' : r.id = q.id /\ r.map = q.map
      BY <2>1
    <3> QED BY <3>2, <3>4, <3>5
  <2> QED BY <2>2, <2>3
<1>12. Falls(g)'
  BY <1>11 DEF Falls
<1>13. \A m \in maps : \E r \in nodes' : r.map = m.id /\ r.up = 0
  BY <1>2 DEF TreeInv
<1>14. new.up # 0 /\ new.id # 0
  BY <1>1, <1>4
<1>15. \A x, k \in nodes' : x.up = 0 /\ k.up = 0 /\ x.map = k.map => x = k
  BY <1>2, <1>14 DEF TreeInv
<1>16. \A x \in nodes' : x.id # 0
  BY <1>2, <1>4, <1>14
<1> QED BY <1>3, <1>12, <1>13, <1>15, <1>16 DEF TreeInv

LEMMA TreesKeep ==
  ASSUME MapsInv, TreeInv, MapsNext \/ UNCHANGED mapVars
  PROVE  TreeInv'
<1>1. ASSUME UNCHANGED <<maps, nodes>> PROVE TreeInv'
  BY <1>1 DEF TreeInv, Falls
<1>2. ASSUME NEW s \in Writers, NEW shared \in BOOLEAN, NEW flow \in BOOLEAN, NewMap(s, shared, flow) PROVE TreeInv'
  <2> DEFINE new == [id |-> NextId(nodes), map |-> NextId(maps), up |-> 0]
             row == [id |-> NextId(maps), owner |-> s, shared |-> shared, open |-> TRUE, flow |-> flow]
  <2>1. nodes' = nodes \cup {new} /\ maps' = maps \cup {row} /\ NextId(maps) \in Nat
    BY <1>2 DEF NewMap, Maps
  <2>2. new.id = NextId(nodes) /\ new.map = NextId(maps) /\ new.up = 0 /\ row.id = NextId(maps)
    OBVIOUS
  <2> HIDE DEF new, row
  <2> QED BY <2>1, <2>2, NextMapIsNew, GrowingKeepsTrees
<1>3. ASSUME NEW s \in Writers, AddNode(s) PROVE TreeInv'
  <2>1. PICK m \in Target(s), at \in NodesOf(writing[s]) :
          nodes' = nodes \cup {[id |-> NextId(nodes), map |-> m.id, up |-> (IF m.flow THEN RootOf(m.id) ELSE at).id]}
    BY <1>3 DEF AddNode
  <2> DEFINE new == [id |-> NextId(nodes), map |-> m.id, up |-> (IF m.flow THEN RootOf(m.id) ELSE at).id]
  <2>2. m \in maps /\ m.id = writing[s] /\ at \in nodes /\ at.map = m.id /\ maps' = maps /\ nodes' = nodes \cup {new}
    BY <1>3, <2>1 DEF Target, NodesOf, AddNode
  <2>3. RootOf(m.id) \in nodes /\ RootOf(m.id).map = m.id
    <3>1. \E r \in NodesOf(m.id) : r.up = 0
      BY <2>2 DEF TreeInv, NodesOf
    <3> QED BY <3>1 DEF RootOf, NodesOf
  <2>4. new.id = NextId(nodes) /\ new.map = m.id /\ \E p \in nodes : p.id = new.up /\ p.map = new.map
    BY <2>2, <2>3
  <2>5. m.id \in Nat /\ maps' = maps \cup {m}
    BY <2>2 DEF MapsInv, MapRows, Maps
  <2> HIDE DEF new
  <2>6. \A k \in maps' : k.id = new.map => k = m
    BY <2>2, <2>4 DEF TreeInv
  <2> QED BY <2>2, <2>4, <2>5, <2>6, GrowingKeepsTrees
<1>4. ASSUME NEW s \in Writers, MoveNode(s) PROVE TreeInv'
  <2>1. PICK n, p \in NodesOf(writing[s]) :
          n.up # 0 /\ n.id \notin Above(p.id) /\ nodes' = (nodes \ {n}) \cup {[n EXCEPT !.up = p.id]}
    BY <1>4 DEF MoveNode
  <2>2. n \in nodes /\ p \in nodes /\ n.map = p.map /\ UNCHANGED maps
    BY <1>4, <2>1 DEF NodesOf, MoveNode
  <2> QED BY <2>1, <2>2, MovingKeepsTrees
<1>5. ASSUME NEW s \in Writers, RemoveNode(s) PROVE TreeInv'
  <2>1. PICK n \in NodesOf(writing[s]) :
          n.up # 0 /\ DropNodes({k.id : k \in {x \in nodes : n.id \in Above(x.id)}})
    BY <1>5 DEF RemoveNode
  <2>2. n \in nodes /\ maps' = maps
    BY <1>5, <2>1 DEF NodesOf, RemoveNode
  <2>3. nodes' = {x \in nodes : n.id \notin Above(x.id)}
    BY <2>1 DEF DropNodes, MapsInv, NothingDangles
  <2>4. ASSUME NEW r \in nodes, r.up = 0 PROVE r \in nodes'
    <3>1. \A x \in nodes : x.id \in {r.id} /\ x.up # 0 => x.up \in {r.id}
      BY <2>4 DEF MapsInv, NothingDangles
    <3>2. Above(r.id) \subseteq {r.id}
      BY <3>1, AboveIs
    <3>3. n.id # r.id
      BY <2>1, <2>2, <2>4 DEF MapsInv, NothingDangles
    <3> QED BY <2>3, <3>2, <3>3
  <2>5. ASSUME NEW x \in nodes', NEW p \in nodes, p.id = x.up PROVE p \in nodes'
    <3>1. x \in nodes /\ n.id \notin Above(x.id) /\ x.up # 0
      BY <2>3, <2>5 DEF TreeInv
    <3>2. p.id \in Above(x.id)
      BY <3>1, <2>5, AboveIs
    <3>3. Above(p.id) \subseteq Above(x.id)
      BY <3>1, <3>2, AboveAbove
    <3> QED BY <2>3, <3>1, <3>3
  <2>6. nodes' \subseteq nodes
    BY <2>3
  <2> QED BY <2>2, <2>4, <2>5, <2>6, PruningKeepsTrees
<1>6. ASSUME NEW s \in Writers, DeleteMap(s) PROVE TreeInv'
  <2>1. PICK m \in maps : maps' = maps \ {m} /\ DropNodes({n.id : n \in NodesOf(m.id)})
    BY <1>6 DEF DeleteMap
  <2>2. nodes' = {x \in nodes : x.map # m.id}
    BY <2>1 DEF DropNodes, NodesOf, MapsInv, NothingDangles
  <2>3. \A k \in maps' : k \in maps /\ k.id # m.id
    BY <2>1 DEF TreeInv
  <2>4. ASSUME NEW x \in nodes', NEW p \in nodes, p.id = x.up PROVE p \in nodes'
    <3>1. x.up # 0 /\ x \in nodes
      BY <2>2, <2>4 DEF TreeInv
    <3>2. p.map = x.map
      BY <2>4, <3>1 DEF TreeInv, Falls, MapsInv, NothingDangles
    <3> QED BY <2>2, <3>2
  <2>5. \A k \in maps' : \A n \in nodes : n.map = k.id /\ n.up = 0 => n \in nodes'
    BY <2>2, <2>3
  <2> QED BY <2>1, <2>2, <2>4, <2>5, PruningKeepsTrees
<1>7. ASSUME NEW s \in Writers, SetMap(s) PROVE TreeInv'
  <2>1. PICK m \in maps : \/ maps' = (maps \ {m}) \cup {[m EXCEPT !.open = ~m.open]}
                          \/ maps' = (maps \ {m}) \cup {[m EXCEPT !.shared = FALSE]}
                          \/ maps' = (maps \ {m}) \cup {[m EXCEPT !.shared = TRUE]}
    BY <1>7 DEF SetMap
  <2>2. PICK row : maps' = (maps \ {m}) \cup {row} /\ row.id = m.id
    <3>1. m \in MapRows
      BY DEF MapsInv
    <3>2. \A b \in BOOLEAN : [m EXCEPT !.shared = b].id = m.id
      BY <3>1 DEF MapRows
    <3>3. [m EXCEPT !.open = ~m.open].id = m.id
      BY <3>1 DEF MapRows
    <3> QED BY <2>1, <3>2, <3>3, Zenon
  <2>3. /\ \A a, b \in maps' : a.id = b.id => a = b
        /\ \A a \in maps' : \E b \in maps : a.id = b.id
    BY <2>2 DEF TreeInv
  <2>4. UNCHANGED nodes
    BY <1>7 DEF SetMap
  <2>5. \A a \in maps' : \E n \in nodes : n.map = a.id /\ n.up = 0
    BY <2>3 DEF TreeInv
  <2> QED BY <2>3, <2>4, <2>5 DEF TreeInv, Falls
<1>8. ASSUME NEW s \in Writers,
             \/ (\E m \in maps : CheckWrite(s, m)) \/ GiveUpWrite(s) \/ AddChain(s) \/ RemoveChain(s)
             \/ Link(s) \/ Refer(s)
       PROVE  TreeInv'
  BY <1>1, <1>8 DEF CheckWrite, GiveUpWrite, AddChain, RemoveChain, Link, Refer
<1>9. ASSUME \/ UNCHANGED mapVars \/ AddEntry \/ \E e \in entries : DeleteEntry(e)
             \/ \E m \in maps : Export(m.id) \/ \E E \in SUBSET Entries : MergeMap(m.id, E)
             \/ \E x \in packed, E \in SUBSET Entries : Import(x, E)
      PROVE  TreeInv'
  BY <1>1, <1>9 DEF AddEntry, DeleteEntry, Export, MergeMap, Import, mapVars
<1> QED BY <1>2, <1>3, <1>4, <1>5, <1>6, <1>7, <1>8, <1>9 DEF MapsNext

(* A map that was packed: its nodes in tree order, its arrows between      *)
(* them.                                                                   *)
PackFits(x) ==
    LET q == x.nodes IN
    /\ Len(q) \in Nat /\ DOMAIN q = 1 .. Len(q)
    /\ \A i, k \in 1 .. Len(q) : q[i].id = q[k].id => i = k
    /\ \A i \in 1 .. Len(q) : q[i].up = 0 \/ \E k \in 1 .. i - 1 : q[k].id = q[i].up
    /\ \A l \in x.links : \E i, k \in 1 .. Len(q) : q[i].id = l.from /\ q[k].id = l.to

LEMMA OrderedFits ==
  ASSUME MapsInv, TreeInv, NEW m \in maps, NEW q \in Ordered(m.id)
  PROVE  PackFits(Packed(m.id, q))
<1> DEFINE S == NodesOf(m.id)
<1>1. S \subseteq nodes /\ IsFiniteSet(S)
  <2>1. S \in SUBSET nodes
    BY DEF NodesOf
  <2> QED BY <2>1, FS_Subset DEF TreeInv
<1>2. q \in SetToSeqs(S) /\ \A i, j \in DOMAIN q : q[j].id \in Above(q[i].id) => j <= i
  BY DEF Ordered
<1> HIDE DEF S
<1>3. /\ q \in Seq(S) /\ Len(q) \in Nat
      /\ \A i, k \in 1 .. Len(q) : q[i] = q[k] => i = k
      /\ \A x \in S : \E i \in 1 .. Len(q) : q[i] = x
  BY <1>1, <1>2, RankingsAreWhole
<1>4. DOMAIN q = 1 .. Len(q) /\ \A i \in 1 .. Len(q) : q[i] \in S /\ q[i] \in nodes
  BY <1>1, <1>3
<1>5. \A i, k \in 1 .. Len(q) : q[i].id = q[k].id => i = k
  BY <1>3, <1>4 DEF MapsInv, NothingDangles
<1>6. ASSUME NEW i \in 1 .. Len(q), q[i].up # 0 PROVE \E k \in 1 .. i - 1 : q[k].id = q[i].up
  <2>1. PICK h \in [Nat -> Nat] : Falls(h)
    BY DEF TreeInv
  <2>2. PICK p \in nodes : p.id = q[i].up /\ p.map = q[i].map /\ h[p.id] < h[q[i].id]
    BY <1>4, <1>6, <2>1 DEF Falls
  <2>3. p \in S
    BY <1>4, <2>2 DEF S, NodesOf
  <2>4. PICK k \in 1 .. Len(q) : q[k] = p
    BY <1>3, <2>3
  <2>5. p.id \in Above(q[i].id)
    <3>1. q[i].id \in Above(q[i].id)
      BY <1>4, AboveIs
    <3> QED BY <3>1, <1>4, <1>6, <2>2, AboveIs
  <2>6. k <= i
    BY <1>2, <1>4, <2>4, <2>5
  <2>7. k # i
    <3>1. p.id \in Nat /\ q[i].id \in Nat
      BY <1>4 DEF MapsInv, NodeFits
    <3>2. h[p.id] \in Nat /\ h[q[i].id] \in Nat
      BY <3>1
    <3>3. \A a, b \in Nat : a < b => a # b
      OBVIOUS
    <3>4. h[p.id] # h[q[i].id]
      BY <3>2, <3>3, <2>2, Zenon
    <3> QED BY <3>4, <2>4
  <2>8. k \in 1 .. i - 1
    BY <1>3, <2>6, <2>7
  <2> QED BY <2>2, <2>4, <2>8
<1>7. ASSUME NEW l \in links, l.map = m.id PROVE \E i, k \in 1 .. Len(q) : q[i].id = l.from /\ q[k].id = l.to
  <2>1. \A j \in {l.from, l.to} : \E n \in S : n.id = j
    BY <1>7 DEF MapsInv, NothingDangles, S
  <2>2. PICK a \in S, b \in S : a.id = l.from /\ b.id = l.to
    BY <2>1
  <2>3. PICK i \in 1 .. Len(q), k \in 1 .. Len(q) : q[i] = a /\ q[k] = b
    BY <1>3
  <2> QED BY <2>2, <2>3
<1> DEFINE x == Packed(m.id, q)
<1>8. x.nodes = q /\ x.links = {l \in links : l.map = m.id}
  BY DEF Packed
<1> HIDE DEF x
<1>9. PackFits(x)
  BY <1>3, <1>4, <1>5, <1>6, <1>7, <1>8 DEF PackFits
<1> QED BY <1>9 DEF x

First(q, k) == {<<q[i].id, i>> : i \in 1 .. k}

LEMMA FirstCounts ==
  ASSUME NEW q, Len(q) \in Nat, \A i, k \in 1 .. Len(q) : q[i].id = q[k].id => i = k, NEW k \in 0 .. Len(q)
  PROVE  Cardinality(First(q, k)) = k
<1> DEFINE f == [i \in 1 .. k |-> <<q[i].id, i>>]
<1>1. \A i \in 1 .. k : i \in 1 .. Len(q)
  OBVIOUS
<1>2. f \in [1 .. k -> First(q, k)] /\ \A i, j \in 1 .. k : f[i] = f[j] => i = j
  BY <1>1 DEF First
<1>3. \A t \in First(q, k) : \E i \in 1 .. k : f[i] = t
  BY DEF First
<1> HIDE DEF f
<1>4. f \in Bijection(1 .. k, First(q, k))
  BY <1>2, <1>3 DEF Bijection, Injection, IsInjective, Surjection
<1>5. ExistsBijection(1 .. k, First(q, k)) /\ k \in Nat
  BY <1>4 DEF ExistsBijection
<1> QED BY <1>5, FS_CountingElements

(* Every node gets the number of its place.                                *)
LEMMA NumberedInPlace ==
  ASSUME NEW x, PackFits(x)
  PROVE  Numbered(x.nodes) = First(x.nodes, Len(x.nodes))
<1> DEFINE q == x.nodes
           N == Len(q)
           Step(had, k) == IF q[k].up # 0 /\ \A p \in had : p[1] # q[k].up THEN had
                           ELSE had \cup {<<q[k].id, Cardinality(had) + 1>>}
           Is(w) == w = [k \in 0 .. N |-> IF k = 0 THEN {} ELSE Step(w[k - 1], k)]
           w == CHOOSE v : Is(v)
           all == [k \in 0 .. N |-> First(q, k)]
<1>1. N \in Nat /\ \A i, k \in 1 .. N : q[i].id = q[k].id => i = k
  BY DEF PackFits
<1>2. \A i \in 1 .. N : q[i].up = 0 \/ \E k \in 1 .. i - 1 : q[k].id = q[i].up
  BY DEF PackFits
<1>3. Numbered(q) = w[N]
  BY DEF Numbered
<1> HIDE DEF q, N
<1>4. ASSUME NEW k \in 1 .. N PROVE First(q, k) = Step(First(q, k - 1), k)
  <2>1. k - 1 \in 0 .. N /\ 1 .. k = (1 .. k - 1) \cup {k}
    BY <1>1
  <2>2. First(q, k) = First(q, k - 1) \cup {<<q[k].id, k>>}
    BY <2>1 DEF First
  <2>3. Cardinality(First(q, k - 1)) + 1 = k
    BY <1>1, <2>1, FirstCounts DEF N
  <2>4. q[k].up # 0 => \E p \in First(q, k - 1) : p[1] = q[k].up
    <3> SUFFICES ASSUME q[k].up # 0 PROVE \E p \in First(q, k - 1) : p[1] = q[k].up
      OBVIOUS
    <3>1. PICK j \in 1 .. k - 1 : q[j].id = q[k].up
      BY <1>2
    <3>2. <<q[j].id, j>> \in First(q, k - 1) /\ <<q[j].id, j>>[1] = q[j].id
      BY DEF First
    <3> QED BY <3>1, <3>2
  <2> QED BY <2>2, <2>3, <2>4
<1> HIDE DEF Step
<1>5. Is(all)
  <2>1. First(q, 0) = {}
    BY DEF First
  <2>2. ASSUME NEW k \in 0 .. N PROVE First(q, k) = IF k = 0 THEN {} ELSE Step(all[k - 1], k)
    <3>1. CASE k = 0
      BY <3>1, <2>1
    <3>2. CASE k # 0
      <4>1. k \in 1 .. N /\ k - 1 \in 0 .. N
        BY <3>2, <1>1
      <4>2. all[k - 1] = First(q, k - 1)
        BY <4>1
      <4> HIDE DEF all
      <4> QED BY <3>2, <4>1, <4>2, <1>4
    <3> QED BY <3>1, <3>2
  <2> QED BY <2>2
<1>6. Is(w)
  <2> HIDE DEF all
  <2> QED BY <1>5
<1> HIDE DEF w, all
<1>7. w[0] = {} /\ \A k \in 1 .. N : w[k] = Step(w[k - 1], k)
  <2>1. \A k \in 0 .. N : w[k] = IF k = 0 THEN {} ELSE Step(w[k - 1], k)
    BY <1>6
  <2>2. 0 \in 0 .. N /\ \A k \in 1 .. N : k \in 0 .. N /\ k # 0
    BY <1>1
  <2> QED BY <2>1, <2>2
<1> DEFINE Alike == {k \in Nat : k <= N => w[k] = First(q, k)}
<1>8. 0 \in Alike
  BY <1>7 DEF First
<1>9. ASSUME NEW k \in Alike PROVE k + 1 \in Alike
  <2> SUFFICES ASSUME k + 1 <= N PROVE w[k + 1] = First(q, k + 1)
    OBVIOUS
  <2>1. k \in Nat /\ k <= N /\ k + 1 \in 1 .. N /\ (k + 1) - 1 = k
    BY <1>1
  <2>2. w[k] = First(q, k)
    BY <2>1
  <2>3. w[k + 1] = Step(w[k], k + 1) /\ First(q, k + 1) = Step(First(q, k), k + 1)
    BY <2>1, <1>4, <1>7
  <2> QED BY <2>2, <2>3
<1> HIDE DEF Alike
<1>10. Alike = Nat
  BY <1>8, <1>9, CountingUp DEF Alike
<1>11. w[N] = First(q, N)
  BY <1>1, <1>10 DEF Alike
<1> QED BY <1>3, <1>11 DEF q, N

(* The copy has them all, each under the copy of the one it hung under.    *)
Comes(x, y) ==
    LET p == ToSet(x.nodes) IN
    /\ \E f \in [{n.id : n \in p} -> {n.id : n \in y.nodes}] :
          /\ \A n, k \in p : f[n.id] = f[k.id] => n = k
          /\ \A n \in p : [id |-> f[n.id], up |-> IF n.up = 0 THEN 0 ELSE f[n.up]] \in y.nodes
          /\ \A l \in x.links : <<f[l.from], f[l.to]>> \in y.links
    /\ Cardinality(p) = Cardinality(y.nodes)

LEMMA CopyComes ==
  ASSUME NEW x, NEW E, NEW least, PackFits(x)
  PROVE  Comes(x, Copied(x, E, least))
<1> DEFINE q == x.nodes
           N == Len(q)
           ids == Numbered(q)
           known == {p[1] : p \in ids}
           new(i) == (CHOOSE p \in ids : p[1] = i)[2]
           copy(k) == [id |-> new(k.id), up |-> IF k.up = 0 THEN 0 ELSE new(k.up)]
           y == Copied(x, E, least)
           p == ToSet(q)
<1>1. /\ N \in Nat /\ DOMAIN q = 1 .. N /\ \A i, k \in 1 .. N : q[i].id = q[k].id => i = k
      /\ \A i \in 1 .. N : q[i].up = 0 \/ \E k \in 1 .. N : q[k].id = q[i].up
      /\ \A l \in x.links : \E i, k \in 1 .. N : q[i].id = l.from /\ q[k].id = l.to
  BY DEF PackFits
<1>2. ids = First(q, N)
  BY NumberedInPlace
<1>3. /\ y.nodes = {copy(k) : k \in {n \in p : n.id \in known}}
      /\ y.links = {<<new(l.from), new(l.to)>> : l \in {k \in x.links : {k.from, k.to} \subseteq known}}
  BY DEF Copied
<1>4. p = {q[i] : i \in 1 .. N}
  BY <1>1 DEF ToSet
<1> HIDE DEF q, N, ids, p, y
<1>5. known = {q[i].id : i \in 1 .. N}
  <2>1. \A t \in ids : \E i \in 1 .. N : t[1] = q[i].id
    BY <1>2 DEF First
  <2>2. \A i \in 1 .. N : \E t \in ids : t[1] = q[i].id
    <3> SUFFICES ASSUME NEW i \in 1 .. N PROVE \E t \in ids : t[1] = q[i].id
      OBVIOUS
    <3>1. <<q[i].id, i>> \in ids /\ <<q[i].id, i>>[1] = q[i].id
      BY <1>2 DEF First
    <3> QED BY <3>1
  <2> QED BY <2>1, <2>2
<1>6. \A i \in 1 .. N : new(q[i].id) = i
  <2> SUFFICES ASSUME NEW i \in 1 .. N PROVE new(q[i].id) = i
    OBVIOUS
  <2> DEFINE t == CHOOSE u \in ids : u[1] = q[i].id
  <2>1. <<q[i].id, i>> \in ids /\ <<q[i].id, i>>[1] = q[i].id
    BY <1>2 DEF First
  <2>2. t \in ids /\ t[1] = q[i].id
    BY <2>1
  <2> HIDE DEF t
  <2>3. PICK j \in 1 .. N : t = <<q[j].id, j>>
    BY <1>2, <2>2 DEF First
  <2>4. j = i /\ t[2] = j
    BY <1>1, <2>2, <2>3
  <2> QED BY <2>4 DEF t
<1> HIDE DEF known, new
<1>7. y.nodes = {copy(q[i]) : i \in 1 .. N}
  BY <1>3, <1>4, <1>5
<1>8. y.links = {<<new(l.from), new(l.to)>> : l \in x.links}
  BY <1>1, <1>3, <1>5
<1>9. {n.id : n \in p} = {q[i].id : i \in 1 .. N} /\ {n.id : n \in y.nodes} = 1 .. N
  <2>1. {n.id : n \in p} = {q[i].id : i \in 1 .. N}
    BY <1>4
  <2>2. \A i \in 1 .. N : copy(q[i]).id = i
    BY <1>6
  <2> HIDE DEF copy
  <2>3. \A n \in y.nodes : \E i \in 1 .. N : n.id = i
    BY <1>7, <2>2
  <2>4. \A i \in 1 .. N : \E n \in y.nodes : n.id = i
    BY <1>7, <2>2
  <2>5. {n.id : n \in y.nodes} = 1 .. N
    BY <2>3, <2>4
  <2> QED BY <2>1, <2>5
<1> DEFINE f == [j \in {q[i].id : i \in 1 .. N} |-> new(j)]
<1>10. f \in [{q[i].id : i \in 1 .. N} -> 1 .. N] /\ \A i \in 1 .. N : f[q[i].id] = i
  BY <1>6
<1>11. \A i \in 1 .. N : copy(q[i]) = [id |-> f[q[i].id], up |-> IF q[i].up = 0 THEN 0 ELSE f[q[i].up]]
  <2> SUFFICES ASSUME NEW i \in 1 .. N
               PROVE  new(q[i].id) = f[q[i].id] /\ (q[i].up # 0 => new(q[i].up) = f[q[i].up])
    BY DEF copy
  <2>1. q[i].up # 0 => q[i].up \in {q[k].id : k \in 1 .. N}
    BY <1>1
  <2> QED BY <2>1
<1>12. \A l \in x.links : new(l.from) = f[l.from] /\ new(l.to) = f[l.to]
  BY <1>1
<1> HIDE DEF f, copy
<1>13. \A n, k \in p : f[n.id] = f[k.id] => n = k
  BY <1>4, <1>10
<1>14. \A n \in p : [id |-> f[n.id], up |-> IF n.up = 0 THEN 0 ELSE f[n.up]] \in y.nodes
  <2> SUFFICES ASSUME NEW i \in 1 .. N
               PROVE  [id |-> f[q[i].id], up |-> IF q[i].up = 0 THEN 0 ELSE f[q[i].up]] \in y.nodes
    BY <1>4
  <2> QED BY <1>7, <1>11
<1>15. \A l \in x.links : <<f[l.from], f[l.to]>> \in y.links
  BY <1>8, <1>12
<1>16. Cardinality(p) = N
  <2> DEFINE g == [i \in 1 .. N |-> q[i]]
  <2>1. g \in [1 .. N -> p] /\ (\A i, k \in 1 .. N : g[i] = g[k] => i = k) /\ \A n \in p : \E i \in 1 .. N : g[i] = n
    BY <1>1, <1>4
  <2> HIDE DEF g
  <2>2. g \in Bijection(1 .. N, p)
    BY <2>1 DEF Bijection, Injection, IsInjective, Surjection
  <2>3. ExistsBijection(1 .. N, p)
    BY <2>2 DEF ExistsBijection
  <2> QED BY <1>1, <2>3, FS_CountingElements
<1>17. Cardinality(y.nodes) = N
  <2> DEFINE S == y.nodes
             g == [i \in 1 .. N |-> copy(q[i])]
  <2>1. \A i \in 1 .. N : copy(q[i]).id = i
    BY <1>6 DEF copy
  <2>2. g \in [1 .. N -> S] /\ (\A i, k \in 1 .. N : g[i] = g[k] => i = k) /\ \A n \in S : \E i \in 1 .. N : g[i] = n
    BY <1>7, <2>1
  <2> HIDE DEF g, S
  <2>3. g \in Bijection(1 .. N, S)
    BY <2>2 DEF Bijection, Injection, IsInjective, Surjection
  <2>4. ExistsBijection(1 .. N, S)
    BY <2>3 DEF ExistsBijection
  <2>5. Cardinality(S) = N
    BY <1>1, <2>4, FS_CountingElements
  <2> QED BY <2>5 DEF S
<1>18. f \in [{n.id : n \in p} -> {n.id : n \in y.nodes}]
  BY <1>9, <1>10
<1>19. \E g \in [{n.id : n \in p} -> {n.id : n \in y.nodes}] :
          /\ \A n, k \in p : g[n.id] = g[k.id] => n = k
          /\ \A n \in p : [id |-> g[n.id], up |-> IF n.up = 0 THEN 0 ELSE g[n.up]] \in y.nodes
          /\ \A l \in x.links : <<g[l.from], g[l.to]>> \in y.links
  BY <1>13, <1>14, <1>15, <1>18
<1> QED BY <1>16, <1>17, <1>19 DEF Comes, p, q, y

ArriveInv ==
    /\ \A x \in packed : PackFits(x) /\ \A z \in packed : z = x
    /\ packed = {} => arrived = {}
    /\ \A x \in packed, y \in arrived : Comes(x, y)

LEMMA ArriveKeeps ==
  ASSUME MapsInv, TreeInv, ArriveInv, MapsNext \/ UNCHANGED mapVars
  PROVE  ArriveInv'
<1>1. CASE UNCHANGED copies
  BY <1>1 DEF ArriveInv, copies
<1>2. ASSUME NEW m \in maps, Export(m.id) PROVE ArriveInv'
  <2>1. PICK q \in Ordered(m.id) : packed' = {Packed(m.id, q)}
    BY <1>2 DEF Export
  <2>2. arrived' = {}
    BY <1>2 DEF Export, ArriveInv
  <2> QED BY <2>1, <2>2, OrderedFits DEF ArriveInv
<1>3. ASSUME NEW m \in maps, NEW E \in SUBSET Entries, MergeMap(m.id, E) PROVE ArriveInv'
  <2>1. PICK q \in Ordered(m.id) : packed' = {Packed(m.id, q)} /\ arrived' = {Copied(Packed(m.id, q), E, 0)}
    BY <1>3 DEF MergeMap
  <2>2. PackFits(Packed(m.id, q))
    BY OrderedFits
  <2>3. Comes(Packed(m.id, q), Copied(Packed(m.id, q), E, 0))
    BY <2>2, CopyComes
  <2> QED BY <2>1, <2>2, <2>3 DEF ArriveInv
<1>4. ASSUME NEW x \in packed, NEW E \in SUBSET Entries, Import(x, E) PROVE ArriveInv'
  <2>1. packed' = packed /\ arrived' = {Copied(x, E, 2)}
    BY <1>4 DEF Import
  <2>2. PackFits(x) /\ \A z \in packed : z = x
    BY DEF ArriveInv
  <2>3. Comes(x, Copied(x, E, 2))
    BY <2>2, CopyComes
  <2> QED BY <2>1, <2>2, <2>3 DEF ArriveInv
<1> QED BY <1>1, <1>2, <1>3, <1>4 DEF MapsNext, NewMap, CheckWrite, GiveUpWrite, AddNode, MoveNode, RemoveNode, Link,
        Refer, AddChain, RemoveChain, SetMap, DeleteMap, AddEntry, DeleteEntry, mapVars

LEMMA MapsArrive == ArriveInv => ArrivesWhole
BY DEF ArriveInv, ArrivesWhole, Comes

-----------------------------------------------------------------------------
(* The types of the maps.                                                  *)

(* What is left of a sequence is one of the same things.                   *)
LEMMA WithoutTyped ==
  ASSUME NEW T, NEW s \in Seq(T), NEW e
  PROVE  Without(s, e) \in Seq(T)
<1> DEFINE N == Len(s)
           Step(had, k) == IF s[k] = e THEN had ELSE Append(had, s[k])
           Is(w) == w = [k \in 0 .. N |-> IF k = 0 THEN <<>> ELSE Step(w[k - 1], k)]
           w == CHOOSE v : Is(v)
           V == Seq(T)
           G == [t \in (1 .. N) \X V |-> Step(t[2], t[1])]
<1>1. N \in Nat /\ <<>> \in V /\ \A k \in 1 .. N : s[k] \in T
  OBVIOUS
<1>2. Without(s, e) = w[N]
  BY DEF Without
<1> HIDE DEF N
<1>3. \A had \in V, k \in 1 .. N : Step(had, k) \in V
  BY <1>1
<1> HIDE DEF Step, V
<1>4. G \in [(1 .. N) \X V -> V] /\ \A k \in 1 .. N, had \in V : G[<<k, had>>] = Step(had, k)
  BY <1>3
<1> HIDE DEF G
<1>5. PICK v \in [0 .. N -> V] : Iterated(v, <<>>, N, G)
  BY <1>1, <1>4, PathExists
<1>6. Is(v)
  <2>1. ASSUME NEW k \in 0 .. N, k # 0 PROVE v[k] = Step(v[k - 1], k)
    <3>1. k \in 1 .. N /\ k - 1 \in 0 .. N
      BY <1>1, <2>1
    <3> QED BY <3>1, <1>4, <1>5 DEF Iterated
  <2>2. v[0] = <<>>
    BY <1>5 DEF Iterated
  <2>3. \A k \in 0 .. N : v[k] = IF k = 0 THEN <<>> ELSE Step(v[k - 1], k)
    BY <2>1, <2>2
  <2> QED BY <2>3
<1>7. Is(w)
  BY <1>6
<1> HIDE DEF w
<1>8. w[0] = <<>> /\ \A k \in 1 .. N : w[k] = Step(w[k - 1], k)
  <2>1. \A k \in 0 .. N : w[k] = IF k = 0 THEN <<>> ELSE Step(w[k - 1], k)
    BY <1>7
  <2>2. 0 \in 0 .. N /\ \A k \in 1 .. N : k \in 0 .. N /\ k # 0
    BY <1>1
  <2> QED BY <2>1, <2>2
<1> DEFINE Sound == {k \in Nat : k <= N => w[k] \in V}
<1>9. 0 \in Sound
  BY <1>1, <1>8
<1>10. ASSUME NEW k \in Sound PROVE k + 1 \in Sound
  <2> SUFFICES ASSUME k + 1 <= N PROVE w[k + 1] \in V
    OBVIOUS
  <2>1. k \in Nat /\ k <= N /\ k + 1 \in 1 .. N /\ (k + 1) - 1 = k
    BY <1>1
  <2>2. w[k] \in V
    BY <2>1
  <2>3. w[k + 1] = Step(w[k], k + 1)
    BY <2>1, <1>8
  <2> QED BY <2>1, <2>2, <2>3, <1>3
<1>11. Sound = Nat
  <2>1. Sound \in SUBSET Nat
    OBVIOUS
  <2> HIDE DEF Sound
  <2> QED BY <1>9, <1>10, <2>1, CountingUp
<1>12. w[N] \in V
  BY <1>1, <1>11
<1> QED BY <1>2, <1>12 DEF V

ChainRows == [map : Maps, signature : Seq(Entries), steps : Seq(Entries)]

(* What hangs on the nodes has its type.                                   *)
HungTypes ==
    /\ links \subseteq [map : Maps, from : Nodes, to : Nodes]
    /\ refs \subseteq Nodes \X Entries /\ entries \subseteq Entries
    /\ chains \subseteq ChainRows

OpenTypes == writing \in [Writers -> Maps \cup {0}] /\ edits \in 0 .. MaxEdits

(* In maps that are trees every node hangs on a number or is a root.       *)
LEMMA NodesTyped ==
  ASSUME MapsInv, TreeInv
  PROVE  /\ nodes \subseteq [id : Nodes, map : Maps, up : Nodes \cup {0}]
         /\ \A n \in nodes : n.id \in Nodes /\ n.map \in Maps
<1> SUFFICES ASSUME NEW n \in nodes PROVE n = [id |-> n.id, map |-> n.map, up |-> n.up] /\ n.id \in Nodes /\ n.map \in Maps /\ n.up \in Nodes \cup {0}
  OBVIOUS
<1>1. \A k \in nodes : k.id \in Nodes
  BY DEF MapsInv, NodeFits, TreeInv, Nodes
<1>2. n.up # 0 => \E p \in nodes : p.id = n.up
  BY DEF TreeInv, Falls
<1>3. PICK m \in maps : m.id = n.map
  BY DEF MapsInv, NothingDangles
<1>4. n.map \in Maps
  BY <1>3 DEF MapsInv, MapRows
<1> QED BY <1>1, <1>2, <1>4 DEF MapsInv, NodeFits

(* Arrows, references and chains are of the maps, nodes and entries there  *)
(* may be.                                                                 *)
LEMMA HungStaysTyped ==
  ASSUME MapsInv, TreeInv, HungTypes, OpenTypes, MapsNext \/ UNCHANGED mapVars
  PROVE  HungTypes'
<1>1. \A n \in nodes : n.id \in Nodes /\ n.map \in Maps
  BY NodesTyped
<1>2. \A m \in maps : m.id \in Maps
  BY DEF MapsInv, MapRows
<1>3. ASSUME links' \subseteq links, refs' \subseteq refs, entries' = entries, chains' \subseteq chains PROVE HungTypes'
  BY <1>3 DEF HungTypes
<1>4. ASSUME NEW gone, DropNodes(gone) PROVE links' \subseteq links /\ refs' \subseteq refs
  BY <1>4 DEF DropNodes
<1>5. ASSUME NEW s \in Writers, AddNode(s) PROVE HungTypes'
  <2>1. PICK m \in Target(s), at \in NodesOf(writing[s]), E \in SUBSET entries :
          LET id == NextId(nodes)
          IN  /\ links' = IF m.flow THEN links \cup {[map |-> m.id, from |-> at.id, to |-> id]} ELSE links
              /\ refs' = refs \cup ({id} \X E)
    BY <1>5 DEF AddNode
  <2>2. NextId(nodes) \in Nodes
    BY NextIsNew DEF Nodes
  <2>3. m.id \in Maps /\ at.id \in Nodes
    BY <1>1, <1>2 DEF Target, NodesOf
  <2>4. links' \subseteq [map : Maps, from : Nodes, to : Nodes]
    BY <2>1, <2>2, <2>3 DEF HungTypes
  <2>5. refs' \subseteq Nodes \X Entries
    BY <2>1, <2>2 DEF HungTypes
  <2>6. UNCHANGED <<entries, chains>>
    BY <1>5 DEF AddNode
  <2> QED BY <2>4, <2>5, <2>6 DEF HungTypes
<1>6. ASSUME NEW s \in Writers, Link(s) PROVE HungTypes'
  <2>1. PICK a \in NodesOf(writing[s]), b \in NodesOf(writing[s]) :
          LET l == [map |-> writing[s], from |-> a.id, to |-> b.id]
          IN  links' = IF l \in links THEN links \ {l} ELSE links \cup {l}
    BY <1>6 DEF Link
  <2>2. a.id \in Nodes /\ b.id \in Nodes /\ writing[s] \in Maps
    BY <1>1 DEF NodesOf
  <2>3. links' \subseteq [map : Maps, from : Nodes, to : Nodes]
    BY <2>1, <2>2 DEF HungTypes
  <2> QED BY <1>6, <2>3 DEF Link, HungTypes
<1>7. ASSUME NEW s \in Writers, Refer(s) PROVE HungTypes'
  <2>1. PICK n \in NodesOf(writing[s]), e \in entries :
          refs' = IF <<n.id, e>> \in refs THEN refs \ {<<n.id, e>>} ELSE refs \cup {<<n.id, e>>}
    BY <1>7 DEF Refer
  <2>2. n.id \in Nodes /\ e \in Entries
    BY <1>1 DEF NodesOf, HungTypes
  <2>3. refs' \subseteq Nodes \X Entries
    BY <2>1, <2>2 DEF HungTypes
  <2> QED BY <1>7, <2>3 DEF Refer, HungTypes
<1>8. ASSUME NEW s \in Writers, AddChain(s) PROVE HungTypes'
  <2>1. PICK E \in SUBSET entries : \E q \in SetToSeqs(E) :
          chains' = chains \cup {[map |-> writing[s], signature |-> q, steps |-> q]}
    BY <1>8 DEF AddChain
  <2>2. PICK q \in SetToSeqs(E) : chains' = chains \cup {[map |-> writing[s], signature |-> q, steps |-> q]}
    BY <2>1
  <2>3. E \in SUBSET Entries
    BY DEF HungTypes
  <2>4. IsFiniteSet(E)
    <3>1. 1 \in Int /\ MaxEntry \in Int
      BY MindMapsAssumption
    <3>2. IsFiniteSet(Entries)
      BY <3>1, FS_Interval DEF Entries
    <3> QED BY <2>3, <3>2, FS_Subset
  <2>5. q \in Seq(E)
    BY <2>4, RankingsAreWhole
  <2>6. q \in Seq(Entries)
    BY <2>3, <2>5
  <2>7. PICK m \in maps : m.id = writing[s]
    BY <1>8 DEF AddChain, Changes, Target
  <2>8. [map |-> writing[s], signature |-> q, steps |-> q] \in ChainRows
    BY <1>2, <2>6, <2>7 DEF ChainRows
  <2> QED BY <1>8, <2>2, <2>8 DEF AddChain, HungTypes
<1>9. CASE AddEntry
  <2>1. entries' \subseteq Entries /\ UNCHANGED <<links, refs, chains>>
    BY <1>9 DEF AddEntry, HungTypes
  <2> QED BY <2>1 DEF HungTypes
<1>10. ASSUME NEW e \in entries, DeleteEntry(e) PROVE HungTypes'
  <2>1. /\ entries' \subseteq entries /\ refs' \subseteq refs /\ links' = links
        /\ chains' = {[c EXCEPT !.steps = Without(c.steps, e)] : c \in chains}
    BY <1>10 DEF DeleteEntry
  <2>2. ASSUME NEW c \in chains PROVE [c EXCEPT !.steps = Without(c.steps, e)] \in ChainRows
    <3>1. c \in ChainRows
      BY DEF HungTypes
    <3>2. c = [map |-> c.map, signature |-> c.signature, steps |-> c.steps] /\ c.map \in Maps
          /\ c.signature \in Seq(Entries) /\ c.steps \in Seq(Entries)
      BY <3>1 DEF ChainRows
    <3>3. PICK left : left = Without(c.steps, e)
      OBVIOUS
    <3>4. left \in Seq(Entries)
      BY <3>2, <3>3, WithoutTyped
    <3>5. [c EXCEPT !.steps = left] = [map |-> c.map, signature |-> c.signature, steps |-> left]
      BY <3>2
    <3> QED BY <3>2, <3>3, <3>4, <3>5 DEF ChainRows
  <2>3. chains' \subseteq ChainRows
    BY <2>1, <2>2
  <2> QED BY <2>1, <2>3 DEF HungTypes
<1>11. ASSUME NEW s \in Writers, RemoveNode(s) \/ RemoveChain(s) \/ DeleteMap(s) PROVE HungTypes'
  <2>1. CASE RemoveNode(s)
    BY <1>3, <1>4, <2>1 DEF RemoveNode
  <2>2. CASE RemoveChain(s)
    BY <1>3, <2>2 DEF RemoveChain
  <2>3. CASE DeleteMap(s)
    <3>1. PICK m \in maps : DropNodes({n.id : n \in NodesOf(m.id)}) /\ chains' = {c \in chains : c.map # m.id}
      BY <2>3 DEF DeleteMap
    <3>2. chains' \subseteq chains /\ links' \subseteq links /\ refs' \subseteq refs
      BY <1>4, <3>1
    <3> QED BY <1>3, <2>3, <3>2 DEF DeleteMap
  <2> QED BY <1>11, <2>1, <2>2, <2>3
<1>12. CASE UNCHANGED <<links, refs, entries, chains>>
  BY <1>12 DEF HungTypes
<1>13. ASSUME NEW s \in Writers,
              \/ \E shared, flow \in BOOLEAN : NewMap(s, shared, flow)
              \/ \E m \in maps : CheckWrite(s, m)
              \/ GiveUpWrite(s) \/ MoveNode(s) \/ SetMap(s)
       PROVE  UNCHANGED <<links, refs, entries, chains>>
  BY <1>13 DEF NewMap, CheckWrite, GiveUpWrite, MoveNode, SetMap
<1>14. ASSUME \/ UNCHANGED mapVars
              \/ \E m \in maps : Export(m.id) \/ \E E \in SUBSET Entries : MergeMap(m.id, E)
              \/ \E x \in packed, E \in SUBSET Entries : Import(x, E)
       PROVE  UNCHANGED <<links, refs, entries, chains>>
  BY <1>14 DEF Export, MergeMap, Import, mapVars
<1> QED BY <1>5, <1>6, <1>7, <1>8, <1>9, <1>10, <1>11, <1>12, <1>13, <1>14 DEF MapsNext

(* A session writes to one map at a time.                                  *)
LEMMA OpenStaysTyped ==
  ASSUME MapsInv, OpenTypes, MapsNext \/ UNCHANGED mapVars
  PROVE  OpenTypes'
<1>1. \A m \in maps : m.id \in Maps
  BY DEF MapsInv, MapRows
<1>2. MaxEdits \in Nat
  BY MindMapsAssumption
<1>3. ASSUME NEW s \in Writers, \E m \in maps : CheckWrite(s, m) PROVE OpenTypes'
  BY <1>1, <1>3 DEF CheckWrite, OpenTypes
<1>4. ASSUME NEW s \in Writers, GiveUpWrite(s) PROVE OpenTypes'
  BY <1>4 DEF GiveUpWrite, OpenTypes
<1>5. ASSUME NEW s \in Writers, Edited, writing' = [writing EXCEPT ![s] = 0] PROVE OpenTypes'
  <2>1. edits' \in 0 .. MaxEdits
    BY <1>2, <1>5 DEF Edited, OpenTypes
  <2>2. writing' \in [Writers -> Maps \cup {0}]
    BY <1>5 DEF OpenTypes
  <2> QED BY <2>1, <2>2 DEF OpenTypes
<1>6. ASSUME NEW s \in Writers,
             \/ AddNode(s) \/ MoveNode(s) \/ RemoveNode(s) \/ Link(s) \/ Refer(s) \/ AddChain(s)
             \/ RemoveChain(s) \/ SetMap(s) \/ DeleteMap(s)
      PROVE  OpenTypes'
  <2>1. Edited /\ writing' = [writing EXCEPT ![s] = 0]
    BY <1>6 DEF AddNode, MoveNode, RemoveNode, Link, Refer, AddChain, RemoveChain, SetMap, DeleteMap, Changes
  <2> QED BY <1>5, <2>1
<1>7. ASSUME Edited, writing' = writing PROVE OpenTypes'
  BY <1>2, <1>7 DEF Edited, OpenTypes
<1>8. ASSUME NEW s \in Writers, \E shared, flow \in BOOLEAN : NewMap(s, shared, flow) PROVE OpenTypes'
  BY <1>7, <1>8 DEF NewMap
<1>9. CASE AddEntry \/ \E e \in entries : DeleteEntry(e)
  BY <1>7, <1>9 DEF AddEntry, DeleteEntry
<1>10. ASSUME \/ UNCHANGED mapVars
              \/ \E m \in maps : Export(m.id) \/ \E E \in SUBSET Entries : MergeMap(m.id, E)
              \/ \E x \in packed, E \in SUBSET Entries : Import(x, E)
       PROVE  OpenTypes'
  <2>1. UNCHANGED <<writing, edits>>
    BY <1>10 DEF Export, MergeMap, Import, mapVars
  <2> QED BY <2>1 DEF OpenTypes
<1> QED BY <1>3, <1>4, <1>6, <1>8, <1>9, <1>10 DEF MapsNext

(* One is packed, and one has arrived of it.                               *)
OneArrives == \A y, z \in arrived : y = z

(* There is one copy at most.                                              *)
LEMMA OneArriveStays ==
  ASSUME ArriveInv, OneArrives, MapsNext \/ UNCHANGED mapVars
  PROVE  OneArrives'
<1>1. CASE UNCHANGED arrived
  BY <1>1 DEF OneArrives
<1>2. ASSUME NEW m \in maps, NEW E \in SUBSET Entries, MergeMap(m.id, E) PROVE OneArrives'
  <2>1. PICK q \in Ordered(m.id) : arrived' = {Copied(Packed(m.id, q), E, 0)}
    BY <1>2 DEF MergeMap
  <2> QED BY <2>1 DEF OneArrives
<1>3. ASSUME NEW x \in packed, NEW E \in SUBSET Entries, Import(x, E) PROVE OneArrives'
  BY <1>3 DEF Import, OneArrives
<1> QED BY <1>1, <1>2, <1>3 DEF MapsNext, NewMap, CheckWrite, GiveUpWrite, AddNode, MoveNode, RemoveNode, Link,
        Refer, AddChain, RemoveChain, SetMap, DeleteMap, AddEntry, DeleteEntry, Export, mapVars, copies

(* Of a set whose members are all one there is one at most.                *)
LEMMA FewHere ==
  ASSUME NEW S, \A x, y \in S : x = y
  PROVE  Cardinality(S) = IF S = {} THEN 0 ELSE 1
<1>1. CASE S = {}
  BY <1>1, FS_EmptySet
<1>2. CASE S # {}
  <2>1. PICK x : S = {x}
    BY <1>2
  <2> QED BY <1>2, <2>1, FS_Singleton
<1> QED BY <1>1, <1>2

(* With the invariants of the maps these are their types.                  *)
LEMMA MapsTyped ==
  /\ MapsInit => HungTypes /\ OpenTypes /\ OneArrives
  /\ MapsInv /\ TreeInv /\ ArriveInv /\ HungTypes /\ OpenTypes /\ OneArrives => MapsTypeOK
<1>1. ASSUME MapsInit PROVE HungTypes /\ OpenTypes /\ OneArrives
  <2>1. HungTypes /\ OneArrives
    BY <1>1 DEF MapsInit, HungTypes, OneArrives
  <2>2. writing \in [Writers -> Maps \cup {0}]
    BY <1>1 DEF MapsInit
  <2>3. edits \in 0 .. MaxEdits
    BY <1>1, MindMapsAssumption DEF MapsInit
  <2> QED BY <2>1, <2>2, <2>3 DEF OpenTypes
<1>2. ASSUME MapsInv, TreeInv, ArriveInv, HungTypes, OpenTypes, OneArrives PROVE MapsTypeOK
  <2>1. Cardinality(packed) = IF packed = {} THEN 0 ELSE 1
    <3>1. \A x, y \in packed : x = y
      BY <1>2 DEF ArriveInv
    <3> QED BY <3>1, FewHere
  <2>2. Cardinality(arrived) = IF arrived = {} THEN 0 ELSE 1
    BY <1>2, FewHere DEF OneArrives
  <2>3. Cardinality(packed) <= 1 /\ Cardinality(arrived) <= Cardinality(packed)
    BY <1>2, <2>1, <2>2 DEF ArriveInv
  <2>4. nodes \subseteq [id : Nodes, map : Maps, up : Nodes \cup {0}]
    BY <1>2, NodesTyped
  <2>5. \A c \in chains : c.map \in Maps /\ {c.signature, c.steps} \subseteq Seq(Entries)
    BY <1>2 DEF HungTypes, ChainRows
  <2>6. maps \subseteq MapRows
    BY <1>2 DEF MapsInv
  <2> QED BY <1>2, <2>3, <2>4, <2>5, <2>6 DEF HungTypes, OpenTypes, MapRows, MapsTypeOK
<1> QED BY <1>1, <1>2

=============================================================================
