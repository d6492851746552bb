---------------------------- MODULE FoldTheorems ----------------------------
(***************************************************************************)
(* What a fold over a sequence computes, for any step.  The induction and  *)
(* recursion theorems of the library have an operator as a parameter, that *)
(* nothing can be put in place of; here the step is a CONSTANT, and INSTANCE *)
(* ... WITH Op <- ... puts the operator of a model in its place.  Nothing  *)
(* in here is about the program.                                           *)
(***************************************************************************)
EXTENDS Integers, Sequences, FiniteSets, SequenceTheorems, FiniteSetTheorems,
        WellFoundedInduction, TLAPS

CONSTANT Op(_, _)

Top(t) == CHOOSE x \in t : \A y \in t : x >= y

\* FoldLeft of SequencesExt, spelled out.
Fold(b, s) ==
  LET iter[t \in SUBSET DOMAIN s] ==
        IF t = {} THEN b ELSE LET x == Top(t) IN Op(iter[t \ {x}], s[x])
  IN  iter[DOMAIN s]

LEMMA NatSet ==
  ASSUME NEW T, 0 \in T, \A n \in Nat : n \in T => n + 1 \in T
  PROVE  \A n \in Nat : n \in T
<1> SUFFICES ASSUME Nat \ T # {} PROVE FALSE
  OBVIOUS
<1> DEFINE Less == OpToRel(<, Nat)
<1>1. \A m, n \in Nat : m < n => <<m, n>> \in Less
  BY DEF OpToRel
<1>2. IsWellFoundedOn(Less, Nat)
  BY NatLessThanWellFounded
<1> HIDE DEF Less
<1>3. PICK x \in Nat \ T : \A y \in Nat \ T : ~(<<y, x>> \in Less)
  BY <1>2, WFMin
<1>4. x # 0 /\ x - 1 \in Nat /\ x - 1 < x
  BY <1>3
<1>5. x - 1 \in T
  BY <1>1, <1>3, <1>4
<1>6. (x - 1) + 1 \in T
  BY <1>4, <1>5
<1> QED BY <1>3, <1>6

LEMMA TopIsLast ==
  ASSUME NEW k \in Nat \ {0}, NEW t \in SUBSET (1 .. k), k \in t
  PROVE  Top(t) = k
<1>1. k \in t /\ \A y \in t : k >= y
  OBVIOUS
<1>2. \A x \in t : (\A y \in t : x >= y) => x = k
  OBVIOUS
<1> QED BY <1>1, <1>2, Zenon DEF Top

\* g folds what a subset of the first n selects.
Folds(g, n, b, s) ==
  g = [t \in SUBSET (1 .. n) |-> IF t = {} THEN b ELSE Op(g[t \ {Top(t)}], s[Top(t)])]

LEMMA FoldExists ==
  ASSUME NEW b, NEW s, NEW n \in Nat
  PROVE  \E g : Folds(g, n, b, s)
<1> DEFINE T == {k \in Nat : \E g : Folds(g, k, b, s)}
<1>1. 0 \in T
  <2> DEFINE g == [t \in SUBSET (1 .. 0) |-> b]
  <2>1. \A t \in SUBSET (1 .. 0) : t = {}
    OBVIOUS
  <2>2. Folds(g, 0, b, s)
    BY <2>1 DEF Folds
  <2> QED BY <2>2
<1>2. ASSUME NEW k \in Nat, k \in T
      PROVE  k + 1 \in T
  <2>1. PICK g : Folds(g, k, b, s)
    BY <1>2
  <2> DEFINE h == [t \in SUBSET (1 .. k + 1) |->
                     IF k + 1 \in t THEN Op(g[t \ {k + 1}], s[k + 1]) ELSE g[t]]
             Step(f, t) == IF t = {} THEN b ELSE Op(f[t \ {Top(t)}], s[Top(t)])
  <2>2. ASSUME NEW t \in SUBSET (1 .. k + 1), k + 1 \in t
        PROVE  h[t] = Step(h, t)
    <3>1. Top(t) = k + 1
      BY <2>2, TopIsLast
    <3>2. t \ {k + 1} \in SUBSET (1 .. k) /\ t # {}
      BY <2>2
    <3>3. h[t \ {k + 1}] = g[t \ {k + 1}]
      BY <3>2
    <3> QED BY <2>2, <3>1, <3>2, <3>3
  <2>3. ASSUME NEW t \in SUBSET (1 .. k + 1), k + 1 \notin t
        PROVE  h[t] = Step(h, t)
    <3>a. t \in SUBSET (1 .. k)
      BY <2>3
    <3>1. t \in SUBSET (1 .. k) /\ t \ {Top(t)} \in SUBSET (1 .. k)
      BY <3>a
    <3>2. t \ {Top(t)} \in SUBSET (1 .. k + 1) /\ k + 1 \notin t \ {Top(t)}
      BY <2>3
    <3>3. h[t \ {Top(t)}] = g[t \ {Top(t)}]
      BY <3>2
    <3>4. h[t] = g[t] /\ g[t] = Step(g, t)
      BY <2>1, <2>3, <3>1 DEF Folds
    <3> QED BY <3>3, <3>4
  <2>4. Folds(h, k + 1, b, s)
    <3>1. \A t \in SUBSET (1 .. k + 1) : h[t] = Step(h, t)
      BY <2>2, <2>3
    <3>2. h = [t \in SUBSET (1 .. k + 1) |-> h[t]]
      OBVIOUS
    <3> HIDE DEF h
    <3> QED BY <3>1, <3>2 DEF Folds
  <2> HIDE DEF h
  <2> QED BY <2>4
<1>3. n \in T
  <2> HIDE DEF T
  <2> QED BY <1>1, <1>2, NatSet
<1> QED BY <1>3

\* v[k] is the fold of the first k of n.
Runs(v, n, b, s) ==
  /\ v[0] = b
  /\ \A k \in 1 .. n : v[k] = Op(v[k - 1], s[k])

LEMMA FoldRuns ==
  ASSUME NEW b, NEW E, NEW s \in Seq(E)
  PROVE  \E v : Runs(v, Len(s), b, s) /\ Fold(b, s) = v[Len(s)]
<1> DEFINE n == Len(s)
           g == CHOOSE g : Folds(g, n, b, s)
           v == [k \in 0 .. n |-> g[1 .. k]]
<1>1. n \in Nat /\ DOMAIN s = 1 .. n
  OBVIOUS
<1>2. Fold(b, s) = g[1 .. n]
  BY <1>1 DEF Fold, Folds
<1>3. Folds(g, n, b, s)
  BY <1>1, FoldExists, Zenon
<1> HIDE DEF n, g
<1>4. v[0] = b
  <2>1. 1 .. 0 = {} /\ {} \in SUBSET (1 .. n)
    BY <1>1
  <2> QED BY <1>1, <1>3, <2>1 DEF Folds
<1>5. ASSUME NEW k \in 1 .. n
      PROVE  v[k] = Op(v[k - 1], s[k])
  <2>1. 1 .. k \in SUBSET (1 .. n) /\ 1 .. k # {} /\ k \in 1 .. k
    BY <1>1
  <2>2. (1 .. k) \ {k} = 1 .. (k - 1)
    <3>1. \A i : i \in (1 .. k) \ {k} <=> i \in 1 .. (k - 1)
      BY <1>1
    <3> QED BY <3>1
  <2>3. Top(1 .. k) = k
    BY <1>1, <2>1, TopIsLast
  <2>4. g[1 .. k] = Op(g[1 .. (k - 1)], s[k])
    BY <1>3, <2>1, <2>2, <2>3 DEF Folds
  <2> QED BY <1>1, <2>4
<1>6. Fold(b, s) = v[n]
  BY <1>1, <1>2
<1> HIDE DEF v
<1>7. Runs(v, n, b, s)
  BY <1>4, <1>5 DEF Runs
<1> QED BY <1>6, <1>7 DEF n

\* The first n of s are folded as they are without the rest.
LEMMA RunsPrefix ==
  ASSUME NEW b, NEW s, NEW r, NEW n \in Nat, NEW m \in 0 .. n,
         NEW v, NEW w, Runs(v, n, b, s), Runs(w, m, b, r), \A k \in 1 .. m : r[k] = s[k]
  PROVE  w[m] = v[m]
<1> DEFINE T == {k \in Nat : k <= m => w[k] = v[k]}
<1>1. 0 \in T
  BY DEF Runs
<1>2. ASSUME NEW k \in Nat, k \in T
      PROVE  k + 1 \in T
  <2> SUFFICES ASSUME k + 1 <= m PROVE w[k + 1] = v[k + 1]
    OBVIOUS
  <2>1. k + 1 \in 1 .. m /\ k + 1 \in 1 .. n /\ (k + 1) - 1 = k
    OBVIOUS
  <2>2. w[k + 1] = Op(w[k], r[k + 1]) /\ v[k + 1] = Op(v[k], s[k + 1])
    BY <2>1 DEF Runs
  <2>3. w[k] = v[k]
    BY <1>2
  <2> QED BY <2>1, <2>2, <2>3
<1>3. \A k \in Nat : k \in T
  <2> HIDE DEF T
  <2> QED BY <1>1, <1>2, NatSet
<1> QED BY <1>3

\* What r adds to the first d of s is folded from where those leave off.
LEMMA RunsAgree ==
  ASSUME NEW b, NEW s, NEW c, NEW r, NEW d \in Nat, NEW n \in Nat, NEW m \in Nat,
         NEW v, NEW w, Runs(v, n, b, s), Runs(w, m, c, r),
         v[d] = c, n >= d + m, \A k \in 1 .. m : r[k] = s[d + k]
  PROVE  w[m] = v[d + m]
<1> DEFINE T == {k \in Nat : k <= m => w[k] = v[d + k]}
<1>1. 0 \in T
  BY DEF Runs
<1>2. ASSUME NEW k \in Nat, k \in T
      PROVE  k + 1 \in T
  <2> SUFFICES ASSUME k + 1 <= m PROVE w[k + 1] = v[d + (k + 1)]
    OBVIOUS
  <2>1. k + 1 \in 1 .. m /\ d + (k + 1) \in 1 .. n
    OBVIOUS
  <2>2. (k + 1) - 1 = k /\ (d + (k + 1)) - 1 = d + k
    OBVIOUS
  <2>3. w[k + 1] = Op(w[k], r[k + 1])
    BY <2>1, <2>2 DEF Runs
  <2>4. v[d + (k + 1)] = Op(v[d + k], s[d + (k + 1)])
    BY <2>1, <2>2 DEF Runs
  <2>5. w[k] = v[d + k]
    BY <1>2
  <2> QED BY <2>1, <2>3, <2>4, <2>5
<1>3. \A k \in Nat : k \in T
  <2> HIDE DEF T
  <2> QED BY <1>1, <1>2, NatSet
<1> QED BY <1>3

-----------------------------------------------------------------------------

\* The fold of the empty sequence is the base.
THEOREM FoldEmpty ==
  ASSUME NEW b
  PROVE  Fold(b, <<>>) = b
<1>1. <<>> \in Seq({})
  OBVIOUS
<1>2. PICK v : Runs(v, Len(<<>>), b, <<>>) /\ Fold(b, <<>>) = v[Len(<<>>)]
  BY <1>1, FoldRuns
<1> QED BY <1>2 DEF Runs

\* The fold of one element is one step.
THEOREM FoldOne ==
  ASSUME NEW b, NEW e
  PROVE  Fold(b, <<e>>) = Op(b, e)
<1>1. <<e>> \in Seq({e}) /\ Len(<<e>>) = 1
  OBVIOUS
<1>2. PICK v : Runs(v, Len(<<e>>), b, <<e>>) /\ Fold(b, <<e>>) = v[Len(<<e>>)]
  BY <1>1, FoldRuns
<1> QED BY <1>1, <1>2 DEF Runs

\* Two sequences are folded one after the other.
THEOREM FoldConcat ==
  ASSUME NEW b, NEW E, NEW s \in Seq(E), NEW r \in Seq(E)
  PROVE  Fold(b, s \o r) = Fold(Fold(b, s), r)
<1> DEFINE c == Fold(b, s)
           sr == s \o r
           n == Len(s)
           m == Len(r)
           l == n + m
<1>1. n \in Nat /\ m \in Nat /\ l \in Nat /\ l = n + m /\ sr \in Seq(E) /\ Len(sr) = l
  OBVIOUS
<1>2. \A k \in 1 .. n : s[k] = sr[k]
  OBVIOUS
<1>3. \A k \in 1 .. m : r[k] = sr[n + k]
  OBVIOUS
<1>4. PICK v : Runs(v, l, b, sr) /\ Fold(b, sr) = v[l]
  <2> HIDE DEF sr, n, m, l
  <2> QED BY <1>1, FoldRuns
<1>5. PICK u : Runs(u, n, b, s) /\ Fold(b, s) = u[n]
  BY FoldRuns
<1>6. PICK w : Runs(w, m, c, r) /\ Fold(c, r) = w[m]
  <2> HIDE DEF c
  <2> QED BY FoldRuns
<1> HIDE DEF c, sr, n, m, l
<1>7. u[n] = v[n]
  <2>1. n \in 0 .. l
    BY <1>1
  <2> QED BY <1>1, <1>2, <1>4, <1>5, <2>1, RunsPrefix
<1>8. w[m] = v[n + m]
  <2>1. v[n] = c /\ l >= n + m
    BY <1>1, <1>5, <1>7 DEF c
  <2> QED BY <1>1, <1>3, <1>4, <1>6, <2>1, RunsAgree
<1> QED BY <1>1, <1>4, <1>6, <1>8 DEF c, sr

\* The last element is folded last.
THEOREM FoldAppend ==
  ASSUME NEW b, NEW E, NEW s \in Seq(E), NEW e \in E
  PROVE  Fold(b, Append(s, e)) = Op(Fold(b, s), e)
<1> DEFINE r == <<e>>
<1>1. r \in Seq(E) /\ Append(s, e) = s \o r
  OBVIOUS
<1>2. Fold(Fold(b, s), r) = Op(Fold(b, s), e)
  BY FoldOne
<1> HIDE DEF r
<1> QED BY <1>1, <1>2, FoldConcat

\* The first element is folded first.
THEOREM FoldTail ==
  ASSUME NEW b, NEW E, NEW s \in Seq(E), s # <<>>
  PROVE  Fold(b, s) = Fold(Op(b, Head(s)), Tail(s))
<1> DEFINE r == <<Head(s)>>
           t == Tail(s)
<1>1. r \in Seq(E) /\ t \in Seq(E) /\ s = r \o t
  OBVIOUS
<1>2. Fold(b, r) = Op(b, Head(s))
  BY FoldOne
<1> HIDE DEF r, t
<1>3. Fold(b, s) = Fold(Fold(b, r), t)
  BY <1>1, FoldConcat
<1> QED BY <1>2, <1>3 DEF t

\* What the base has and every step keeps, the fold has: it is of a set that is closed.
THEOREM FoldType ==
  ASSUME NEW B, NEW E, NEW b \in B, NEW s \in Seq(E),
         \A x \in B, e \in E : Op(x, e) \in B
  PROVE  Fold(b, s) \in B
<1>1. PICK v : Runs(v, Len(s), b, s) /\ Fold(b, s) = v[Len(s)]
  BY FoldRuns
<1> DEFINE T == {k \in Nat : k <= Len(s) => v[k] \in B}
<1>2. 0 \in T
  BY <1>1 DEF Runs
<1>3. ASSUME NEW k \in Nat, k \in T
      PROVE  k + 1 \in T
  <2> SUFFICES ASSUME k + 1 <= Len(s) PROVE v[k + 1] \in B
    OBVIOUS
  <2>1. k + 1 \in 1 .. Len(s) /\ (k + 1) - 1 = k
    OBVIOUS
  <2>2. v[k + 1] = Op(v[k], s[k + 1])
    BY <1>1, <2>1 DEF Runs
  <2>3. v[k] \in B /\ s[k + 1] \in E
    BY <1>3, <2>1
  <2> QED BY <2>2, <2>3
<1>4. Len(s) \in T
  <2> HIDE DEF T
  <2> QED BY <1>2, <1>3, NatSet
<1> QED BY <1>1, <1>4

\* What holds of the empty sequence and its base, and goes on to hold with every step,
\* holds of the sequence and its fold: R is a relation between the two.
THEOREM FoldInto ==
  ASSUME NEW R, NEW E, NEW b, <<<<>>, b>> \in R, NEW s \in Seq(E),
         \A r \in Seq(E), e \in E : \A y : <<r, y>> \in R => <<Append(r, e), Op(y, e)>> \in R
  PROVE  <<s, Fold(b, s)>> \in R
<1> DEFINE T == {n \in Nat : \A r \in Seq(E) : Len(r) = n => <<r, Fold(b, r)>> \in R}
<1>1. 0 \in T
  <2> SUFFICES ASSUME NEW r \in Seq(E), Len(r) = 0 PROVE <<r, Fold(b, r)>> \in R
    OBVIOUS
  <2>1. r = <<>>
    OBVIOUS
  <2> QED BY <2>1, FoldEmpty
<1>2. ASSUME NEW n \in Nat, n \in T
      PROVE  n + 1 \in T
  <2> SUFFICES ASSUME NEW r \in Seq(E), Len(r) = n + 1 PROVE <<r, Fold(b, r)>> \in R
    OBVIOUS
  <2>0. r # <<>>
    OBVIOUS
  <2>1. PICK t \in Seq(E), e \in E : r = Append(t, e)
    BY <2>0, SequenceEmptyOrAppend
  <2>2. Len(t) = n
    BY <2>1
  <2>3. <<t, Fold(b, t)>> \in R
    BY <1>2, <2>2
  <2>4. Fold(b, Append(t, e)) = Op(Fold(b, t), e)
    BY FoldAppend
  <2> QED BY <2>1, <2>3, <2>4
<1>3. \A n \in Nat : n \in T
  <2> HIDE DEF T
  <2> QED BY <1>1, <1>2, NatSet
<1>4. Len(s) \in Nat
  OBVIOUS
<1> QED BY <1>3, <1>4

-----------------------------------------------------------------------------
(* The elements of a set, in whatever order.                               *)

Any(t) == CHOOSE x \in t : TRUE

\* FoldSet of FiniteSetsExt, spelled out.
SetFold(b, S) ==
  LET iter[t \in SUBSET S] ==
        IF t = {} THEN b ELSE LET x == Any(t) IN Op(iter[t \ {x}], x)
  IN  iter[S]

SetStep(g, b, t) == IF t = {} THEN b ELSE Op(g[t \ {Any(t)}], Any(t))

SetFolds(g, b, S) == g = [t \in SUBSET S |-> SetStep(g, b, t)]

\* g folds the sets of at most n.
SetFoldsTo(n, g, b, S) ==
  /\ g = [t \in SUBSET S |-> g[t]]
  /\ \A t \in SUBSET S : Cardinality(t) <= n => g[t] = SetStep(g, b, t)

LEMMA SetFoldExists ==
  ASSUME NEW b, NEW S, IsFiniteSet(S)
  PROVE  \E g : SetFolds(g, b, S)
<1> DEFINE T == {n \in Nat : \E g : SetFoldsTo(n, g, b, S)}
<1>0. \A t \in SUBSET S : /\ IsFiniteSet(t) /\ Cardinality(t) \in Nat
                          /\ Cardinality(t) <= Cardinality(S)
                          /\ Cardinality(t) = 0 <=> t = {}
  BY FS_Subset, FS_CardinalityType, FS_EmptySet
<1>1. 0 \in T
  <2> DEFINE g == [t \in SUBSET S |-> b]
  <2>1. \A t \in SUBSET S : Cardinality(t) <= 0 => g[t] = SetStep(g, b, t)
    BY <1>0 DEF SetStep
  <2>2. SetFoldsTo(0, g, b, S)
    BY <2>1 DEF SetFoldsTo
  <2> QED BY <2>2
<1>2. ASSUME NEW n \in Nat, n \in T
      PROVE  n + 1 \in T
  <2>0. PICK g : SetFoldsTo(n, g, b, S)
    BY <1>2
  <2>1. /\ g = [t \in SUBSET S |-> g[t]]
        /\ \A t \in SUBSET S : Cardinality(t) <= n => g[t] = SetStep(g, b, t)
    BY <2>0 DEF SetFoldsTo
  <2> DEFINE h == [t \in SUBSET S |-> IF Cardinality(t) = n + 1 THEN SetStep(g, b, t) ELSE g[t]]
  <2>2. ASSUME NEW t \in SUBSET S, Cardinality(t) <= n + 1
        PROVE  h[t] = SetStep(h, b, t)
    <3>1. CASE t = {}
      <4>1. Cardinality(t) = 0 /\ Cardinality(t) <= n /\ Cardinality(t) # n + 1
        BY <1>0, <3>1
      <4> QED BY <2>1, <3>1, <4>1 DEF SetStep
    <3>2. CASE t # {}
      <4> DEFINE u == t \ {Any(t)}
      <4>1. Any(t) \in t
        BY <3>2 DEF Any
      <4>2. u \in SUBSET S /\ Cardinality(u) = Cardinality(t) - 1
        BY <1>0, <4>1, FS_RemoveElement
      <4>3. Cardinality(t) \in Nat
        BY <1>0
      <4> HIDE DEF u
      <4>4. h[u] = g[u]
        BY <2>2, <4>2, <4>3
      <4>5. SetStep(h, b, t) = SetStep(g, b, t)
        BY <3>2, <4>4 DEF SetStep, u
      <4>6. h[t] = SetStep(g, b, t)
        <5>1. h[t] = IF Cardinality(t) = n + 1 THEN SetStep(g, b, t) ELSE g[t]
          OBVIOUS
        <5>2. Cardinality(t) = n + 1 \/ Cardinality(t) <= n
          BY <2>2, <4>3
        <5> QED BY <2>1, <5>1, <5>2
      <4> QED BY <4>5, <4>6
    <3> QED BY <3>1, <3>2
  <2>3. h = [t \in SUBSET S |-> h[t]]
    OBVIOUS
  <2> HIDE DEF h
  <2>4. SetFoldsTo(n + 1, h, b, S)
    BY <2>2, <2>3 DEF SetFoldsTo
  <2> QED BY <2>4
<1>3. \A n \in Nat : n \in T
  <2> HIDE DEF T
  <2> QED BY <1>1, <1>2, NatSet
<1>4. Cardinality(S) \in T
  <2> HIDE DEF T
  <2> QED BY <1>3, FS_CardinalityType
<1>5. PICK g : SetFoldsTo(Cardinality(S), g, b, S)
  BY <1>4
<1>6. \A t \in SUBSET S : g[t] = SetStep(g, b, t)
  BY <1>0, <1>5 DEF SetFoldsTo
<1>7. SetFolds(g, b, S)
  BY <1>5, <1>6 DEF SetFolds, SetFoldsTo
<1> QED BY <1>7

\* What holds of no element and the base, and goes on to hold with every further element,
\* whichever it is, holds of the set and its fold.
THEOREM SetFoldInto ==
  ASSUME NEW R, NEW S, IsFiniteSet(S), NEW b, <<{}, b>> \in R,
         \A t \in SUBSET S : \A x \in t : \A y :
           <<t \ {x}, y>> \in R => <<t, Op(y, x)>> \in R
  PROVE  <<S, SetFold(b, S)>> \in R
<1> DEFINE g == CHOOSE g : SetFolds(g, b, S)
<1>0. SetFolds(g, b, S)
  BY SetFoldExists, Zenon
<1>2. SetFold(b, S) = g[S]
  BY DEF SetFold, SetStep, SetFolds
<1> HIDE DEF g
<1>1. g = [t \in SUBSET S |-> SetStep(g, b, t)]
  BY <1>0 DEF SetFolds
<1> DEFINE T == {n \in Nat : \A t \in SUBSET S : Cardinality(t) = n => <<t, g[t]>> \in R}
<1>3. \A t \in SUBSET S : /\ IsFiniteSet(t) /\ Cardinality(t) \in Nat
                          /\ Cardinality(t) = 0 <=> t = {}
  BY FS_Subset, FS_CardinalityType, FS_EmptySet
<1>4. 0 \in T
  BY <1>1, <1>3 DEF SetStep
<1>5. ASSUME NEW n \in Nat, n \in T
      PROVE  n + 1 \in T
  <2> SUFFICES ASSUME NEW t \in SUBSET S, Cardinality(t) = n + 1 PROVE <<t, g[t]>> \in R
    OBVIOUS
  <2> DEFINE x == Any(t)
  <2>1. t # {}
    BY <1>3
  <2>2. x \in t
    BY <2>1 DEF Any
  <2>3. t \ {x} \in SUBSET S /\ Cardinality(t \ {x}) = n
    <3>1. IsFiniteSet(t)
      BY <1>3
    <3>2. Cardinality(t \ {x}) = Cardinality(t) - 1
      BY <2>2, <3>1, FS_RemoveElement
    <3> QED BY <3>2
  <2>4. <<t \ {x}, g[t \ {x}]>> \in R
    BY <1>5, <2>3
  <2>5. g[t] = Op(g[t \ {x}], x)
    BY <1>1, <2>1 DEF SetStep
  <2> HIDE DEF x
  <2> QED BY <2>2, <2>4, <2>5
<1>6. \A n \in Nat : n \in T
  <2> HIDE DEF T
  <2> QED BY <1>4, <1>5, NatSet
<1>7. Cardinality(S) \in Nat
  BY FS_CardinalityType
<1> QED BY <1>2, <1>6, <1>7
=============================================================================
